SPECIFICATION FairSpec
CONSTANTS
  HealthThreads = {h1}
  StatsThreads = {}
  RequestThreads = {q1}
  NoThread = NoThread
  Calls = 1
  Races = FALSE
CHECK_DEADLOCK FALSE
PROPERTY EveryCommandReturns
