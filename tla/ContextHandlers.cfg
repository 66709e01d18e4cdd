SPECIFICATION FairSpec
CONSTANTS
  HealthThreads = {h1}
  StatsThreads = {}
  RequestThreads = {q1, q2}
  NoThread = NoThread
  Calls = 1
  Races = TRUE
CHECK_DEADLOCK FALSE
INVARIANTS OwnReplies SentOnce ReplyOnItsWay
PROPERTY CommandsReturn
