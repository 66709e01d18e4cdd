SPECIFICATION MCPoolFairSpec
CONSTANTS
  MaxWorkers = 1
  SqSize = 1
  Clients = {c1, c2, c3}
  NoClient = NoClient
  MaxSpawnFailures = 0
  MayStop = TRUE
PROPERTY StopWakesMaster
