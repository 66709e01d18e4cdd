SPECIFICATION MCPoolFairSpec
CONSTANTS
  MaxWorkers = 2
  SqSize = 2
  Clients = {c1, c2, c3, c4, c5}
  NoClient = NoClient
  MaxSpawnFailures = 1
  MayStop = TRUE
INVARIANTS PoolTypeOK IdleCountExact NoWaitBehindService NoLostWakeup
PROPERTIES ImplementsService WaitingIsTaken StopCompletes
