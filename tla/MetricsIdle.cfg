SPECIFICATION MCMetricsSpec
CONSTANTS
  NoItem = NoItem
  MaxWorkerLives = 1
  WorkerEnds = {"signal"}
  WorkerTracing = TRUE
  Faults = {}
  L2Faults = {"timeout", "refused"}
  PollRefused = FALSE
  Queue <- ThreeItems
  MaxOps = 10
INVARIANT OnlyFailuresCounted
