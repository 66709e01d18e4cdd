SPECIFICATION MCFairSpec
CONSTANTS
  Threads = {t1, t2}
  Posts = {p1}
  EmptyPosts = {}
  Gets = {g1}
  Chunked = {p1}
  WithNul = {}
  NoThread = NoThread
  NoRequest = NoRequest
  NoItem = NoItem
  MaxLives = 1
  MaxWorkerLives = 2
  Faults = {}
  L2Faults = {}
  Ends = {"signal"}
  WorkerEnds = {"signal"}
  PollRefused = TRUE
  ShortReads = FALSE
  Tracing = FALSE
  WorkerTracing = FALSE
  MaxRestarts = 1
INVARIANTS OncePerRestart
PROPERTIES ImplementsDelivery ShutdownCompletes PostsReachL2 WorkerShutdownCompletes
