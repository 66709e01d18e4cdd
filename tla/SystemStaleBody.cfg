SPECIFICATION MCSpec
CONSTANTS
  Threads = {t1}
  Posts = {p1}
  EmptyPosts = {e1}
  Gets = {}
  Chunked = {}
  WithNul = {}
  NoThread = NoThread
  NoRequest = NoRequest
  NoItem = NoItem
  MaxLives = 1
  MaxWorkerLives = 1
  Faults = {}
  L2Faults = {}
  Ends = {}
  WorkerEnds = {}
  PollRefused = FALSE
  ShortReads = FALSE
  Tracing = FALSE
  WorkerTracing = FALSE
  MaxRestarts = 0
INVARIANT L2GetsOwnBody
