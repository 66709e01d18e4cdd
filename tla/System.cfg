SPECIFICATION MCSpec
CONSTANTS
  Threads = {t1, t2}
  Posts = {p1, p2}
  EmptyPosts = {}
  Gets = {}
  Chunked = {}
  WithNul = {p2}
  NoThread = NoThread
  NoRequest = NoRequest
  NoItem = NoItem
  MaxLives = 2
  MaxWorkerLives = 1
  Faults = {"lostReply"}
  L2Faults = {"timeout"}
  Ends = {"signal", "crash"}
  WorkerEnds = {"crash"}
  PollRefused = FALSE
  ShortReads = FALSE
  Tracing = TRUE
  WorkerTracing = TRUE
  MaxRestarts = 0
SYMMETRY Symmetry
INVARIANTS
  UniqueIds PushedOnce AnsweredWholeBody WritesTrackPushes AnsweredIsPushed
  TypeOK ReadsTrackPops ReadsBehindWrites ResponseOfSameLife StoredMeansCalled BodiesReachL2
PROPERTY ImplementsDelivery
