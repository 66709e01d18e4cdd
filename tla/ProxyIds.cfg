SPECIFICATION MCSpec
CONSTANTS
  Threads = {t1}
  Posts = {p1, p2}
  EmptyPosts = {}
  Gets = {}
  Chunked = {}
  WithNul = {}
  NoThread = NoThread
  NoRequest = NoRequest
  MaxLives = 2
  Faults = {}
  Ends = {"signal"}
  ShortReads = FALSE
  Tracing = FALSE
PROPERTY IdsContinue
