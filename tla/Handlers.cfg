SPECIFICATION MCRegistrySpec
CONSTANTS
  Threads = {t1, t2}
  NoURI = NoURI
  Programs <- BothPrograms
  Requests <- KnownRequests
  MaxScrapes = 3
INVARIANTS TypeOK HandlersOutliveCalls RefcountExact NeverElsewhere ConnectionsTracked NoLostScrape
PROPERTIES MarkedDrains TeardownCompletes
