SPECIFICATION FairSpec
CONSTANTS
  Parts = {"server", "client", "index", "matcher", "filters"}
  Conns = {"http", "ws"}
  HttpConns = {"http"}
  Methods <- MCMethods
  Whitelist = {"cpc"}
  PublicServices = {"cpc"}
  Inputs <- MCInputs
  MaxServerEvents = 1
  Calls = {1}
  Subscribes = {2}
  MaxConnections = 2
  MaxNotes = 2
  maxClientSubscriptionBuffer = 1
  Fork = 0
  MaxHead = 4
  MaxReorgs = 1
  MaxHeadEvents = 2
  MaxRestarts = 1
  MaxSearches = 1
  sectionSize = 2
  confirmsReq = 1
  Byte = 2
  Hits <- MCHits
  Matching <- MCMatching
  Ranges <- MCRanges
  Sections = 2
  Bits = {"x", "y"}
  Clauses <- MCClauses
  Vectors <- MCVectors
  Width = 2
  Threads = {"t1", "t2"}
  Batch = 1
  MaxErrors = 1
  Polled = {"f1"}
  Pushed = {"p"}
  Queries <- MCQueries
  Events <- MCEvents
  MaxEvents = 2
  MaxPolls = 2
INVARIANTS
  NobodyWaitsForNothing SearchExact RpcInv
PROPERTY
  RpcProgress
CHECK_DEADLOCK FALSE
