SPECIFICATION FairSpec
CONSTANTS
  Parts = {"miner", "engine", "committee", "syncer", "fast", "queries", "sessions", "propagation"}
  SyncCalls = {s1, s2}
  MaxUserCalls = 2
  Callers = {t1, t2}
  MaxHead = 1
  MaxCalls = 3
  MaxStarts = 2
  Remotes = {"a", "b"}
  Self = "self"
  ValidatorsOf <- MCValidatorsOf
  ProposersOf <- MCProposersOf
  DefaultValidators = {"a"}
  FutureTerms = 0
  MaxTerm = 2
  MaxDials <- MCDials
  MaxRecords = 3
  Messages = {"m1"}
  KindOf <- MCKindOf
  QueueSize = 1
  Faulty = 1
  Calls = {c1, c2}
  SyncPeers = {p1}
  Height = 2
  MaxBlockFetch = 1
  MaxQueueSize = 1
  NoPeer = NoPeer
  FPeers = {"p", "q"}
  FBlocks = {"b1", "b2"}
  Genesis = "g"
  FNumber <- MCNumber
  FParent <- MCParent
  Body <- MCBody
  EmptyBody = "none"
  Notices <- MCNotices
  Pushes <- MCPushes
  Batches <- MCBatches
  hashLimit = 1
  blockLimit = 1
  maxUncleDist = 0
  maxQueueDist = 2
  MaxHeld = 1
  MaxDrift = 0
  Pivot = 2
  FastBlockFetch = 1
  FastQueueSize = 2
  MaxSessions = 2
  MaxLeft = 0
  MaxCrashes = 0
  Txs <- MCTxs
  Hashes <- MCHashes
  NumberOf <- MCNumberOf
  ParentOf <- MCParentOf
  NoHash = 999
  Heads = {4, 104, 3}
  Word = 16
  Skips = {0, 1, 15}
  Amounts = {1, 3}
  MaxHeaderFetch = 3
  MaxBlocksAnswered = 3
  MaxNonCanonical = 2
  MaxReorgs = 1
  Nodes = {"m", "c"}
  RemoteMiners = {"m"}
  TrustedNodes = {"m"}
  maxPeers = 1
  Roles = {"miner", "validator"}
  MaxConnections = 1
  MaxDrops = 1
  Linked = {"p"}
  TxItems = {"t1", "t2"}
  BlockItems = {"b"}
  Dangling = {}
  maxQueuedTxs = 1
  maxQueuedProps = 1
  maxKnownTxs = 1
  maxKnownBlocks = 1
  packSize = 1
  Announced = {"t1", "b"}
  MaxReconnects = 1
PROPERTIES
  ResumesAfterSync NetworkProgress
CHECK_DEADLOCK FALSE
