SPECIFICATION Spec
CONSTANTS
  Parts = {"votes", "rpt", "election", "snapshots", "make", "admit"}
  Hashes = {h1, h2}
  Committee = {u1, u2}
  Strangers = {x}
  CacheSize = 1
  RankedNodes = {"x", "y", "z"}
  Histories <- MCHistories
  Numbers = {2, 3, 4, 5, 6}
  Method <- MCMethod
  WindowSize = 3
  Rules <- MCRules
  minRptScore = 16
  defaultRank = 100
  Cpc = 10
  Word = 64
  MaxLists = 2
  MaxReadFails = 1
  Candidates = {1, 2, 3, 4, 5}
  Scores = {16, 30, 48}
  FallbackProposers = {11, 12}
  SeatsOfTerm = 6
  defaultProposersNum = 2
  MaxTarget = 7
  Headers <- MCHeaders
  Number <- MCNumber
  Parent <- MCParent
  GenesisHeader = 0
  SnapTermLen = 2
  SnapViewLen = 1
  SnapInitBlocks = 6
  SnapTermDist = 2
  DefaultFullSyncPivot = 4
  MaxSizeOfRecent = 4
  inMemorySnapshots = 1
  Unseen = {6}
  Batched = {104}
  PeerHeights = {9}
  MaxRestarts = 1
  MaxFails = 1
  NoSnapshot = NoSnapshot
  Validators = {"v1", "v2", "v3"}
  Faulty = 1
  DefaultProposers <- MCDefault
  ElectedProposers <- MCElected
  TermLen = 2
  ViewLen = 1
  MaxInitBlockNumber = 2
  TermDist = 1
  Period = 1
  BlockDelay = 1
  ImpeachTimeout = 2
  MinGasLimit = 8
  MaxGasLimit = 13
  TargetGasLimit = 11
  GasLimitBoundDivisor = 4
  GenesisGas = 12
  MaxHeight = 3
  MaxClock = 5
  UsedGas = {13}
  CampaignTerms = 2
  StartTerm = 1
  MaxTerm = 4
  MaxFunds = 2
  Nobody = "nobody"
  NoBlock = NoBlock
INVARIANTS
  CountIsOfVotes CommitteeOfAncestors HonestAccepted DporInv
PROPERTY
  FoundBlocksWereAdded
CHECK_DEADLOCK FALSE
