SPECIFICATION FairSpec
CONSTANTS
  Parts = {"files", "unlock", "node", "role", "send", "est", "price", "read", "codec", "fields", "topics", "bound", "chain", "block", "script"}
  Paths = {1, 2}
  Addresses = {"A", "B"}
  Workers = {"w1"}
  Others = {"bad"}
  First = "A"
  FirstPath = 2
  MaxOps = 1
  MaxExternal = 1
  Users = {"u1", "u2"}
  Passphrases = {"p1", "p2"}
  FirstPass = "p1"
  Imports <- MCImports
  MaxUnlocks = 2
  MaxStores = 1
  Services = {"cpc", "other"}
  Waiters = {"w1", "w2"}
  MaxStarts = 3
  MaxFaults = 2
  ApiCalls = {"c1", "c2"}
  NewCoinbase = "other"
  Clients = {"c1", "c2"}
  Senders = {"a"}
  Requests <- MCRequests
  MaxNonce = 1
  MaxClock = 3
  MaxClockSteps = 2
  Rate = 1
  BucketSize = 1
  Width = 5
  TxGas = 4
  BlockGasLimit = 11
  Needs = {4, 7, 13}
  Askers = {"p1", "p2"}
  BlockFees <- MCFees
  FirstHead = 7
  CheckBlocks = 3
  Percentile = 100
  DefaultPrice = 1
  MaxPrice = 4
  ViewLen = 2
  TermLen = 2
  MaxHeight = 4
  BlockTxs <- MCTxs
  From = 1
  To = 5
  W = 2
  Base = 4
  MaxLen = 2
  ArgLists <- MCArgLists
  Datas <- MCDatas
  NameLists <- MCGoodNames
  Structs <- MCStructs
  TopicLists <- MCTopicLists
  BoundClients = {x, y}
  Accounts = {"p"}
  AccountOf <- MCAccountOf
  SimTxGas = 2
  FirstGas = 4
  NextGas = 3
  BlockGas = 8
  MaxTxs = 2
  BoundWaiters = {x}
  Newest = 4
  NonEmpty = {1, 3}
  OnDisk = {0, 2}
  Threads = 2
  Reexec = 1
  Contracts = {c1, c2}
  Values = {1, 2}
  MaxSteps = 4
  MaxDepth = 2
  LogLimit = 3
  c1 = c1
  c2 = c2
  Fork = 1
  Tip = 3
  Kept <- MCKept
  TxLists <- MCTxLists
INVARIANTS
  RolesExclusive AutoNoncesDistinct NodeInv
PROPERTY
  NodeProgress
CHECK_DEADLOCK FALSE
