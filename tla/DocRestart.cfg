SPECIFICATION Spec
CONSTANTS
  Parts = {"chain"}
  g = g  a1 = a1  a2 = a2  a3 = a3  b2 = b2
  Blocks = {g, a1, a2, a3, b2}
  Genesis = g
  Parent <- MCParent
  Number <- MCNumber
  Private = {a2}
  Flaw <- MCNoFlaw
  Batches <- MCBatches
  Targets = {0}
  Offsets <- MCOffsets
  MaxCrashes = 1
  MaxSetHeads = 0
  Owners <- MCOwners
  Txs <- MCTxs
  Heads <- MCHeads
  HeadParent <- MCHeadParent
  Mined <- MCMined
  Balance <- MCBalance
  PoolGenesis = "g"
  PriceBump = 10
  AccountSlots = 1
  GlobalSlots = 1
  AccountQueue = 1
  GlobalQueue = 2
  Prices <- MCPrices
  TieBreak <- MCTie
  Addr = {a}
  Absent = Absent
  Unset = Unset
  Values = {0, 1}
  MaxEntries = 3
  MaxRevisions = 2
  MaxTally = 1
  Fields = {"nonce"}
  Tallies = {"refund"}
  Accounts = {"s", "c", "n"}
  Coinbase = "n"
  Created = "n"
  NoTarget = NoTarget
  Transactions <- MCTransactions
  Participant = TRUE
  FirstWorld <- MCWorld
  BlockGas = 11
  Width = 32
  Fraction = 4
  Calls = 1
  CallValueTransferGas = 2
  CallNewAccountGas = 1
  CallStipend = 1
  CreateGas = 2
  CreateDataGas = 1
  TxGas = 2
  SstoreSetGas = 2
  SstoreResetGas = 1
  SstoreRefundGas = 1
  SuicideGas = 1
  SuicideRefundGas = 2
  CallCreateDepth = 2
  MaxCodeSize = 1
  StackLimit = 8
  Widest = 3
  Word = 2
  GasWidth = 16
  MaxMemory = 8
  MemoryGas = 1
  QuadCoeffDiv = 2
  FirstGas = 13
  Operands = {0, 3, 20}
  ListNonces <- MCNonces
  Offers <- MCOffers
  Limits <- MCLimits
  ListPriceBump = 10
  MaxListCalls = 6
  Senders = {"p", "q"}
  Pays = {1, 2}
  MaxRun = 2
  WorkGas = 3
  TxGases = {1, 2}
  ChainIds = {0, 1, 110}
  KeyOwners = {"k"}
  Stranger = "stranger"
  WordSize = 65536
  MaxTxCalls = 5
  Threads = 2
  Lengths = {0, 1, 4, 5, 9}
  Recoverers = {"insert", "reset"}
  Committee = {"me", "v2", "v3"}
  Me = "me"
  CommitteeQuorum = 2
  MaxHeaders = 6
  Specs = {"own", "again", "main", "bare", "high"}
  BlockOf <- MCBlockOf
  ConfigOf <- MCConfigOf
  NumberOf <- MCNumberOf
  Defaults = {"own", "main"}
  MainnetHash = "m"
  DefaultConfig = "c0"
  MaxSetupCrashes = 1
  MaxRuns = 3
  Length = 3
  Batch = 2
  MaxCopies = 2
  StorageKeys <- MCKeys
  MaxResult = 2
  Holders = {"p", "q"}
  Flush = 1
INVARIANT RestartComesUp
CHECK_DEADLOCK FALSE
