# Verification of the CPChain node

TLA+ models of the CPChain node (`src/`), their model checking with TLC, and
proofs checked by TLAPS. The core is LBFT 2.0, the protocol by which a committee
of validators agrees on each block; around it are models of the other parts of
the node that have concurrency, failures or limits of their own: the DPoR engine,
the chain and its state, the protocol between peers, the services for users.

- [The system and its modules](#the-system-and-its-modules)
- [The consensus in detail](#the-consensus-in-detail)
- [The other components](#the-other-components)
- [Runs](#runs): what TLC checks, with which bounds and which fairness
- [Proofs](#proofs): what TLAPS proves, from which assumptions, along which argument
- [What is not modelled](#what-is-not-modelled)

`PROJECT.json` has, for every definition that models code, the lines it models,
and lists the hazards of the code with the properties that would notice them.

## The system and its modules

A CPChain node runs a *chain service* (`protocols/cpc`) inside a *node*
(`node`). The service holds the block chain and the transaction pool (`core`),
talks to peers, and runs the *DPoR engine* (`consensus/dpor`). By the engine's
rules a term has a committee of proposers, elected by reputation, and a fixed
committee of validators. A proposer's *miner* makes a block and sends it to the
validators, who run LBFT 2.0 on it; a validated block is broadcast to every
node. Users reach a node through RPC, filters and the `cpc` interface.

| Part | Source | Modules |
|---|---|---|
| LBFT 2.0, message handler, sign-once record, impeachment | `consensus/dpor/backend/lbft2.go`, `validator.go`, `dpor_helper.go`, `dpor_util.go`, `dpor_service.go` | `Voting`, `LBFT2`, `LBFT2Sync` |
| Signature and block caches of a validator | `backend/lbft_helper.go`, `handler_helper.go` | `SignatureCache` |
| Connections of the committee | `backend/remote_*.go`, `dialer.go`, `broadcast.go`, `handler.go` | `CommitteeNet` |
| Engine: making and checking blocks; campaigns | `consensus/dpor/consensus.go`, `dpor.go`, `admission` | `Engine` |
| Snapshots, terms; reputation and election | `snapshot.go`; `rpt`, `election` | `Snapshots`, `Election` |
| Block chain; genesis, export, import, paged reads | `core/blockchain.go`, `headerchain.go`; `genesis.go`, `cmd/cpchain` | `BlockChain`, `ChainFiles` |
| Transactions and blocks as data; transaction pool | `types`, `core/tx_list.go`, `tx_cacher.go`; `core/tx_pool.go` | `ChainTypes`, `TxPool` |
| State of a block | `core/state` | `StateDB`, implementing `SnapshotState` |
| State transition, call frames, interpreter | `core/state_transition.go`, `core/vm` | `EVM` |
| Full and fast synchronisation | `protocols/cpc/syncer` | `Syncer`, `FastSync` |
| Peers: sessions, queries, propagation, fetching | `protocols/cpc`, `fetcher` | `Sessions`, `Queries`, `Propagation`, `Fetcher` |
| Miner | `miner` | `Miner` |
| Log index and search; event filters | `core/chain_indexer.go`, `core/bloombits`; `filters` | `LogSearch`, `Filters` |
| RPC server and client | `api/rpc` | `Rpc` |
| Key store | `accounts/keystore` | `Keystore` |
| Node and its roles | `node`, `protocols/cpc/backend.go` | `Node` |
| Interface for users, price oracle | `internal/cpcapi`, `gasprice`, `private` | `CpcApi` |
| Contract ABI, bound contracts | `accounts/abi` | `ABI` |
| Tracing | `protocols/cpc/api_tracer.go`, `tracers`, `core/vm/logger.go` | `Tracing` |

Modules named `MC...` are instances for TLC, modules named `...Proofs` hold
proofs. A module states the actions of its component under the names of the
source's functions where that is possible, its invariants, and where a scheduler
step may be relied on, its fairness. Definitions marked as faulty variants are
mistakes that could be made in the code of the definition they stand beside:
each property is confirmed to notice one.

## The consensus in detail

For each block height one proposer makes a block and sends it to the validators
(Preprepare). A validator that accepts it signs for the Prepare phase; with 2f+1
prepare signatures it signs for the Commit phase; with 2f+1 commit signatures it
broadcasts the block as validated (Validate), and whoever receives a validated
block inserts it and repeats the message. If no block is inserted within a
timeout each validator makes the same empty *impeach block* by itself and the
committee runs the same phases on it with f+1 signatures. After a reboot a
validator does not know how long the others have been waiting; it uses two
*failback* impeach blocks whose timestamps are rounded to common points in time
(samples). A *sign-once record* in the database keeps a validator from signing
two proposed blocks of one height; impeachment signs regardless of it and
overwrites it. Blocks also arrive without consensus messages, by propagation and
by synchronisation; the state machine notices at its next message.

- `Voting` is the abstract specification: validators sign blocks and insert
  blocks that have enough signatures. Its state is `chain` and `sigs` only. A
  validator signs a proposed block only if it has signed nothing else at that
  height; a commit signature needs a prepare certificate.
- `LBFT2` is the state machine with the parts of the node it drives. One action
  per message handler, each with the tail of `FSM` (catching up with the chain,
  arming the timer), because a handler runs under `stateLock` from start to end.
  It implements `Voting` with the identity mapping on `chain` and `sigs`.
- `LBFT2Sync` is `LBFT2` with the timing the protocol parameters are chosen for,
  and with fairness. It is used for liveness and for what only timing ensures.

### LBFT2: state

| Variable | Code |
|---|---|
| `state`, `number` | `LBFT2.state`, `LBFT2.number` |
| `blockCache`, `validated` | `LBFT2.blockCache`, `LBFT2.validateMsgMap` (in memory) |
| `failback`, `impeach` | `LBFT2.failbackNumber`; for each impeach block, whether its timer is armed or its block has been handled (`impeachmentRecord` lets each through once) |
| `chain`, `signed` | the local chain and `signedBlocksRecord`, both kept over a restart |
| `proposed`, `sigs`, `validates` | the network: proposals, signatures and validate messages ever sent |
| `restarts` | counter for the bound only |

A block is its hash; `Number`, `Parent` and, for impeach blocks, `Tick` (which
timestamp) are constants. A header message carries all signatures its sender
knows, and a receiver caches what it gets. So a validator may know any set of
the signatures made so far, and "the certificate is complete" is an action that
becomes possible once enough signatures exist and happens then, later or never.
This is why the caches are not variables here (they are in `SignatureCache`). It
makes the network lossy, reordering and duplicating at the same time, and it
covers the retries of the code: `procUnknownAncestorsLoop` and the rebroadcasts
only deliver again.

### LBFT2: actions

| Action | Code |
|---|---|
| `HandlePreprepareMsg`, `CachePreprepareMsg` | `handlePreprepareMsg`, in time and valid; late or with unknown parent |
| `HandlePrepareMsg`, `HandleCommitMsg`, `HandleValidateMsg` | the handlers of these names, when the message has an effect of its own |
| `HandleImpeachPreprepareMsg` | a timer fires, its block passes `PendingImpeachBlockBroadcastLoop` and reaches `handleImpeachPreprepareMsg` or is dropped |
| `HandleImpeachPrepareMsg`, `HandleImpeachCommitMsg`, `HandleImpeachValidateMsg` | the handlers of these names |
| `Absorb` | any message that does nothing but the tail of `FSM` |
| `Propose` | a proposer sends a block; it may propose several for one height |
| `SyncFrom` | a block of another chain is inserted behind the state machine's back |
| `Restart` | memory is lost, `NewLBFT2` arms the failback timers |

Behaviour of the code that shaped the model, and that a reader may not expect:
a validator that refuses to sign still moves to Prepare; a message ahead of the
chain is processed and moves `number` forward; a validate handler given a block
at or below the head reports success without inserting; a state with no case for
a message drops it silently (`Handler` lists the cases); the database copy of a
cached block is overwritten by the signatures stored under the same key, so it
never helps.

Validators follow the code. They may be silent (`Live` is the set that is up),
arbitrarily slow, or restart; they do not forge signatures. A committee does not
change in `LBFT2`: validators are fixed by the genesis block.

## The other components

Each row names what the state of a module stands for and what its actions are;
the properties are explained with the runs. Where a module has several
independent halves, they are separated by a semicolon.

| Module | State and steps | Abstractions |
|---|---|---|
| `SignatureCache` | cached signers of each block and phase, recent blocks, the database under both; taking in signatures, adding and removing blocks with eviction, restart | a hash is a model value; the encoding of `signaturesOfBlock` stores nothing, as its fields are not exported |
| `CommitteeNet` | connections, the goroutine of each peer, the dialer's two caches, remote records as objects with queues and loops, broadcasts under way; joining, leaving, dialling, a broadcast's waits and sends | handshakes are one step; a remote proposer has no queues; the caches (200 signers) hold all remotes |
| `Engine` | clocks, heads and snapshots of the validators, the block being made, verdicts, impeach timers; a campaign with its proof-of-work goroutines, abort, claim, and the deposit | agreement is `LBFT2`'s part; the contracts are external |
| `Snapshots` | headers in the database, snapshots in memory and on disk, the role of the node, the height it has heard of; verifying and inserting headers singly and in batches, sealing, restart | a committee is how it was chosen |
| `Election` | history, coefficients in the contract and in the collectors, caches, the calculation under way; scaled reputations, targets, groups and the mixed committee | balances are small numbers |
| `BlockChain` | database, memory, the writes left in the step under way; inserting a batch, `SetHead`, unknown ancestors, stop, crash between any two writes, start | header and body are written together; the engine waits instead of returning `ErrFutureBlock`; batches are shorter than `triesInMemory`, so the trie garbage collection has nothing to do |
| `ChainFiles` | the keys `genesis.go` writes and the writes left; export and import through a file; pages of storage, differences of states, preimages | a put is atomic, puts keep their order |
| `ChainTypes` | a nonce list with heap, cache and caps; the miner's order; a transaction with cached hash and sender; the recovery threads; shared and copied headers | heaps are the arrays of `container/heap`; encodings are what they drop or keep |
| `TxPool` | the pool, its journal file, the chain's head; adding, head changes, price changes, eviction, rotation, reload | `tx_list` as sets by nonce, which `ChainTypes` justifies |
| `StateDB` | objects, journal, dirty counts, revisions; the changes, snapshot, revert, copy, `Finalise`, `Commit` | tries are functions; implements `SnapshotState`, a stack of worlds |
| `EVM` | the world, call frames, gas of the block; stack height, memory, gas of the interpreter | a frame's code is any sequence of the instructions that touch world or gas |
| `Syncer`, `FastSync` | calls of `Synchronise`, the session, the shared queue and its counter, request loop, deliveries, goroutines left over from abandoned sessions; in `FastSync` also state nodes, pivot, crash, and answers that a later session finds in the channels | peers are honest; a block is its number |
| `Sessions` | the session of each peer, the peer set, broadcast loops, the wait group, removals asked for elsewhere, `Stop` | messages are left to the next three |
| `Queries` | a query and its answer in the making, read step by step from a chain that is reorganised | hashes are numbers |
| `Propagation` | queues, known sets and loops of a peer, `txsyncLoop`, the pool and chain they are fed from, reconnection | a block goes to every connected peer that does not know it, as in the code |
| `Fetcher` | announced, fetching, fetched, completing and queued blocks with their counters and timers, import goroutines | "old enough or not yet" for times |
| `Miner` | the atomic flags and the calls of `Start`, `Stop`, `downloaderSync`; the engine's lock, loops and channels, and the worker | sealing is one step |
| `LogSearch` | chain, indexer, index database, the section processed without the lock, a search; a matcher session with its sub-matchers, schedulers, distributor and retrievers | the only child indexer of the program |
| `Filters` | the event loop, installed subscriptions, polled filters and their goroutines, the timeout loop | a log is a model value with its bloom |
| `Rpc` | served connections, requests in execution, subscriptions, `Stop`; the client's dispatch loop, reader, reconnection and `Close` | messages without JSON |
| `Keystore` | key files, scans, watcher, cache, wallets and manager; unlocking, expiry, signing and rewriting of one key | encryption is external |
| `Node` | services, endpoints, data directory and waiters of a node whose start may fail at each step; engine and miner flags while calls overlap | the peer-to-peer server is external |
| `CpcApi` | requests that send transactions, the address lock, pool and rate limiter; gas estimation; the price oracle; answers made from several reads | four groups that share no variable |
| `ABI` | packing and unpacking; struct fields; topics; bound contracts on the simulated backend | words of two digits instead of 32 bytes |
| `Tracing` | the goroutines of `TraceChain` with reference counts of states; tracing the transactions of a block; the script tracer and the struct logger | a state is the transactions applied to it |

## Runs

| Run | Instance | Shows |
|---|---|---|
| `voting` | `Voting`: two proposed blocks and an impeach block of one height, four validators | `VotingInv`, the invariant of the proof, and `NormalAgreement`: no two proposed blocks of a height are inserted |
| `restart` | `LBFT2`: two proposals, a timeout and a failback impeach block, two validators up, one restart at any point | `RecordFaithful`: the persisted record still covers what was signed; `ImplementsVoting`; `IdleHasTimer`: an idle validator has a timer for the height after its head |
| `two_heights` | `LBFT2`: a block, an impeachment of it, an impeach block on the next height, synchronisation, three up | `CertifiedChains`: nothing is inserted without certificate or out of place; `StateJustified`: state and number stand on signatures of that height; `NumberMonotone` |
| `sync_decides` | `LBFT2Sync`: one proposal and its impeachment, three up, with timing and fairness | `OneBlockPerHeight`, and `EveryHeightDecided` whatever the proposer does |
| `dpor` | `MCDpor`, six parts | the consensus around LBFT 2.0 on one node |
| `chain` | `MCChain`, thirteen parts | what a node stores and executes |
| `network` | `MCNetwork`, nine parts | what a node does with its peers, and the miner |
| `network_live` | the same without the fetcher, smaller | what must happen in the end there |
| `rpc` | `MCRpc`, five parts | serving users: connections, log searches, filters |
| `node` | `MCNode`, fifteen parts | key store, node life, user interface, ABI, tracing |
| `doc_one_block`, `doc_restart` | see [Disagreements](#disagreements) | TLC finds the property violated |

A part of an `MC` module is one component, or one half of one. Parts share no
variable, and a behaviour of the module is a behaviour of the part it starts
with. The aggregate invariants `DporInv`, `ChainInv`, `NetworkInv`, `RpcInv` and
`NodeInv` say of each part what follows; the properties that say most are checked
under their own names. Every part's type invariant is a conjunct as well.

### What is checked of each part

| Part | Safety | Liveness |
|---|---|---|
| dpor: votes | `CountIsOfVotes`: counted signatures were made by the term's validators for that block and phase, and none is forgotten while the signed blocks fit the cache; `FoundBlocksWereAdded`: bytes that signatures left under a hash are never taken for a block | |
| dpor: rpt, election | `OneRule`: all candidates are weighed with the same coefficients; `RanksFair`; `NearestPicked`; `CommitteeMixed` | |
| dpor: snapshots | `CommitteeOfAncestors`: every snapshot names the committee that its own ancestors determine, whether the node was a miner, behind, or restarted; `CommitteeKnown`: no term is left out | |
| dpor: make | `HonestAccepted`: what the proposer in turn seals passes every check of every validator it reaches in time; `OneImpeachBlock`: impeach blocks of a height are the same; `BlocksSpaced` | |
| dpor: admit | `ClaimsProven`, `RunningHasWaiter`, `FundedOnce` | |
| chain: chain | `HeadHasState`, `CanonicalIsAncestry`, `RestartKeepsFinished`: a start never falls behind the head of the last finished insertion; `HeightsKeepTheirBlock` | |
| chain: pool | `PendingExecutable`: what the miner is offered can be executed in the head's state; `PoolAccounted`, `RemoteBound`, `RestartKeepsLocals` | |
| chain: state | `ImplementsSnapshots`: `StateDB` refines `SnapshotState`; `UncountedIsWritten`, `CopySeesTheSame` | |
| chain: execution, interpreter | `GasNotMade`, `MoneyNotMade`, `StaticIsPure`, `FailureLeavesNothing`; `ChecksCoverAccesses`, `PoolNotShared`, `MemoryPaidBySize` | |
| chain: list, order, sign, cacher, block | `IndexIsHeapOfItems`, `CacheIsSortedItems`, `CapsCoverItems`; `BestNextFirst`, `NothingLeftBehind`; `OnlyItsChain`, `CachesFresh`; `RecoveredOnce`; `PhasesApart`, `HashStays`, `TimesKept` | |
| chain: genesis, copy, reads | `CanonicalIsComplete`, `GenesisAsAsked`; `ExportExact`, `ImportedAll`, `CliReachesTip`; `PagesExact`, `IntervalsCompose`, `PreimagesImported` | |
| network: miner, engine | `LoopsBalanced`: the worker loops that will be left are one while the engine mines, else none; `PostedOnce`: until a restart, one block of each number is announced | `ResumesAfterSync`, `StartAllowedAgain`, `LockReleased` |
| network: committee | `SignerStaysHeard`: a connected signer stays in the caches whoever else leaves; `LiveRecordHasLoop` | `QueuedIsSent` |
| network: syncer, fast | `SuccessMeansCaughtUp`, `CounterCoversQueue`; `HeadComplete`: the head of fast sync has its block and its whole state, also when a session reads an answer to the one before; `FastContiguous` | `CallsReturn`, `FastEnds` |
| network: fetcher | `OneStage`, `QueueAccounted`, `TimersArmed` | |
| network: queries | `AnswerIsOneBranch`, `BlocksInOrder` | `Answered` |
| network: sessions | `PeersHaveSessions`: a registered peer has the session that will remove it; `StoppedMeansNoPeers` | `StopReturns` |
| network: propagation | `KnownIsTrue`: what is marked as known to a peer it has or will be sent | `PendingRelayed` |
| rpc: server, client | `EndAnswersAll`: requests read before a message that cannot be parsed are answered before the connection ends; `NotifiedWhileSubscribed`, `StopClosesAll`; `NobodyWaitsForNothing` | `ConnectionsEnd`; `BrokenCallsReturn`, `BrokenSubsEnd` |
| rpc: index, matcher | `SearchExact`: a search returns each matching block once and in order, whatever the index did; `IndexIsCanonical`; `OnePlace`, `RequestsAssigned`, `ResultsExact` | `IndexCatchesUp`, `SearchEnds` |
| rpc: filters | `PolledOnce`, `BloomNeverMisses` | `UnsubscribeReturns` |
| node: files, unlock | `CacheIsDirectory`, `ManagerFollows`; `SignsWithLiveKey`, `KeyNeverLost` | `ForeverStays`, `TimedIsLocked` |
| node: node, role | `StoppedServesNothing`, `DatabaseLocked`, `WaitersReturn`, `IdentityKept`; `RolesExclusive`: a validator never becomes a proposer; `CampaignTakesEffect`, `StopTakesEffect` | |
| node: send, est, price, read | `AutoNoncesDistinct`, `HeldByRunning`, `PrivateStored`, `RateBound`; `EstimateWasRun`, `EstimateLeast`; `PriceOfItsHead`, `ResultsFit`; `MinedBeatsPending`, `InfoNotAhead`, `ListComplete` | |
| node: codec, fields, topics, bound | `PackedUnpacks`, `UnpackTotal`; `FieldsKeepTheirArgument`; `TopicsParsed`; `EstimateExact`, `PendingIsReplay`, `TakenAreKept`, `NoncesConsecutive`, `DeployedHasCode` | `MinedIsNoticed` |
| node: chain, block, script | `StreamInOrder`, `StatesHeld`, `StatesReleased`; `TracedAsExecuted`; `FaultShowsItsStep`, `EntriesAsOfTheirStep` | `TracingEnds` |

The definition of each property has a comment that states it in full. Several
have exceptions that were forced by what the code does, and the exception is
stated in the property: an insertion that overlaps a `SetHead` may leave the head
without its state (`BlockChain`); a session after an abandoned one may report
success early (`Syncer`); an answer left over from the session before is filed
under whichever state node is wanted, since its hash is not looked at, so that a
node of the state may be missing (`FastSync`, history variable `misfiled`; the
root, which is checked for, is there all the same); a node that took the
checkpoint at `MaxInitBlockNumber` without running elections keeps, for the one
term after it, the committee elected where other nodes have the default one
(`Snapshots`, `Unreplaced`); a removal that looked up an earlier connection of a
node takes out the newer one (`Sessions`, history variable `crossed`); an
abandoned proof of work or a deposit given up after 30 seconds may come through
later (`Engine`); an estimate is exact only if twice the gas limit fits the word,
because the midpoint is `(hi + lo) / 2` (`CpcApi`); a client's connection that is
replaced before its read loop has ended leaves calls without an answer (`Rpc`);
`Stop` before the goroutines of a `Start` have run is undone by them (`Node`).

### Bounds

*LBFT 2.0.* Four validators and f = 1 is the smallest committee with a fault. Two
proposed blocks are enough to disagree about; one impeach block for a head and
timestamp is all the code can make. Two heights are enough for messages of one
height to meet the state of another: the state machine compares numbers and
parents, and keeps nothing of earlier heights. One restart puts every point of a
height before and after a loss of memory. `Live` is smaller than the committee
where the state space asks for it; silent validators are a legal behaviour, and
the properties range over all. `two_heights` is cut by the constraint
`SecondHeightByImpeachment`: it follows the timer of the second height only in
behaviours in which nothing was proposed at the first. Symmetry permutes
validators that are up, in runs without liveness properties only.

*The other parts.* Two of each thing that can meet another: two peers, callers,
connections, users, remote validators, sync calls; one of a thing that only has
to exist. Queues, caches and limits have size 1 or 2, so that they overflow and
evict. Heights, sections and ranges are 2 to 5 blocks, enough for a block below,
at and above each boundary (term, pivot, section, checkpoint). Crashes, restarts,
reorganisations and reconnections happen once or twice. Machine words are narrow
(`Width`, `Word`), so that wrapping is reached: 5 bits for estimates, 16 for the
skips of a query. Every bound is a constant of its module and gets its value in
the configuration.

*Snapshots.* Two branches of a chain of eight blocks with terms of two, so that
the last initial term, the boundary term after `MaxInitBlockNumber` and an elected
term are all reached, on a node that hears of a height beyond its own.

*Fast synchronisation.* Two sessions, one crash, a pivot of two blocks, and at most
one answer that the second session finds in a channel (`MaxLeft`). A channel holds
one answer; a further one would block its sender, and takes a third session.
`network_live` runs two sessions without left-over answers and crashes: `FastEnds` is
checked for those only.

Deadlock checking is on for the runs of `Voting`, `LBFT2` and `LBFT2Sync`: a
validator always has a message to absorb. The other parts end when their bounded
calls, crashes or blocks are used up, so there it is off, and what must not block
is stated as a liveness property instead.

### Fairness

`FairSyncSpec` assumes that armed timers fire (`time.AfterFunc`), and that a
message which stays deliverable and would change its receiver is delivered:
the sender's broadcast loop and the receiver's handler goroutine are always
runnable, and the validators of an instance are up and connected. Nothing is
assumed of proposers, of the delivery of their blocks, or of synchronisation,
so a decision never rests on them. `Expire` is the timing assumption: the timers
of a height and tick expire together, after the messages caused by earlier ones
have been delivered. `Period`, `ImpeachTimeout` and the sample length are seconds
to minutes, and a proposed block is accepted in a fraction of the timeout only
(`BlockDelay`). Without the assumption `doc_one_block` applies and decisions
cannot be guaranteed.

In the other modules weak fairness is assumed of the steps a goroutine of the
node takes by itself (a runnable goroutine is scheduled), of timers it has set,
and of the failing of a connection that is down. Nothing is assumed of peers,
users, clients or the chain's growth. Strong fairness is used once: a call of
`Synchronise` that posts its end event to a channel other posters use too
(`PostDone` in `Miner`), as Go serves senders of a channel in their order.

### Disagreements

Two runs show a statement of the repository that the code does not keep; TLC
finds the violating behaviour.

| Run | Statement | Behaviour |
|---|---|---|
| `doc_one_block` | `docs/consensus/consensus.rst:523`: a proposed and an impeach block cannot both be validated at a height | with messages delayed beyond the timeout they can; `sync_decides` shows the timing under which they cannot |
| `doc_restart` | `core/blockchain.go:542-543`: the chain is reset to its genesis state when the head's state is missing (`loadLastState`, l.354) | `Reset` begins with `SetHead(0)`, which reads the current block before one was stored (l.414) and panics; the blocks are deleted by then, so the next start panics too. A crash between the commits of the public and the private state is enough |

Differences met while modelling that have no run of their own: `consensus.rst:111`
has a validator process validate messages during impeachment, but
`ImpeachPrepareHandler` and `ImpeachCommitHandler` have no case for them
(`lbft2.go:339`); `docs/implementation/implementation.rst:765-766` has the second
failback block proposed when the first gets no certificate, but a validator in
ImpeachPrepare drops it; the comments at `lbft2.go:866` and `888` have
`validateMsgMap` hold validated blocks only, but `handleImpeachValidateMsg` keeps
the hash after a failed insertion (l.909); `consensus.rst:66` has a validator
insert the block when it broadcasts Validate, but
`onceCommitCertificateSatisfied` waits for another validator's message; the
comment at `validator.go:208` says messages at the current height are dropped, but
the condition keeps them.

## Proofs

The proofs hold for every value of the constants that satisfies the named
assumptions, so for every number of validators, peers, callers, requests and
restarts. Counters such as `MaxRestarts` remain in the model, and may be any
natural number. A part of an `MC` module starts and steps as its component does,
so a theorem about the component is about the runs of that part too.

### Consensus: `VotingProofs`, `LBFT2Proofs`, `LBFT2FsmProofs`

Assumptions (`CommitteeAssumption`, `BlockAssumption`): the committee is finite
and has 3f+1 members; proposed and impeach blocks are different; heights are
positive. Nothing is assumed of how blocks link, of timing, or of who is up.

- `VotingInvariant`: `Voting` preserves `VotingInv`. Agreement is not inductive:
  a step could only be shown to keep it knowing that each inserted block has a
  certificate (`CertifiedChains`) and that nobody has signed two proposed blocks
  of a height (`OneVote`).
- `VotingAgreement`: two certificates of 2f+1 out of 3f+1 share a validator
  (`QuorumsIntersect`), which has signed both blocks; by `OneVote` they are one.
- `Invariant`: `LBFT2` preserves `IInv == TypeOK /\ RecordFaithful /\ V!VotingInv`.
  `RecordFaithful` connects code and rule. The code reads one record per height,
  which impeachment overwrites; the rule speaks of every signature made. The
  record is empty only if nothing was signed, and names a proposed block only if
  nothing else was signed. Since an impeach block in the record blocks every later
  proposed block, overwriting is harmless. The proof summarises each action by
  `Effect` (one block signed under the record, one certified block inserted, or
  neither) and then argues about `Effect` only. `TypeCorrect` and `RecordCorrect`
  follow.
- `Refinement`: every step of `LBFT2` is a step of `Voting` or a stutter; through
  it `ChainsCertified` and `Agreement` hold of the code's state machine.
- `StatesJustified`, `NumbersMonotone`, `IdleTimers`: the invariant `MachineInv`
  is `IInv` with `FsmInv` (every state stands on the signatures that lead to it,
  and an armed timer is of a block on the chain's tip) and `Level` (an idle
  machine is not ahead of its chain, and neither is its failback height). It is
  needed because the state machine may move ahead of the chain on a message and
  the chain ahead of the state machine by synchronisation.
  `IdleTimers` has a hypothesis on the constants, `ImpeachBlocksExist`: for every
  block there is the impeach block the code would create on it. In `restart`, which
  checks `IdleHasTimer`, the constants satisfy it; instances that leave some
  impeach blocks out do not, and there a validator may have no timer because its
  block is not in the instance.

### Engine and caches: `EngineProofs`

- `LoopsStayBalanced`, `EnginePostsOnce`, `EngineLockExcludes` (`EngineAssumption`):
  the invariant counts the wait loops started so far by a number k, of which every
  other fact is stated: the worker has no more loops than that, one of them is
  for the current quit channel, and until the second start the numbers announced
  increase. Balance is a statement about loops, tokens and the flag together, which
  no single step changes by one.
- `CountsAreOfVotes`, `CachesStayBounded`, `FoundBlocksAreAdded` (`CacheAssumption`:
  finite sets, a cache of at least one): `CacheInv` is types, the bound of each
  cache, and for each phase that what is remembered was received, and is all that
  was received while the signed blocks fit. The bound is a cardinality argument
  over the eviction; the last is an action property.

### Peers: `SessionsProofs`, `CommitteeNetProofs`

- `RegisteredPeersServed`, `NoPeersAfterStop`, `SessionsCounted`
  (`SessionAssumption`: finitely many nodes): `SessInv` follows one node through
  its session. What the peer set, the broadcast loops and the consensus protocol
  hold of it is determined by where its goroutine is, except that a removal asked
  for elsewhere may have come first; the wait group counts the sessions inside.
- `SignersStayHeard`, `LiveRecordsHaveLoops` (`QueueAssumption`, `NoIdAssumption`):
  `CommitteeInv` says what the dialer's caches and the records owe to the loop of a
  peer. A signer in its loop is in one of the caches under its id; a cached record
  is the node's own and has a loop if it is of the connection that is open now.
  Records outlive connections and loops share them, so the facts are about record
  objects, not about nodes.

### Node and user interface: `NodeProofs`, `CpcApiProofs`

- `RolesStayExclusive`, `CampaignsTakeEffect`, `StopsTakeEffect`: `RoleInv` adds to
  the types what each call under way has already set, because the three flags are
  written by different goroutines and agree only when all are through.
- `NodeLife`, `IdentityIsKept` (`NodeAssumption`): `LifeInv` ties server, services,
  database and directory lock together over starts that fail at any step; the
  identity is an action property.
- `NoncesStayDistinct`, `MutexesHeldByRunning`, `PrivatePayloadsStored`,
  `RateIsBounded` (`SendAssumption`): `SendInv` says of each request what it holds
  and what it has read, and of each mutex that its holder is a request that runs.
  Distinctness needs that a nonce read under the mutex is still the pool's next
  when it is used, while blocks and other requests change the pool.
- `EstimatesWereRun`, `EstimatesAreLeast` (`EstimateAssumption`: a word holds the
  base gas of a transaction, every need is at least that much, and the facts about powers
  of two the prover has no theory for): in `EstInv` the upper end of the bracket,
  once moved, was run (`UpperRan`); undisturbed, the need is above the lower end
  and not above the upper one, unless nothing suffices (`Bracketed`). The midpoint
  is computed modulo the word: that it does not wrap is proved from the limit
  (`BoundsAdd`), that it lies strictly inside the bracket from integer division
  (`Between`).
- `MinedNotPending`, `ListsComplete`, `InfosNotAhead` (`ReadAssumption`: terms and
  views have at least one block): `ReadInv` records which reads of a request are
  behind it and at which height they were made. For `InfosNotAhead` the term is
  that of a first height, the view of a later one and the number of one later
  still; that term and view together never decrease with the height rests on
  lemmas about division that are proved once (`Division`, `DivisionUnique`,
  `DivisionMonotone`, `TermAndView`).

### What is only model-checked

- All liveness (`EveryHeightDecided`, `ResumesAfterSync`, the three `...Progress`
  properties): fairness is outside the prover's reach.
- `OneBlockPerHeight` under timing: the timing assumption is stated with `ENABLED`.
- `PendingExecutable`, `CommitteeMixed`, the properties of the ABI codec and of the
  lists and heaps of `ChainTypes`: they are about what recursive definitions
  compute, which needs induction over data.
- `GasNotMade`, `MoneyNotMade`, `PriceOfItsHead`: sums over frames or accounts and
  sorted sequences, the same.
- `HeadHasState`, `RestartKeepsFinished`, `HeightsKeepTheirBlock`, `ImplementsSnapshots`,
  `CommitteeOfAncestors`, `HonestAccepted`, `SuccessMeansCaughtUp`, `HeadComplete`,
  `NobodyWaitsForNothing`, `SearchExact` and the remaining conjuncts of the aggregate
  invariants: no inductive invariant has been worked out for them. Those of
  `BlockChain` range over sequences of pending database writes and those of
  `StateDB` over the journal, so they would meet induction over data as well.

## What is not modelled

- Real time (how long `verifyBasic` sleeps with the lock held), cryptography, RLP
  and JSON encodings, metrics, logging.
- What arithmetic instructions and precompiled contracts compute.
- The Solidity contracts: what a contract answers is an input of the models.
- LBFT 1.0 (`lbft.go`): `NewHandler` always selects `LBFT2Mode`.
- The peer-to-peer server, LevelDB and IPFS: libraries; a put is atomic.
- Reads of the user interface that forward one call, the command line's flags and
  prompts, the generator of bindings.
- Peers are honest in `Syncer` and `FastSync`; the bodies and states a peer could
  make up are not followed.
- `PROJECT.json` lists the components with what is left out of each.
