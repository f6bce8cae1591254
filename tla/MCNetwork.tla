------------------------------ MODULE MCNetwork ------------------------------
(* Instances of the modules of the peer-to-peer side of a node:               *)
(* synchronisation, block fetching, the serving of queries, sessions,         *)
(* propagation, the committee's own network, and the miner that               *)
(* synchronisation stops and starts.  The parts share no state; a behaviour   *)
(* is one of the part it starts with.                                         *)
EXTENDS Miner, CommitteeNet, Syncer, Fetcher, FastSync, Queries, Sessions, Propagation

CONSTANTS Parts
VARIABLE part

\* CommitteeNet: a is a default validator; b is nothing at first, then a proposer, then a validator; the
\* node itself is a proposer of term 0 and a validator of term 2.
MCValidatorsOf == [t \in 0 .. 2 |-> IF t = 2 THEN {"b", "self"} ELSE {}]
MCProposersOf == [t \in 0 .. 2 |-> CASE t = 0 -> {"self"} [] t = 1 -> {"b"} [] t = 2 -> {}]
MCDials == [n \in {"a", "b"} |-> IF n = "a" THEN 1 ELSE 2]
MCKindOf == [m \in {"m1", "m2"} |-> "block"]

\* Fetcher: two blocks on the genesis block, the second without transactions.
MCNumber == [h \in {"g", "b1", "b2"} |-> CASE h = "g" -> 0 [] h = "b1" -> 1 [] h = "b2" -> 2]
MCParent == [h \in {"g", "b1", "b2"} |-> IF h = "b2" THEN "b1" ELSE "g"]
MCBody == [h \in {"g", "b1", "b2"} |-> IF h = "b2" THEN "none" ELSE "txs"]
MCNotices == {<<"p", "b1", 1>>, <<"q", "b1", 1>>, <<"p", "b2", 1>>, <<"p", "b2", 2>>}
MCPushes == {<<"q", "b2">>}
MCBatches == {<<"b1">>, <<"b2">>, <<"b1", "b1">>}

\* FastSync: the second block has two transactions, the others one.
MCTxs == [n \in 1 .. Pivot |-> IF n = 2 THEN 2 ELSE 1]

\* Queries: a chain of four blocks and a branch of two that leaves it after the second.
MCHashes == (0 .. 4) \cup {103, 104}
MCNumberOf(h) == h % 100
MCParentOf(h) == IF h = 103 THEN 2 ELSE IF h = 0 THEN 0 ELSE h - 1

vars == <<part, minerVars, engineVars, netVars, syncerVars, fetcherVars, syncVars, queryVars, sessVars,
          propVars>>

\* The parts that are not looked at start in one state.
Still ==
    /\ part # "queries" => canonicalHead = 4
    /\ part # "sessions" => pm.role = "miner"

Init ==
    /\ part \in Parts
    /\ MinerInit /\ EngineInit /\ NetInit /\ SyncerInit
    /\ FetcherInit /\ FastInit /\ QueryInit /\ SessInit /\ PropInit
    /\ Still

Next ==
    \/ part = "miner" /\ MinerNext
       /\ UNCHANGED <<part, engineVars, netVars, syncerVars, fetcherVars, syncVars, queryVars, sessVars,
                      propVars>>
    \/ part = "engine" /\ EngineNext
       /\ UNCHANGED <<part, minerVars, netVars, syncerVars, fetcherVars, syncVars, queryVars, sessVars,
                      propVars>>
    \/ part = "committee" /\ NetNext
       /\ UNCHANGED <<part, minerVars, engineVars, syncerVars, fetcherVars, syncVars, queryVars, sessVars,
                      propVars>>
    \/ part = "syncer" /\ SyncerNext
       /\ UNCHANGED <<part, minerVars, engineVars, netVars, fetcherVars, syncVars, queryVars, sessVars,
                      propVars>>
    \/ part = "fetcher" /\ FetcherNext
       /\ UNCHANGED <<part, minerVars, engineVars, netVars, syncerVars, syncVars, queryVars, sessVars,
                      propVars>>
    \/ part = "fast" /\ FastNext
       /\ UNCHANGED <<part, minerVars, engineVars, netVars, syncerVars, fetcherVars, queryVars, sessVars,
                      propVars>>
    \/ part = "queries" /\ QueryNext
       /\ UNCHANGED <<part, minerVars, engineVars, netVars, syncerVars, fetcherVars, syncVars, sessVars,
                      propVars>>
    \/ part = "sessions" /\ SessNext
       /\ UNCHANGED <<part, minerVars, engineVars, netVars, syncerVars, fetcherVars, syncVars, queryVars,
                      propVars>>
    \/ part = "propagation" /\ PropNext
       /\ UNCHANGED <<part, minerVars, engineVars, netVars, syncerVars, fetcherVars, syncVars, queryVars,
                      sessVars>>

Spec == Init /\ [][Next]_vars

\* The fairness of each part, as its own module states it.
Fairness ==
    /\ \A t \in MinerCallers : WF_minerVars(part = "miner" /\ Start(t)) /\ WF_minerVars(part = "miner" /\ Stop(t))
    /\ WF_minerVars(part = "miner" /\ downloaderSync)
    /\ \A c \in SyncCalls : WF_minerVars(part = "miner" /\ SyncEnds(c)) /\ SF_minerVars(part = "miner" /\ PostDone(c))
    /\ \A t \in Callers : WF_engineVars(part = "engine" /\ stop(t)) /\ WF_engineVars(part = "engine" /\ commitNewWork(t))
    /\ WF_engineVars(part = "engine" /\ workerUpdate)
    /\ \A r \in 1 .. MaxRecords, k \in Kinds : WF_netVars(part = "committee" /\ r \in DOMAIN records /\ broadcastLoop(r, k))
    /\ \A c \in Calls : WF_syncerVars(part = "syncer" /\ SyncSessionStep(c)) /\ WF_syncerVars(part = "syncer" /\ HandlerStep(c))
    /\ WF_syncerVars(part = "syncer" /\ sendRequestLoop)
    /\ WF_syncVars(part = "fast" /\ SessionSteps) /\ WF_syncVars(part = "fast" /\ GoroutineSteps)
    /\ WF_queryVars(part = "queries" /\ (HeadersByHash \/ HeadersByNumber \/ Blocks \/ Bodies))
    /\ \A n \in Nodes : WF_sessVars(part = "sessions" /\ SessionStep(n)) /\ WF_sessVars(part = "sessions" /\ ~session[n].up /\ Fail(n))
    /\ WF_sessVars(part = "sessions" /\ DropRemove) /\ WF_sessVars(part = "sessions" /\ StopStep)
    /\ WF_propVars(part = "propagation" /\ PackDone)
    /\ \A p \in Linked : WF_propVars(part = "propagation" /\ ~link[p].loop /\ DisconnectLink(p))
FairSpec == Spec /\ Fairness

\* What each part keeps besides the invariants that have a name of their own here: the types, and what
\* the component's module says of its queues, records, stages, answers and sessions.
NetworkInv ==
    /\ part = "miner" => MinerTypeOK
    /\ part = "engine" => EngineTypeOK
    /\ part = "committee" => NetTypeOK /\ LiveRecordHasLoop
    /\ part = "syncer" => SyncerTypeOK /\ CounterCoversQueue
    /\ part = "fetcher" => FetcherTypeOK /\ OneStage /\ QueueAccounted /\ TimersArmed
    /\ part = "fast" => FastTypeOK /\ FastContiguous
    /\ part = "queries" => QueryTypeOK /\ AnswerIsOneBranch /\ BlocksInOrder
    /\ part = "sessions" => SessTypeOK /\ StoppedMeansNoPeers
    /\ part = "propagation" => PropTypeOK /\ KnownIsTrue

\* What a node has begun with its peers comes to its end: a miner held back by a synchronisation may
\* start again, the engine's lock is released, queued messages are sent, calls of Synchronise and fast
\* synchronisations end, queries are answered, Stop returns, and pending transactions are relayed.
NetworkProgress ==
    /\ StartAllowedAgain /\ LockReleased
    /\ QueuedIsSent
    /\ CallsReturn /\ FastEnds
    /\ Answered
    /\ StopReturns
    /\ PendingRelayed
==============================================================================
