-------------------------------- MODULE Miner --------------------------------
(***************************************************************************)
(* Miner.Start and Miner.Stop, called by the user and by downloaderSync     *)
(* while calls of Synchronise post their start and end events.  The engine  *)
(* is its flag here; the second half of the module is what is behind it.    *)
(***************************************************************************)
EXTENDS Integers, Sequences, FiniteSets

CONSTANTS
    SyncCalls,      \* calls of Synchronise that post events
    MaxUserCalls    \* bound on the user's calls of Start and Stop

MinerCallers == {"user", "sync"}

VARIABLES
    canStart, shouldStart, isMining,    \* atomic flags of Miner
    engineOn,         \* engine.mining
    minerPc,             \* where each caller is
    post,           \* post[c]: what a call of Synchronise posts next
    userCalls

minerVars == <<canStart, shouldStart, isMining, engineOn, minerPc, post, userCalls>>

MinerInit ==
    /\ canStart = 1 /\ shouldStart = 0 /\ isMining = 0 /\ engineOn = 0
    /\ minerPc = [t \in MinerCallers |-> "idle"]
    /\ post = [c \in SyncCalls |-> "start"]
    /\ userCalls = 0

Goto(t, to) == minerPc' = [minerPc EXCEPT ![t] = to]

SetMining == isMining' = 1

\* Miner.Start: shouldStart is set whatever canStart says.
Start(t) ==
    /\ \/ /\ minerPc[t] = "start" /\ shouldStart' = 1 /\ Goto(t, "canStart")
          /\ UNCHANGED <<isMining, engineOn>>
       \/ /\ minerPc[t] = "canStart"
          /\ Goto(t, IF canStart = 0 THEN "started" ELSE "setMining")
          /\ UNCHANGED <<shouldStart, isMining, engineOn>>
       \/ /\ minerPc[t] = "setMining" /\ SetMining /\ Goto(t, "engineStart")
          /\ UNCHANGED <<shouldStart, engineOn>>
       \/ /\ minerPc[t] = "engineStart" /\ engineOn' = 1 /\ Goto(t, "started")
          /\ UNCHANGED <<shouldStart, isMining>>
    /\ UNCHANGED <<canStart, post, userCalls>>

Stop(t) ==
    /\ \/ /\ minerPc[t] = "stop" /\ engineOn' = 0 /\ Goto(t, "notMining")
          /\ UNCHANGED <<shouldStart, isMining>>
       \/ /\ minerPc[t] = "notMining" /\ isMining' = 0 /\ Goto(t, "notShould")
          /\ UNCHANGED <<shouldStart, engineOn>>
       \/ /\ minerPc[t] = "notShould" /\ shouldStart' = 0 /\ Goto(t, "stopped")
          /\ UNCHANGED <<isMining, engineOn>>
    /\ UNCHANGED <<canStart, post, userCalls>>

User ==
    /\ \/ /\ minerPc["user"] = "idle" /\ userCalls < MaxUserCalls
          /\ userCalls' = userCalls + 1
          /\ \E op \in {"start", "stop"} : Goto("user", op)
       \/ /\ minerPc["user"] \in {"started", "stopped"} /\ Goto("user", "idle")
          /\ UNCHANGED userCalls
    /\ UNCHANGED <<canStart, shouldStart, isMining, engineOn, post>>

\* Synchronise posts a start event, runs, and posts a done or failed event.  A
\* post is handed over when downloaderSync takes it; once that loop has ended
\* nobody is subscribed and a post returns at once.
PostStart(c) ==
    /\ post[c] = "start" /\ minerPc["sync"] \in {"idle", "ended"}
    /\ post' = [post EXCEPT ![c] = "running"]
    /\ IF minerPc["sync"] = "idle"
       THEN canStart' = 0 /\ Goto("sync", "isMining")
       ELSE UNCHANGED <<canStart, minerPc>>
    /\ UNCHANGED <<shouldStart, isMining, engineOn, userCalls>>

SyncEnds(c) ==
    /\ post[c] = "running"
    /\ post' = [post EXCEPT ![c] = "done"]
    /\ UNCHANGED <<canStart, shouldStart, isMining, engineOn, minerPc, userCalls>>

PostDone(c) ==
    /\ post[c] = "done" /\ minerPc["sync"] \in {"idle", "ended"}
    /\ post' = [post EXCEPT ![c] = "posted"]
    /\ IF minerPc["sync"] = "idle"
       THEN Goto("sync", IF shouldStart = 1 THEN "allowResume" ELSE "allow")
       ELSE UNCHANGED minerPc
    /\ UNCHANGED <<canStart, shouldStart, isMining, engineOn, userCalls>>

AllowStart == canStart' = 1

\* Faulty variant: what was to be remembered is set before Stop, which clears it.
ForgetMining == UNCHANGED shouldStart
RememberMining == shouldStart' = 1

\* The rest of downloaderSync's two cases: after a start event, stop mining and
\* remember it; after the first end event, allow starting, resume, and end.
downloaderSync ==
    /\ \/ /\ minerPc["sync"] = "isMining"
          /\ Goto("sync", IF isMining = 1 THEN "stop" ELSE "idle")
          /\ UNCHANGED <<canStart, shouldStart>>
       \/ /\ minerPc["sync"] = "stopped"
          /\ RememberMining /\ Goto("sync", "idle")
          /\ UNCHANGED canStart
       \/ /\ minerPc["sync"] \in {"allowResume", "allow"}
          /\ AllowStart
          /\ Goto("sync", IF minerPc["sync"] = "allow" THEN "clear" ELSE "clearResume")
          /\ UNCHANGED shouldStart
       \/ /\ minerPc["sync"] \in {"clearResume", "clear"}
          /\ shouldStart' = 0
          /\ Goto("sync", IF minerPc["sync"] = "clear" THEN "ended" ELSE "start")
          /\ UNCHANGED canStart
       \/ /\ minerPc["sync"] = "started" /\ Goto("sync", "ended")
          /\ UNCHANGED <<canStart, shouldStart>>
    /\ UNCHANGED <<isMining, engineOn, post, userCalls>>

MinerNext ==
    \/ \E t \in MinerCallers : Start(t) \/ Stop(t)
    \/ User \/ downloaderSync
    \/ \E c \in SyncCalls : PostStart(c) \/ SyncEnds(c) \/ PostDone(c)

\* The two goroutines run, and a synchronisation that has started ends and gets
\* to post its event (Syncer, CallsReturn); the user and new synchronisations
\* are free.
MinerFairness ==
    /\ \A t \in MinerCallers : WF_minerVars(Start(t)) /\ WF_minerVars(Stop(t))
    /\ WF_minerVars(downloaderSync)
    /\ \A c \in SyncCalls : WF_minerVars(SyncEnds(c)) /\ SF_minerVars(PostDone(c))

MinerSpec == MinerInit /\ [][MinerNext]_minerVars /\ MinerFairness
-----------------------------------------------------------------------------
\* The types of the miner's flags and of its callers' positions.
MinerTypeOK ==
    /\ {canStart, shouldStart, isMining, engineOn} \subseteq 0 .. 1
    /\ minerPc \in [MinerCallers -> {"idle", "start", "canStart", "setMining", "engineStart", "started",
                           "stop", "notMining", "notShould", "stopped", "isMining",
                           "allowResume", "allow", "clearResume", "clear", "ended"}]
    /\ post \in [SyncCalls -> {"start", "running", "done", "posted"}]
    /\ userCalls \in 0 .. MaxUserCalls

\* A synchronisation never keeps the miner from starting for good.
StartAllowedAgain == (canStart = 0) ~> (canStart = 1)

\* Mining that downloaderSync interrupted is resumed in the end, also when several
\* synchronisations overlap, unless the user calls Start or Stop meanwhile.
ResumesAfterSync ==
    [](minerPc["sync"] = "stop" /\ [](minerPc["user"] = "idle") => <>(engineOn = 1 /\ isMining = 1))

------------------------------------------------------------------------------
(***************************************************************************)
(* The engine behind the miner and its worker: start, stop and              *)
(* commitNewWork under the engine's lock, the wait loops that take results, *)
(* NativeWorker's update loops with their channels of one element, and the  *)
(* sealing they start and abort.  A block is its number, 0 is no block.     *)
(***************************************************************************)
CONSTANTS
    Callers,        \* goroutines that call into the engine
    MaxHead,        \* bound on the chain's growth
    MaxCalls,       \* bound on the calls made
    MaxStarts       \* bound on the wait loops started

ASSUME EngineAssumption == MaxHead \in Nat /\ MaxStarts \in Nat /\ "free" \notin Callers

Waits == 1 .. MaxStarts

VARIABLES
    enginePc, calls,
    mu, mining,     \* engine: its lock and its flag
    chainHead,           \* number of the chain's current block
    parent,         \* head read by the commitNewWork in progress
    quitGen,        \* which quitCh the engine has now
    wait,           \* wait[w]: an engine.wait loop
    recv, lastBlock, posted,
    working,        \* NativeWorker.isMining
    mineLoops,          \* its update loops
    quitCh, workCh,
    current         \* the block being sealed

engineCalls == <<enginePc, calls, mu, mining, parent, quitGen>>
results == <<recv, lastBlock, posted>>
worker == <<working, mineLoops, quitCh, workCh, current>>
engineVars == <<engineCalls, chainHead, wait, results, worker>>

EngineInit ==
    /\ enginePc = [t \in Callers |-> "idle"] /\ calls = 0
    /\ mu = "free" /\ mining = 0 /\ parent = 0 /\ quitGen = 0
    /\ chainHead = 0
    /\ wait = [w \in Waits |-> [at |-> "none", gen |-> 0, num |-> 0]]
    /\ recv = <<>> /\ lastBlock = 0 /\ posted = <<>>
    /\ working = 0 /\ mineLoops = 0 /\ quitCh = 0 /\ workCh = <<>> /\ current = 0

Move(t, to) == enginePc' = [enginePc EXCEPT ![t] = to]
Starts == Cardinality({w \in Waits : wait[w].at # "none"})

\* A goroutine calls in: Miner.Start (start, then commitNewWork), Miner.Stop, or
\* the engine's update loop on a new head (commitNewWork).
Call(t) ==
    /\ enginePc[t] = "idle" /\ calls < MaxCalls
    /\ calls' = calls + 1
    /\ \E op \in {"start", "stop", "commit"} : Move(t, op)
    /\ UNCHANGED <<mu, mining, parent, quitGen, chainHead, wait, results, worker>>

start(t) ==
    /\ enginePc[t] = "start" /\ mu = "free"
    /\ mining = 0 => Starts < MaxStarts
    /\ IF mining = 0
       THEN /\ working' = 1
            /\ mineLoops' = IF working = 0 THEN mineLoops + 1 ELSE mineLoops
            /\ wait' = [wait EXCEPT ![Starts + 1].at = "loop"]
       ELSE UNCHANGED <<working, mineLoops, wait>>
    /\ mining' = 1
    /\ Move(t, "commit")
    /\ UNCHANGED <<calls, mu, parent, quitGen, chainHead, results, quitCh, workCh, current>>

\* The send of the token waits for room; faulty variant: it is skipped when there is none.
NeverWaits == TRUE
RoomForToken == quitCh = 0

\* NativeWorker.Stop leaves a token in quitCh, waiting for room, and empties
\* workCh; the engine then closes its quitCh and makes another.
stop(t) ==
    /\ \/ /\ enginePc[t] = "stop" /\ mu = "free"
          /\ mu' = t /\ Move(t, "stopWorker")
          /\ UNCHANGED <<mining, quitGen, working, quitCh, workCh>>
       \/ /\ enginePc[t] = "stopWorker"
          /\ mining = 1 /\ working = 1 => RoomForToken
          /\ quitCh' = IF mining = 1 /\ working = 1 THEN 1 ELSE quitCh
          /\ workCh' = IF mining = 1 /\ working = 1 THEN <<>> ELSE workCh
          /\ working' = IF mining = 1 THEN 0 ELSE working
          /\ quitGen' = quitGen + mining
          /\ mining' = 0
          /\ mu' = "free" /\ Move(t, "idle")
    /\ UNCHANGED <<calls, parent, chainHead, wait, results, mineLoops, current>>

\* push waits for room in workCh.
RoomForWork == workCh = <<>>

\* Under the lock: read the head, wait for the slot, and push work for the next
\* block if this node mines and may make it.
commitNewWork(t) ==
    /\ \/ /\ enginePc[t] = "commit" /\ mu = "free"
          /\ mu' = t /\ parent' = chainHead
          /\ \E canMakeBlock \in BOOLEAN : Move(t, IF canMakeBlock /\ mining = 1 THEN "push" ELSE "snapshot")
          /\ UNCHANGED workCh
       \/ /\ enginePc[t] = "push" /\ RoomForWork
          /\ workCh' = Append(workCh, parent + 1)
          /\ Move(t, "snapshot")
          /\ UNCHANGED <<mu, parent>>
       \/ /\ enginePc[t] = "snapshot"
          /\ mu' = "free" /\ parent' = 0 /\ Move(t, "idle")
          /\ UNCHANGED workCh
    /\ UNCHANGED <<calls, mining, quitGen, chainHead, wait, results, working, mineLoops, quitCh, current>>

NewHead ==
    /\ chainHead < MaxHead
    /\ chainHead' = chainHead + 1
    /\ UNCHANGED <<engineCalls, wait, results, worker>>
-----------------------------------------------------------------------------
\* What recv may hold once the sealing in progress ends, with or without a block.
Sealed == {Append(recv, b) : b \in {0, current}}
Aborted == IF current = 0 THEN {recv} ELSE Sealed

TakesWork == workCh # <<>>

\* NativeWorker.update, any of its loops: take work, aborting the sealing in
\* progress, or take a token and end, aborting it too.
workerUpdate ==
    /\ mineLoops > 0
    /\ recv' \in Aborted
    /\ \/ /\ TakesWork
          /\ current' = workCh[1] /\ workCh' = Tail(workCh)
          /\ UNCHANGED <<mineLoops, quitCh>>
       \/ /\ quitCh = 1
          /\ current' = 0 /\ quitCh' = 0 /\ mineLoops' = mineLoops - 1
          /\ UNCHANGED workCh
    /\ UNCHANGED <<engineCalls, chainHead, wait, lastBlock, posted, working>>

\* NativeWorker.mine: Seal returns a block or nothing.
mine ==
    /\ current # 0
    /\ recv' \in Sealed
    /\ current' = 0
    /\ UNCHANGED <<engineCalls, chainHead, wait, lastBlock, posted, working, mineLoops, quitCh, workCh>>

\* Faulty variant: a result for the number announced last is not stale.
StaleBelow(b) == b < lastBlock
Stale(b) == b <= lastBlock

\* engine.wait: a turn evaluates quitCh, then takes a result or leaves; lastBlock
\* is compared in one step and set in another.
waitLoop(w) ==
    /\ \/ /\ wait[w].at = "loop"
          /\ wait' = [wait EXCEPT ![w].at = "select", ![w].gen = quitGen]
          /\ UNCHANGED results
       \/ /\ wait[w].at = "select" /\ recv # <<>>
          /\ recv' = Tail(recv)
          /\ wait' = [wait EXCEPT ![w] =
                IF Head(recv) = 0 \/ Stale(Head(recv))
                THEN [at |-> "loop", gen |-> 0, num |-> 0]
                ELSE [at |-> "got", gen |-> 0, num |-> Head(recv)]]
          /\ UNCHANGED <<lastBlock, posted>>
       \/ /\ wait[w].at = "got"
          /\ lastBlock' = wait[w].num
          /\ posted' = Append(posted, wait[w].num)
          /\ wait' = [wait EXCEPT ![w] = [at |-> "loop", gen |-> 0, num |-> 0]]
          /\ UNCHANGED recv
       \/ /\ wait[w].at = "select" /\ wait[w].gen < quitGen
          /\ wait' = [wait EXCEPT ![w] = [at |-> "gone", gen |-> 0, num |-> 0]]
          /\ UNCHANGED results
    /\ UNCHANGED <<engineCalls, chainHead, worker>>

EngineNext ==
    \/ \E t \in Callers : Call(t) \/ start(t) \/ stop(t) \/ commitNewWork(t)
    \/ NewHead \/ workerUpdate \/ mine
    \/ \E w \in Waits : waitLoop(w)

\* Goroutines run; nothing is assumed of the calls made or of the sealing.
EngineFairness ==
    /\ \A t \in Callers : WF_engineVars(stop(t)) /\ WF_engineVars(commitNewWork(t))
    /\ WF_engineVars(workerUpdate)

EngineSpec == EngineInit /\ [][EngineNext]_engineVars /\ EngineFairness
-----------------------------------------------------------------------------
\* The types of the engine and its worker: no channel holds more than its capacity.
EngineTypeOK ==
    /\ {mining, working, quitCh} \subseteq 0 .. 1
    /\ mu \in Callers \cup {"free"}
    /\ mineLoops \in 0 .. MaxStarts
    /\ workCh \in Seq(1 .. MaxHead + 1) /\ Len(workCh) <= 1
    /\ current \in 0 .. MaxHead + 1 /\ lastBlock \in 0 .. MaxHead + 1

\* However late an update loop takes its token, the loops that will be left are
\* one while the engine mines and none otherwise, although a restart may run two
\* for a while and the newer may take the older one's token.
LoopsBalanced == mineLoops - quitCh = working /\ working = mining

\* Until the engine is restarted it announces at most one block of each number,
\* although work for a number may be committed, sealed and aborted repeatedly.
PostedOnce ==
    Starts <= 1 => \A i, j \in DOMAIN posted : posted[i] = posted[j] => i = j

\* The engine's lock is always released: neither the token for a loop that has
\* not taken the last one nor the work for a full channel is awaited for ever.
LockReleased == (mu # "free") ~> (mu = "free")
==============================================================================
