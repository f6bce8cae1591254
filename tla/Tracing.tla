------------------------------- MODULE Tracing ------------------------------
(* The tracing API (protocols/cpc/api_tracer.go and its tracers), in three     *)
(* independent parts.                                                          *)
(*  - "chain": TraceChain feeds the blocks of a range to concurrent tracers    *)
(*    while it processes them, holds their states in memory by reference       *)
(*    counts and streams the results in order.                                 *)
(*  - "block": TraceBlock and TraceTransaction regenerate the state of the     *)
(*    parent and trace transactions on copies of the state before each.        *)
(*  - "script": the life of one JavaScript tracer, and of the struct logger,   *)
(*    under an execution of nested calls.                                      *)
EXTENDS Integers, Sequences, FiniteSets, SequencesExt

CONSTANTS Newest,            \* the number of the current block
          NonEmpty,        \* the blocks with transactions
          OnDisk,          \* the blocks whose state is on disk
          Threads, Reexec

VARIABLES range,           \* what TraceChain was asked: [origin, end], and where it starts
          feeder,          \* the feeding goroutine: pc and block number
          proot,           \* the root it holds, as the block it is the state of; 0 is none
          refs,            \* block -> references to its state held in memory
          tasks, results,  \* the two channels, by block number
          tracer,          \* thread -> "idle", "ended" or the block it traces
          reader,          \* the streaming goroutine: finished blocks, next, or ended
          streamed,        \* what the client was notified of
          closed           \* the connection of the subscription is gone
chainVars == <<range, feeder, proot, refs, tasks, results, tracer, reader, streamed, closed>>
Numbers == 0 .. Newest
Tracers == 1 .. Threads
Busy(w) == tracer[w] \in Numbers

TraceInit ==
    /\ range = [origin |-> 0, end |-> 0, start |-> 0]
    /\ feeder = [pc |-> "none", number |-> 0]
    /\ proot = 0 /\ refs = [n \in Numbers |-> 0]
    /\ tasks = <<>> /\ results = <<>>
    /\ tracer = [w \in Tracers |-> -1]
    /\ reader = [pc |-> "none", done |-> {}, next |-> 0]
    /\ streamed = <<>> /\ closed = FALSE

\* The most recent block at or before n whose state is there, at most Reexec blocks back.
StartStates(n) == {m \in OnDisk : m <= n /\ n - m <= Reexec}
TraceChain(origin, end) ==
    /\ feeder.pc = "none" /\ origin <= end
    /\ LET first == IF origin > 0 THEN origin - 1 ELSE 0 IN
       /\ StartStates(first) # {}
       /\ LET start == CHOOSE m \in StartStates(first) : \A k \in StartStates(first) : k <= m
              threads == {w \in Tracers : w <= end - origin}
          IN  /\ range' = [origin |-> origin, end |-> end, start |-> start]
              /\ feeder' = [pc |-> "top", number |-> start + 1]
              /\ tracer' = [w \in Tracers |-> IF w \in threads THEN -1 ELSE -2]
              /\ reader' = [pc |-> "reads", done |-> {}, next |-> origin + 1]
    /\ UNCHANGED <<proot, refs, tasks, results, streamed, closed>>

Capacity == Cardinality({w \in Tracers : w <= range.end - range.origin})

\* The top of the feeding loop: stop when told, else send the block to the tracers.
FeedTop ==
    /\ feeder.pc = "top"
    /\ \/ /\ closed \/ feeder.number > range.end
          /\ feeder' = [feeder EXCEPT !.pc = "closing"] /\ UNCHANGED tasks
       \/ /\ ~closed /\ feeder.number <= range.end /\ feeder.number <= range.origin
          /\ feeder' = [feeder EXCEPT !.pc = "process"] /\ UNCHANGED tasks
       \/ /\ ~closed /\ feeder.number <= range.end /\ feeder.number > range.origin
          /\ Len(tasks) < Capacity
          /\ tasks' = Append(tasks, feeder.number)
          /\ feeder' = [feeder EXCEPT !.pc = "process"]
    /\ UNCHANGED <<range, proot, refs, results, tracer, reader, streamed, closed>>

\* Faulty variant: the tracers' own reference is only taken past the origin.
ReferencesFew(n) == IF n > range.origin THEN 2 ELSE 1
\* One reference for the feeder, and one for the tracer of the next block.
References(n) == IF n >= range.origin THEN 2 ELSE 1
Released(r, n) == IF n = 0 THEN r ELSE [r EXCEPT ![n] = IF @ > 0 THEN @ - 1 ELSE 0]
\* Process and commit the block; reference its state, release the one before.
FeedProcess(ok) ==
    /\ feeder.pc = "process"
    /\ IF ~ok THEN feeder' = [feeder EXCEPT !.pc = "closing"] /\ UNCHANGED <<refs, proot>>
       ELSE LET n == feeder.number IN
            /\ refs' = Released([refs EXCEPT ![n] = @ + References(n)], proot)
            /\ proot' = n
            /\ feeder' = [pc |-> "top", number |-> n + 1]
    /\ UNCHANGED <<range, tasks, results, tracer, reader, streamed, closed>>

\* Faulty variant: the tasks are closed after the wait for the tracers.
FinishedLast == tasks = <<>> /\ feeder.pc = "ended"
Finished == tasks = <<>> /\ feeder.pc \in {"closing", "ended"}
Trace(w) ==
    /\ tracer[w] = -1 /\ tasks # <<>>
    /\ tracer' = [tracer EXCEPT ![w] = Head(tasks)]
    /\ tasks' = Tail(tasks)
    /\ UNCHANGED <<range, feeder, proot, refs, results, reader, streamed, closed>>
\* The task's rootref: what proot was when the block was sent.
RootRef(n) == IF n - 1 > range.start THEN n - 1 ELSE 0
Deliver(w) ==
    /\ Busy(w)
    /\ \/ /\ Len(results) < Capacity
          /\ results' = Append(results, tracer[w]) /\ tracer' = [tracer EXCEPT ![w] = -1]
       \/ closed /\ tracer' = [tracer EXCEPT ![w] = -2] /\ UNCHANGED results
    /\ UNCHANGED <<range, feeder, proot, refs, tasks, reader, streamed, closed>>
EndTracer(w) ==
    /\ tracer[w] = -1 /\ Finished
    /\ tracer' = [tracer EXCEPT ![w] = -2]
    /\ UNCHANGED <<range, feeder, proot, refs, tasks, results, reader, streamed, closed>>
\* close(tasks), pend.Wait(), close(results)
EndFeeder ==
    /\ feeder.pc = "closing" /\ \A w \in Tracers : tracer[w] = -2
    /\ feeder' = [feeder EXCEPT !.pc = "ended"]
    /\ UNCHANGED <<range, proot, refs, tasks, results, tracer, reader, streamed, closed>>

\* The finished blocks from next on without a gap.
Streamable(done, next) == {n \in done : next .. n \subseteq done}
\* Read a result, release its parent's state, stream what is complete.
Stream ==
    /\ reader.pc = "reads" /\ results # <<>>
    /\ LET done == reader.done \cup {Head(results)}
           out == Streamable(done, reader.next)
           shown == {n \in out : n \in NonEmpty \/ n = range.end}
       IN  /\ reader' = [reader EXCEPT !.done = done \ out, !.next = @ + Cardinality(out)]
           /\ streamed' = streamed \o SetToSortSeq(shown, <)
    /\ refs' = Released(refs, RootRef(Head(results)))
    /\ results' = Tail(results)
    /\ UNCHANGED <<range, feeder, proot, tasks, tracer, closed>>
EndReader ==
    /\ reader.pc = "reads" /\ results = <<>> /\ feeder.pc = "ended"
    /\ reader' = [reader EXCEPT !.pc = "ended"]
    /\ UNCHANGED <<range, feeder, proot, refs, tasks, results, tracer, streamed, closed>>
ConnectionCloses ==
    /\ feeder.pc # "none" /\ ~closed /\ closed' = TRUE
    /\ UNCHANGED <<range, feeder, proot, refs, tasks, results, tracer, reader, streamed>>

TracerSteps == \/ FeedTop \/ \E ok \in BOOLEAN : FeedProcess(ok)
               \/ \E w \in Tracers : Trace(w) \/ Deliver(w) \/ EndTracer(w)
               \/ EndFeeder \/ Stream \/ EndReader
ChainNext == \/ \E origin, end \in Numbers : TraceChain(origin, end)
             \/ TracerSteps \/ ConnectionCloses

\* The state of a traced range is well formed; no more blocks than tracers wait.
TraceTypeOK ==
    /\ feeder.pc \in {"none", "top", "process", "closing", "ended"} /\ feeder.number \in 0 .. Newest + 1
    /\ proot \in Numbers /\ refs \in [Numbers -> 0 .. 2]
    /\ Len(tasks) <= Threads /\ Len(results) <= Threads
    /\ tracer \in [Tracers -> Numbers \cup {-1, -2}]

\* The client gets the traces of the range in order and without gaps: what was streamed is what
\* there is to stream up to the last block streamed.
StreamInOrder ==
    /\ \A i \in 1 .. Len(streamed) - 1 : streamed[i] < streamed[i + 1]
    /\ \A n \in range.origin + 1 .. reader.next - 1 : n \in NonEmpty => n \in ToSet(streamed)

\* The state a waiting or running trace starts from stays in memory until its result is read,
\* however far the feeder, which releases states too, has gone on.
StatesHeld ==
    \A n \in ToSet(tasks) \cup {tracer[w] : w \in {x \in Tracers : Busy(x)}} :
       RootRef(n) # 0 => refs[n - 1] > 0

\* When the range was traced to its end, only its last state is still referenced.
StatesReleased ==
    (reader.pc = "ended" /\ ~closed /\ feeder.number > range.end)
      => \A n \in Numbers : refs[n] > 0 => n = range.end

\* A trace of a range ends: its goroutines all return, when the client goes away in the middle too.
TracingEnds == feeder.pc = "top" ~> reader.pc = "ended"
-----------------------------------------------------------------------------
(* Part "block".  Blocks are <<number, branch>>: the two branches share the     *)
(* blocks up to Fork.  A state is the sequence of blocks processed to get it,   *)
(* with what was applied of the transactions of the block traced.               *)
CONSTANTS Fork, Tip,                 \* the last common block, the height of both branches
          Kept,                      \* the blocks whose state blockchain.StateAt gives
          TxLists                    \* the transactions of a traced block: "public" or "private"
VARIABLES canon,      \* the branch GetBlockByNumber reads
          switched,   \* a reorganisation happened
          traceCall,  \* the call: pc, block, its transactions, the index traced, threads left
          statedb,    \* the state it works on
          envPriv,    \* the transactions applied to the private state
          jobs,       \* the tasks sent and not taken: index and copy of the state
          tracing,    \* thread -> the task it has
          traces      \* index -> the state the transaction was traced on
blockVars == <<canon, switched, traceCall, statedb, envPriv, jobs, tracing, traces>>

BlockNo(n, br) == <<n, IF n <= Fork THEN "a" ELSE br>>
ParentOf(b) == BlockNo(b[1] - 1, b[2])
AllBlocks == {BlockNo(n, br) : n \in 1 .. Tip, br \in {"a", "b"}}
HistoryOf(b) == [n \in 1 .. b[1] |-> BlockNo(n, b[2])]
NoTask == [index |-> 0, state |-> [blocks |-> <<>>, applied |-> <<>>]]

BlockInit ==
    /\ canon = "a" /\ switched = FALSE
    /\ traceCall = [pc |-> "none", kind |-> "block", block |-> BlockNo(1, "a"), txs |-> <<>>, next |-> 1]
    /\ statedb = [blocks |-> <<>>, applied |-> <<>>] /\ envPriv = <<>>
    /\ jobs = <<>> /\ tracing = [w \in Tracers |-> NoTask]
    /\ traces = <<>>

\* computeStateDB begins at the nearest ancestor whose state is kept, at most Reexec back.
Bases(b) == {n \in 0 .. b[1] : BlockNo(n, b[2]) \in Kept /\ b[1] - n <= Reexec}
TraceCalled(kind, b, txs, index) ==
    /\ traceCall.pc = "none"
    /\ kind = "tx" => b = BlockNo(b[1], canon)        \* ReadTransaction finds it in the canonical chain
    /\ LET bases == Bases(ParentOf(b)) IN
       IF bases = {}
       THEN /\ traceCall' = [pc |-> "failed", kind |-> kind, block |-> b, txs |-> txs, next |-> index]
            /\ UNCHANGED statedb
       ELSE LET base == CHOOSE n \in bases : \A m \in bases : m <= n IN
            /\ traceCall' = [pc |-> "regenerate", kind |-> kind, block |-> b, txs |-> txs, next |-> index]
            /\ statedb' = [blocks |-> HistoryOf(BlockNo(base, b[2])), applied |-> <<>>]
    /\ traces' = [i \in DOMAIN txs |-> NoTask.state]
    /\ UNCHANGED <<canon, switched, envPriv, jobs, tracing>>

\* The next block to regenerate with: that of the canonical chain.
NextBlock(n) == BlockNo(n + 1, canon)
Regenerate ==
    /\ traceCall.pc = "regenerate"
    /\ IF Len(statedb.blocks) < traceCall.block[1] - 1
       THEN statedb' = [statedb EXCEPT !.blocks = Append(@, NextBlock(Len(@)))] /\ UNCHANGED traceCall
       ELSE traceCall' = [traceCall EXCEPT !.pc = traceCall.kind] /\ UNCHANGED statedb
    /\ UNCHANGED <<canon, switched, envPriv, jobs, tracing, traces>>

Applied(tx) == IF tx = "private" THEN "empty" ELSE "data"
\* ApplyMessage on the state processing would have gives no error; on another it may.
MayFail == statedb.blocks # HistoryOf(ParentOf(traceCall.block))

TaskState == statedb
\* traceBlock: send the transaction with a copy of the state, apply it.
FeedTx(fails) ==
    /\ traceCall.pc = "block" /\ traceCall.next <= Len(traceCall.txs)
    /\ fails => MayFail
    /\ jobs' = Append(jobs, [index |-> traceCall.next, state |-> TaskState])
    /\ IF fails THEN traceCall' = [traceCall EXCEPT !.pc = "failing"] /\ UNCHANGED statedb
       ELSE /\ traceCall' = [traceCall EXCEPT !.next = @ + 1]
            /\ statedb' = [statedb EXCEPT !.applied = Append(@, "data")]
    /\ UNCHANGED <<canon, switched, envPriv, tracing, traces>>
TakeTx(w) ==
    /\ tracing[w] = NoTask /\ jobs # <<>>
    /\ tracing' = [tracing EXCEPT ![w] = Head(jobs)] /\ jobs' = Tail(jobs)
    /\ UNCHANGED <<canon, switched, traceCall, statedb, envPriv, traces>>
TraceTx(w) ==
    /\ tracing[w] # NoTask
    /\ traces' = [traces EXCEPT ![tracing[w].index] = tracing[w].state]
    /\ tracing' = [tracing EXCEPT ![w] = NoTask]
    /\ UNCHANGED <<canon, switched, traceCall, statedb, envPriv, jobs>>
\* close(jobs), pend.Wait()
TracersDone == jobs = <<>> /\ \A w \in Tracers : tracing[w] = NoTask
TraceReturns ==
    /\ traceCall.pc = "failing" \/ (traceCall.pc = "block" /\ traceCall.next > Len(traceCall.txs))
    /\ TracersDone
    /\ traceCall' = [traceCall EXCEPT !.pc = IF @ = "failing" THEN "failed" ELSE "returned"]
    /\ UNCHANGED <<canon, switched, statedb, envPriv, jobs, tracing, traces>>

\* computeTxEnv applies the transactions before the index (each of a sender of its own), a
\* private one to the private state alone.
TxEnv ==
    /\ traceCall.pc = "tx"
    /\ LET before == SubSeq(traceCall.txs, 1, traceCall.next - 1)
           public == SelectSeq(before, LAMBDA tx : tx = "public")
       IN  /\ statedb' = [statedb EXCEPT !.applied = [i \in DOMAIN public |-> "data"]]
           /\ envPriv' = SelectSeq(before, LAMBDA tx : tx = "private")
           /\ traces' = [traces EXCEPT ![traceCall.next] = statedb']
           /\ traceCall' = [traceCall EXCEPT !.pc = "returned"]
    /\ UNCHANGED <<canon, switched, jobs, tracing>>

SwitchBranch ==
    /\ ~switched /\ canon' = "b" /\ switched' = TRUE
    /\ UNCHANGED <<traceCall, statedb, envPriv, jobs, tracing, traces>>

BlockNext ==
    \/ \E kind \in {"block", "tx"}, b \in AllBlocks, txs \in TxLists :
          \E index \in IF kind = "tx" THEN DOMAIN txs ELSE {1} : TraceCalled(kind, b, txs, index)
    \/ Regenerate \/ \E fails \in BOOLEAN : FeedTx(fails)
    \/ \E w \in Tracers : TakeTx(w) \/ TraceTx(w)
    \/ TraceReturns \/ TxEnv \/ SwitchBranch

\* The state processing the block gives the transaction at index i.
ExecutedOn(i) == [blocks |-> HistoryOf(ParentOf(traceCall.block)),
                  applied |-> [k \in 1 .. i - 1 |-> Applied(traceCall.txs[k])]]

\* A trace in a block of the canonical chain runs each transaction on the state it had when the
\* block was processed: the parent's state, regenerated, and the transactions before it.
TracedAsExecuted ==
    (traceCall.pc = "returned" /\ ~switched /\ traceCall.block[2] = "a" /\ "private" \notin ToSet(traceCall.txs))
      => \A i \in IF traceCall.kind = "tx" THEN {traceCall.next} ELSE DOMAIN traces : traces[i] = ExecutedOn(i)

-----------------------------------------------------------------------------
(* Part "script": one tracer, called by the interpreter, while traceTx's timer  *)
(* may stop it.  A frame is a contract's execution; its "at" is the step it is   *)
(* at, numbered through the whole execution.                                    *)
CONSTANTS Contracts, Values, MaxSteps, MaxDepth, LogLimit
VARIABLES evm,       \* the frames, innermost last: contract, at, logged
          steps,     \* how many steps there were
          phase,     \* where traceTx is
          kindOf,    \* which tracer it made
          jst,       \* the JavaScript tracer: err, interrupt, reason, what its log object shows
          scriptLog, \* the calls of the script: which function, what its log object showed, where the EVM was
          structLogs, changedValues
scriptVars == <<evm, steps, phase, kindOf, jst, scriptLog, structLogs, changedValues>>

ScriptInit ==
    /\ evm = <<>> /\ steps = 0 /\ phase = "none" /\ kindOf = "script"
    /\ jst = [err |-> "none", interrupt |-> FALSE, reason |-> "none", shows |-> 0]
    /\ scriptLog = <<>> /\ structLogs = <<>>
    /\ changedValues = [c \in Contracts |-> 0]

\* tracers.New: the script must have step, fault and result.
NewTracer(kind, c, complete) ==
    /\ phase = "none"
    /\ kindOf' = kind
    /\ phase' = IF kind = "script" /\ ~complete THEN "refused" ELSE "runs"
    /\ evm' = IF phase' = "runs" THEN <<[contract |-> c, at |-> 0, logged |-> FALSE]>> ELSE <<>>
    /\ UNCHANGED <<steps, jst, scriptLog, structLogs, changedValues>>

\* Tracer.call: the script may throw.
Call(j, function, at, throws) ==
    /\ scriptLog' = Append(scriptLog, [function |-> function, showed |-> j.shows, at |-> at])
    /\ jst' = [j EXCEPT !.err = IF throws THEN function ELSE @]

JsCaptureState(at, throws) ==
    IF jst.err # "none" THEN ~throws /\ UNCHANGED <<jst, scriptLog>>
    ELSE IF jst.interrupt THEN ~throws /\ jst' = [jst EXCEPT !.err = jst.reason] /\ UNCHANGED scriptLog
    ELSE Call([jst EXCEPT !.shows = at], "step", at, throws)
JsCaptureFault(at, throws) ==
    IF jst.err # "none" THEN ~throws /\ UNCHANGED <<jst, scriptLog>> ELSE Call(jst, "fault", at, throws)

Limited == LogLimit # 0 /\ LogLimit <= Len(structLogs)
\* StructLogger.CaptureState; a store of a value is noted before it is executed.
LogCaptureState(c, value) ==
    IF Limited THEN UNCHANGED <<structLogs, changedValues>>
    ELSE /\ changedValues' = IF value = 0 THEN changedValues ELSE [changedValues EXCEPT ![c] = value]
         /\ structLogs' = Append(structLogs, [contract |-> c, stores |-> value, storage |-> changedValues'[c]])

Innermost == Len(evm)
CaptureState(at, value, throws) ==
    IF kindOf = "script" THEN JsCaptureState(at, throws) /\ UNCHANGED <<structLogs, changedValues>>
    ELSE ~throws /\ LogCaptureState(evm[Innermost].contract, value) /\ UNCHANGED <<jst, scriptLog>>

\* The interpreter is at the next operation: it is logged before it executes.
Step(value, throws) ==
    /\ phase = "runs" /\ evm # <<>> /\ ~evm[Innermost].logged /\ steps < MaxSteps
    /\ steps' = steps + 1
    /\ CaptureState(steps + 1, value, throws)
    /\ evm' = [evm EXCEPT ![Innermost].at = steps + 1, ![Innermost].logged = TRUE]
    /\ UNCHANGED <<phase, kindOf>>
\* It executes: simply, as a call of another contract, or as the end of the frame.
Execute ==
    /\ phase = "runs" /\ evm # <<>> /\ evm[Innermost].logged
    /\ evm' = [evm EXCEPT ![Innermost].logged = FALSE]
    /\ UNCHANGED <<steps, phase, kindOf, jst, scriptLog, structLogs, changedValues>>
ExecuteCall(c) ==
    /\ phase = "runs" /\ evm # <<>> /\ evm[Innermost].logged /\ Innermost < MaxDepth
    /\ evm' = Append([evm EXCEPT ![Innermost].logged = FALSE], [contract |-> c, at |-> 0, logged |-> FALSE])
    /\ UNCHANGED <<steps, phase, kindOf, jst, scriptLog, structLogs, changedValues>>
ReturnStep ==
    /\ phase = "runs" /\ evm # <<>> /\ evm[Innermost].logged
    /\ evm' = Front(evm)
    /\ UNCHANGED <<steps, phase, kindOf, jst, scriptLog, structLogs, changedValues>>
\* It fails: after it was logged as a fault, before (out of gas, say) as a step with an error.
TraceFault(value, throws) ==
    /\ phase = "runs" /\ evm # <<>>
    /\ IF evm[Innermost].logged
       THEN /\ UNCHANGED <<steps, structLogs, changedValues>>
            /\ value = 0
            /\ IF kindOf = "script" THEN JsCaptureFault(evm[Innermost].at, throws)
               ELSE ~throws /\ UNCHANGED <<jst, scriptLog>>
       ELSE steps < MaxSteps /\ steps' = steps + 1 /\ CaptureState(steps + 1, value, throws)
    /\ evm' = Front(evm)
    /\ UNCHANGED <<phase, kindOf>>

\* CaptureEnd, then GetResult: the script's result function is called whatever happened before.
GetResult(throws) ==
    /\ phase = "runs" /\ evm = <<>> /\ phase' = "ended"
    /\ IF kindOf = "script" THEN jst' = [jst EXCEPT !.err = IF throws THEN "result" ELSE @]
       ELSE ~throws /\ UNCHANGED jst
    /\ UNCHANGED <<evm, steps, kindOf, scriptLog, structLogs, changedValues>>

\* Stop, when the time is over or the caller gone: first the reason, then the flag.
StopReason ==
    /\ phase \in {"runs", "ended"} /\ kindOf = "script" /\ jst.reason = "none"
    /\ jst' = [jst EXCEPT !.reason = "execution timeout"]
    /\ UNCHANGED <<evm, steps, phase, kindOf, scriptLog, structLogs, changedValues>>
FlagReady == jst.reason # "none"
StopFlag ==
    /\ FlagReady /\ ~jst.interrupt
    /\ jst' = [jst EXCEPT !.interrupt = TRUE]
    /\ UNCHANGED <<evm, steps, phase, kindOf, scriptLog, structLogs, changedValues>>

ScriptNext ==
    \/ \E kind \in {"script", "logger"}, c \in Contracts, complete \in BOOLEAN : NewTracer(kind, c, complete)
    \/ \E value \in Values \cup {0}, throws \in BOOLEAN : Step(value, throws)
    \/ Execute \/ \E c \in Contracts : ExecuteCall(c)
    \/ ReturnStep \/ \E value \in Values \cup {0}, throws \in BOOLEAN : TraceFault(value, throws)
    \/ \E throws \in BOOLEAN : GetResult(throws)
    \/ StopReason \/ StopFlag

\* When the script's fault function is called, its log object shows the operation that failed
\* (CaptureFault sets nothing but the error): calls of other contracts never come between, and a
\* step that was not shown because the tracer was stopped leaves an error that stops the rest.
FaultShowsItsStep == \A i \in DOMAIN scriptLog : scriptLog[i].showed = scriptLog[i].at

\* Every entry of the struct logger shows the storage of its contract as the stores logged up to
\* it leave it, and there are no more entries than the limit.
EntriesAsOfTheirStep ==
    /\ LogLimit # 0 => Len(structLogs) <= LogLimit
    /\ \A i \in DOMAIN structLogs :
          LET of == {k \in 1 .. i : structLogs[k].contract = structLogs[i].contract /\ structLogs[k].stores # 0}
          IN  structLogs[i].storage = IF of = {} THEN 0 ELSE structLogs[CHOOSE k \in of : \A m \in of : m <= k].stores
=============================================================================
