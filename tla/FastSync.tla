------------------------------ MODULE FastSync ------------------------------
(* Fast sync: synchronise in its FastSync mode, up to the pivot block.  The     *)
(* session fetches headers, bodies and receipts batch by batch, its blocks      *)
(* handler inserts them, its state goroutine fetches the nodes of the pivot's   *)
(* state, and the end commits the head.  Handlers and state goroutines of       *)
(* sessions that gave up are left running by the code, and share the queue and  *)
(* the channels with the next session; nothing empties the channels, so that    *)
(* whoever reads one next takes what an earlier session had asked for.          *)
(* Peers are honest.  A block is its number, and so are its body and receipts;  *)
(* a state has a root and a leaf.  A node may crash and start again.            *)
EXTENDS Integers, Sequences, FiniteSets, FiniteSetsExt

CONSTANTS Pivot,            \* the block to fast-sync to
          FastBlockFetch,    \* blocks of a batch
          FastQueueSize,     \* batches in the queue
          MaxSessions, MaxCrashes,
          MaxLeft,          \* answers that a session may find in the channels when it begins
          Txs               \* block -> how many transactions it has

VARIABLES db,       \* what is on disk: the last header, body of each block, fast block, state nodes
          fastHead,     \* the current block, in memory
          s,        \* the session
          fastHandler,  \* session -> its blocksHandler
          states,   \* session -> its state goroutine
          fastQueue, finishFastFetch,
          fastWire,     \* requests whose answer nobody has read: queued, with the peer, or answered in a channel
          crashes,
          misfiled,     \* (history) a state goroutine took a node other than the one it wanted
          overlapped    \* (history) the handlers of two sessions had a batch at once
syncVars == <<db, fastHead, s, fastHandler, states, fastQueue, finishFastFetch, fastWire, crashes, misfiled, overlapped>>

Numbers == 1 .. Pivot
Sessions == 1 .. MaxSessions
TrieNodes == Numbers \X {"root", "leaf"}
NoNode == <<0, "none">>
NoSession == [pc |-> "off", n |-> 0, i |-> 0, prepared |-> 0, headers |-> <<>>, bodies |-> <<>>, receipts |-> <<>>]
NoHandler == [pc |-> "none", task |-> [headers |-> <<>>, bodies |-> <<>>]]
NoState == [pc |-> "none", want |-> NoNode, pending |-> {}]

FastInit ==
    /\ db = [header |-> 0, bodies |-> [n \in Numbers |-> 0], fast |-> 0, nodes |-> [x \in TrieNodes |-> NoNode]]
    /\ fastHead = 0 /\ s = NoSession
    /\ fastHandler = [k \in Sessions |-> NoHandler] /\ states = [k \in Sessions |-> NoState]
    /\ fastQueue = <<>> /\ finishFastFetch = 0 /\ fastWire = {}
    /\ crashes = 0 /\ misfiled = FALSE /\ overlapped = FALSE

FastAsk(kind, data) == [kind |-> kind, data |-> data, late |-> FALSE]
Upward(a, b) == [k \in 1 .. b - a + 1 |-> a + k - 1]
\* synchronise returns; any error makes Synchronise drop the peer, and Cancel is deferred.  What the peer
\* has yet to answer is lost, but not what is in the channels, an answer or a request still to be sent.
Leftovers(wire) == {{[m EXCEPT !.late = TRUE] : m \in kept} : kept \in {w \in SUBSET wire : Cardinality(w) <= MaxLeft}}
End(err, wire) ==
    /\ s' = [NoSession EXCEPT !.n = s.n]
    /\ fastWire' \in IF err = "nil" THEN {wire} ELSE Leftovers(wire)

-----------------------------------------------------------------------------
(* The session. *)
Begin ==
    /\ s.pc = "off" /\ s.n < MaxSessions /\ Pivot > db.fast
    /\ s' = [NoSession EXCEPT !.pc = "latest", !.n = s.n + 1, !.i = db.fast + 1]
    /\ fastWire' = fastWire \cup {FastAsk("headers", <<Pivot>>)}
    /\ fastQueue' = <<>> /\ finishFastFetch' = 0
    /\ fastHandler' = [fastHandler EXCEPT ![s.n + 1].pc = "loop"]
    /\ UNCHANGED <<db, fastHead, states, crashes, misfiled, overlapped>>

FastAt(pc) == [NoState EXCEPT !.pc = pc]
\* The peer answers all it was asked for, or of the bodies, which are large, the first ones.
Lengths(m) == IF m.kind = "bodies" THEN 1 .. Len(m.data) ELSE {Len(m.data)}
\* A reader takes what is in the channel, whoever asked for it.
Oldest(ms) == IF \E m \in ms : m.late THEN {m \in ms : m.late} ELSE ms
Answers(kind) ==
    UNION {{[data |-> SubSeq(m.data, 1, n), wire |-> fastWire \ {m}] : n \in Lengths(m)} : m \in Oldest({x \in fastWire : x.kind = kind})}

Missing(x) == db.nodes[x] = NoNode
Awaits(x, got) == [pc |-> "await", want |-> x, pending |-> got]
\* The answer's first header has the root; the state goroutine asks for it at once, unless it is there.
LatestHeader ==
    /\ s.pc = "latest" /\ s' = [s EXCEPT !.pc = "next"]
    /\ \E a \in Answers("headers") : LET root == <<a.data[1], "root">> IN
          IF Missing(root) THEN states' = [states EXCEPT ![s.n] = Awaits(root, {})] /\ fastWire' = a.wire \cup {FastAsk("nodes", <<root>>)}
          ELSE states' = [states EXCEPT ![s.n] = FastAt("finish")] /\ fastWire' = a.wire
    /\ UNCHANGED <<db, fastHead, fastHandler, fastQueue, finishFastFetch, crashes, misfiled, overlapped>>

\* The goroutine of FetchHeaders may run before headerIdle is cleared: no request is sent then.
NextBatch(sent) ==
    /\ s.pc = "next" /\ s.i < Pivot
    /\ s' = [s EXCEPT !.pc = "batch"]
    /\ fastWire' = IF ~sent THEN fastWire
               ELSE fastWire \cup {FastAsk("headers", IF FastBlockFetch < Pivot - s.i THEN Upward(s.i, s.i + FastBlockFetch - 1)
                                                ELSE Upward(s.i, Pivot))}
    /\ UNCHANGED <<db, fastHead, fastHandler, states, fastQueue, finishFastFetch, crashes, misfiled, overlapped>>
AllFetched ==
    /\ s.pc = "next" /\ s.i >= Pivot
    /\ s' = [s EXCEPT !.pc = "finish"] /\ finishFastFetch' = 1
    /\ UNCHANGED <<db, fastHead, fastHandler, states, fastQueue, fastWire, crashes, misfiled, overlapped>>

\* An answer is reported on prepare, which has room for two and which only this goroutine reads, counting
\* the first two; when it has read them is left open.  With two unread, the next report waits for ever.
Prepared(t) == {u \in {[t EXCEPT !.prepared = @ + 1]} : u.prepared <= 4} \cup {u \in {[NoSession EXCEPT !.pc = "wedged", !.n = t.n]} : t.prepared >= 2}
\* FetchBodies: one request for bodies in a batch.
TakeHeaders ==
    /\ s.pc = "batch"
    /\ \E a \in Answers("headers") :
          /\ s' \in Prepared([s EXCEPT !.headers = a.data])
          /\ fastWire' = a.wire \cup {FastAsk("receipts", a.data)} \cup {m \in {FastAsk("bodies", a.data)} : s.headers = <<>>}
    /\ UNCHANGED <<db, fastHead, fastHandler, states, fastQueue, finishFastFetch, crashes, misfiled, overlapped>>
\* The roots of the bodies or receipts are those of the headers fetched so far.
Valid(answer) == \A k \in DOMAIN answer \cap DOMAIN s.headers : answer[k] = s.headers[k]
TakeBodies ==
    /\ s.pc = "batch"
    /\ \E a \in Answers("bodies") :
          IF Valid(a.data) THEN s' \in Prepared([s EXCEPT !.bodies = a.data]) /\ fastWire' = a.wire ELSE End("ErrBodiesValidate", a.wire)
    /\ UNCHANGED <<db, fastHead, fastHandler, states, fastQueue, finishFastFetch, crashes, misfiled, overlapped>>
TakeReceipts ==
    /\ s.pc = "batch"
    /\ \E a \in Answers("receipts") :
          IF Valid(a.data) THEN s' \in Prepared([s EXCEPT !.receipts = a.data]) /\ fastWire' = a.wire ELSE End("ErrReceiptValidate", a.wire)
    /\ UNCHANGED <<db, fastHead, fastHandler, states, fastQueue, finishFastFetch, crashes, misfiled, overlapped>>
Ready(t) == Min({Len(t.headers), Len(t.bodies), Len(t.receipts)})
insertBlocks ==
    /\ s.pc = "batch" /\ s.prepared >= 3
    /\ IF Len(fastQueue) >= FastQueueSize THEN End("errQueue", fastWire) /\ UNCHANGED fastQueue
       ELSE /\ fastQueue' = Append(fastQueue, [headers |-> SubSeq(s.headers, 1, Ready(s)), bodies |-> SubSeq(s.bodies, 1, Ready(s))])
            /\ s' = [NoSession EXCEPT !.pc = "next", !.n = s.n, !.i = s.i + Ready(s)] /\ UNCHANGED fastWire
    /\ UNCHANGED <<db, fastHead, fastHandler, states, finishFastFetch, crashes, misfiled, overlapped>>

Timed == {"latest", "batch", "finish"}
\* A timer, or the quit and cancel channels.
FastTimeout ==
    /\ s.pc \in Timed /\ End("ErrTimeout", fastWire)
    /\ UNCHANGED <<db, fastHead, fastHandler, states, fastQueue, finishFastFetch, crashes, misfiled, overlapped>>
\* errCh: what the session's own goroutines report while it listens.
HandlerFailed ==
    /\ s.pc \in {"batch", "finish"} /\ fastHandler[s.n].pc = "err" /\ End("err", fastWire)
    /\ fastHandler' = [fastHandler EXCEPT ![s.n].pc = "dead"]
    /\ UNCHANGED <<db, fastHead, states, fastQueue, finishFastFetch, crashes, misfiled, overlapped>>
HandlerSucceeded ==
    /\ s.pc = "finish" /\ fastHandler[s.n].pc = "success"
    /\ s' = [s EXCEPT !.pc = "state"] /\ fastHandler' = [fastHandler EXCEPT ![s.n].pc = "dead"]
    /\ UNCHANGED <<db, fastHead, states, fastQueue, finishFastFetch, fastWire, crashes, misfiled, overlapped>>
\* Faulty variant: the fast block is made the head as it is.
HasRootAny(n) == TRUE
\* FastSyncCommitHead opens the trie of the block: its root must be there.
HasRoot(n) == db.nodes[<<n, "root">>] # NoNode
\* stateSyncFinishCh: any state goroutine that is done will do.
StateFinished(k) ==
    /\ s.pc = "state" /\ states[k].pc = "finish"
    /\ states' = [states EXCEPT ![k] = FastAt("dead")]
    /\ IF db.fast # 0 /\ HasRoot(db.fast) THEN fastHead' = db.fast /\ End("nil", fastWire) ELSE UNCHANGED fastHead /\ End("err", fastWire)
    /\ UNCHANGED <<db, fastHandler, fastQueue, finishFastFetch, crashes, misfiled, overlapped>>

-----------------------------------------------------------------------------
(* blocksHandler. *)
HandlerTake(k) ==
    /\ fastHandler[k].pc = "loop"
    /\ IF fastQueue = <<>> THEN /\ finishFastFetch = 1 /\ fastHandler' = [fastHandler EXCEPT ![k].pc = "success"] /\ UNCHANGED <<fastQueue, overlapped>>
       ELSE /\ fastQueue' = Tail(fastQueue) /\ fastHandler' = [fastHandler EXCEPT ![k] = [pc |-> "headers", task |-> Head(fastQueue)]]
            /\ overlapped' = (overlapped \/ {j \in Sessions \ {k} : fastHandler[j].pc \in {"headers", "receipts", "fast"}} # {})
    /\ UNCHANGED <<db, fastHead, s, states, finishFastFetch, fastWire, crashes, misfiled>>
\* ValidateHeaderChain: linked, and the first one's parent known to the engine.
KnownParent(headers) == headers[1] <= db.header + 1
\* WriteHeader: a higher header becomes the current one.
HeaderAfter(headers) == Max({db.header, headers[Len(headers)]})
InsertHeaderChain(k) ==
    /\ fastHandler[k].pc = "headers"
    /\ LET headers == fastHandler[k].task.headers IN
       IF headers # <<>> /\ KnownParent(headers)
       THEN /\ db' = [db EXCEPT !.header = HeaderAfter(headers)]
            /\ fastHandler' = [fastHandler EXCEPT ![k].pc = "receipts"]
       ELSE UNCHANGED db /\ fastHandler' = [fastHandler EXCEPT ![k] = [NoHandler EXCEPT !.pc = IF headers = <<>> THEN "panic" ELSE "err"]]
    /\ UNCHANGED <<fastHead, s, states, fastQueue, finishFastFetch, fastWire, crashes, misfiled, overlapped>>
\* SetReceiptsData compares the numbers of transactions and receipts.
Matching(n, body) == Txs[body] = Txs[n]
\* The blocks without a body get one, in one batch.
InsertReceiptChain(k) ==
    /\ fastHandler[k].pc = "receipts"
    /\ LET task == fastHandler[k].task
           body(n) == task.bodies[n - task.headers[1] + 1]
           new == {n \in {task.headers[j] : j \in DOMAIN task.headers} : db.bodies[n] = 0}
       IN  IF \A n \in new : Matching(n, body(n))
           THEN /\ db' = [db EXCEPT !.bodies = [n \in Numbers |-> IF n \in new THEN body(n) ELSE @[n]]]
                /\ fastHandler' = [fastHandler EXCEPT ![k].pc = "fast"]
           ELSE UNCHANGED db /\ fastHandler' = [fastHandler EXCEPT ![k] = [NoHandler EXCEPT !.pc = "err"]]
    /\ UNCHANGED <<fastHead, s, states, fastQueue, finishFastFetch, fastWire, crashes, misfiled, overlapped>>
FastOf(headers) == headers[Len(headers)]
UpdateFastBlock(k) ==
    /\ fastHandler[k].pc = "fast"
    /\ db' = [db EXCEPT !.fast = Max({@, FastOf(fastHandler[k].task.headers)})]
    /\ fastHandler' = [fastHandler EXCEPT ![k] = [NoHandler EXCEPT !.pc = "loop"]]
    /\ UNCHANGED <<fastHead, s, states, fastQueue, finishFastFetch, fastWire, crashes, misfiled, overlapped>>

-----------------------------------------------------------------------------
(* processFastSyncContent. *)
\* sched.Process and Commit: the data is taken for the node that was wanted, whatever it is.  The node it
\* refers to is wanted next, and all is written once nothing is; one that waits for itself is never written.
Below(data) == IF data[2] = "root" THEN {x \in {<<data[1], "leaf">>} : Missing(x)} ELSE {}
Written(nodes, got) == [x \in TrieNodes |-> IF \E g \in got : g[1] = x THEN (CHOOSE g \in got : g[1] = x)[2] ELSE nodes[x]]
StateData(k) ==
    /\ states[k].pc = "await"
    /\ \E a \in Answers("nodes") :
       LET data == a.data[1]
           got == states[k].pending \cup {<<states[k].want, data>>}
           next == Below(data) \ {g[1] : g \in got}
       IN  /\ IF next = {} THEN states' = [states EXCEPT ![k] = FastAt("finish")] /\ fastWire' = a.wire
              ELSE \E x \in next : states' = [states EXCEPT ![k] = Awaits(x, got)] /\ fastWire' = a.wire \cup {FastAsk("nodes", <<x>>)}
           /\ db' = IF Below(data) = {} THEN [db EXCEPT !.nodes = Written(@, got)] ELSE db
           /\ misfiled' = (misfiled \/ data # states[k].want)
    /\ UNCHANGED <<fastHead, s, fastHandler, fastQueue, finishFastFetch, crashes, overlapped>>
\* A timeout, reported on stateSyncErrCh, which nobody reads, or the end of the session whose cancelCh it reads.
StateTimeout(k) ==
    /\ states[k].pc = "await" /\ states' = [states EXCEPT ![k] = FastAt("dead")]
    /\ UNCHANGED <<db, fastHead, s, fastHandler, fastQueue, finishFastFetch, fastWire, crashes, misfiled, overlapped>>

-----------------------------------------------------------------------------
\* The node stops at any moment and starts again: loadLastState has the head of before, and an
\* empty batch, which the handler does not survive, ends it too.
Crash ==
    /\ s.n > 0 /\ (crashes < MaxCrashes \/ {k \in Sessions : fastHandler[k].pc = "panic"} # {})
    /\ crashes' = crashes + 1 /\ fastHead' = 0 /\ s' = [NoSession EXCEPT !.n = s.n]
    /\ fastHandler' = [k \in Sessions |-> NoHandler] /\ states' = [k \in Sessions |-> NoState]
    /\ fastQueue' = <<>> /\ finishFastFetch' = 0 /\ fastWire' = {}
    /\ UNCHANGED <<db, misfiled, overlapped>>

SessionSteps ==
    \/ LatestHeader \/ NextBatch(TRUE) \/ AllFetched \/ TakeHeaders \/ TakeBodies \/ TakeReceipts
    \/ insertBlocks \/ FastTimeout \/ HandlerFailed \/ HandlerSucceeded \/ \E k \in Sessions : StateFinished(k)
GoroutineSteps ==
    \E k \in Sessions : \/ HandlerTake(k) \/ InsertHeaderChain(k) \/ InsertReceiptChain(k) \/ UpdateFastBlock(k)
                        \/ StateData(k) \/ StateTimeout(k)
FastNext ==
    \/ Begin \/ SessionSteps \/ NextBatch(FALSE) \/ GoroutineSteps \/ Crash

-----------------------------------------------------------------------------
\* The shapes of the state.
FastTypeOK ==
    /\ db.header \in 0 .. Pivot /\ db.fast \in 0 .. Pivot /\ db.bodies \in [Numbers -> 0 .. Pivot] /\ fastHead \in 0 .. Pivot
    /\ s.i \in 0 .. 2 * Pivot /\ s.prepared \in 0 .. 4
    /\ Cardinality({m \in fastWire : m.late}) <= MaxLeft
    /\ Len(fastQueue) <= FastQueueSize

\* The block that fast sync makes the head has its body and the root of its state on disk, and all of its
\* state under its own keys, though the signal that the state is complete may come from an earlier session's
\* goroutine.  The last part is lost once a goroutine has been given another node than it wanted: the data is
\* not compared with the hash it is filed under, so that a late answer can take the place of a node.
HeadComplete ==
    fastHead # 0 => /\ db.bodies[fastHead] # 0 /\ ~Missing(<<fastHead, "root">>)
                    /\ ~misfiled => \A p \in {"root", "leaf"} : db.nodes[<<fastHead, p>>] = <<fastHead, p>>

\* Every block up to the fast block has its header and body, after a crash between any two writes too,
\* as long as the handlers of two sessions have not had batches at the same time.
FastContiguous == ~overlapped => /\ db.fast <= db.header
                                             /\ \A n \in 1 .. db.fast : db.bodies[n] # 0

\* A session ends, unless its state goroutine met a timeout or an earlier one's cancellation took the
\* state's place, or three answers came before the first was counted: nothing else can hold it for ever.
Held == s.pc = "wedged" \/ (s.pc = "state" /\ {k \in Sessions : states[k].pc \in {"await", "finish"}} = {})
\* Every session that starts ends, or is held as above.
FastEnds == (s.pc # "off") ~> (s.pc = "off" \/ Held)
=============================================================================
