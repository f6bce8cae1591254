------------------------------- MODULE Syncer -------------------------------
(***************************************************************************)
(* The synchroniser in full-sync mode: calls of Synchronise made by several *)
(* goroutines, the session one of them wins, the shared queue of batches,   *)
(* the blocksHandler goroutine of each session, the request loop and the    *)
(* deliveries of the peers' reader goroutines.  A batch is the range of     *)
(* block numbers it holds.  Peers are honest: they all hold the same chain  *)
(* up to Height.  Goroutines of an abandoned session are not stopped by the *)
(* code, and so they stay in the model.                                     *)
(***************************************************************************)
EXTENDS Integers, Sequences, FiniteSets

CONSTANTS
    Calls,          \* the calls of Synchronise, each made once
    SyncPeers,
    Height,         \* number of the head block every peer announces
    MaxBlockFetch,  \* blocks in a full batch
    MaxQueueSize,   \* limit of the queue of batches
    NoPeer

ASSUME SyncerAssumption ==
    /\ Height \in Nat /\ MaxBlockFetch \in Nat \ {0} /\ MaxQueueSize \in Nat \ {0}
    /\ IsFiniteSet(Calls) /\ NoPeer \notin SyncPeers

VARIABLES
    head,           \* number of the local chain's current block
    call,           \* call[c]: where the call is
    peer,           \* peer[c]: the peer the call synchronises with
    next,           \* next[c]: i, the first block of the next request
    result,         \* result[c]: what synchronise returned
    synchronizing,  \* the atomic flag
    handler,        \* handler[c]: blocksHandler of the call's session
    task,           \* task[c]: the batch that handler took
    queue, size,    \* blocksQueue: its channel and its counter
    finishFetch,
    requestLoop,    \* sendRequestLoop
    syncRequestsCh, syncBlocksCh,
    currentPeer,
    up,             \* up[p]: p is connected
    reader,         \* reader[p]: the batch p's reader goroutine is delivering
    stuck,          \* batches held by readers of connections that are gone
    wire,           \* requests and answers on their way
    quit            \* quitCh has been closed

syncSession == <<call, peer, next, result, synchronizing>>
handlers == <<handler, task>>
batches == <<queue, size, finishFetch>>
channels == <<requestLoop, syncRequestsCh, syncBlocksCh, currentPeer>>
network == <<up, reader, stuck, wire>>
syncerVars == <<head, syncSession, handlers, batches, channels, network, quit>>

Batch == [first : 1 .. Height, last : 1 .. Height]
NoBatch == [first |-> 1, last |-> 0]

SyncerInit ==
    /\ head = 0
    /\ call = [c \in Calls |-> "new"]
    /\ peer = [c \in Calls |-> NoPeer]
    /\ next = [c \in Calls |-> 0]
    /\ result = [c \in Calls |-> "none"]
    /\ synchronizing = 0
    /\ handler = [c \in Calls |-> "none"]
    /\ task = [c \in Calls |-> NoBatch]
    /\ queue = <<>> /\ size = 0 /\ finishFetch = 0
    /\ requestLoop = "none" /\ syncRequestsCh = <<>> /\ syncBlocksCh = <<>>
    /\ currentPeer = NoPeer
    /\ up = [p \in SyncPeers |-> TRUE]
    /\ reader = [p \in SyncPeers |-> NoBatch]
    /\ stuck = {} /\ wire = {}
    /\ quit = FALSE

-----------------------------------------------------------------------------
(* Synchronise: synchronize starts it for a peer that is ahead.  A call that
   finds a session running answers nil at once. *)
Synchronise(c, p) ==
    /\ call[c] = "new" /\ up[p] /\ Height > head
    /\ peer' = [peer EXCEPT ![c] = p]
    /\ call' = [call EXCEPT ![c] = IF synchronizing = 1 THEN "done" ELSE "checked"]
    /\ result' = [result EXCEPT ![c] = IF synchronizing = 1 THEN "nil" ELSE @]
    /\ UNCHANGED <<head, next, synchronizing, handlers, batches, channels, network, quit>>

\* The compare-and-swap that makes the call a session, and the comparison with
\* the local head, which is read only here.
Enter(c) ==
    /\ call[c] = "checked"
    /\ \/ /\ synchronizing = 1
          /\ call' = [call EXCEPT ![c] = "done"]
          /\ result' = [result EXCEPT ![c] = "errBusy"]
          /\ UNCHANGED <<next, synchronizing>>
       \/ /\ synchronizing = 0 /\ Height <= head
          /\ call' = [call EXCEPT ![c] = "done"]
          /\ result' = [result EXCEPT ![c] = "ErrSlowPeer"]
          /\ UNCHANGED <<next, synchronizing>>
       \/ /\ synchronizing = 0 /\ Height > head
          /\ synchronizing' = 1
          /\ next' = [next EXCEPT ![c] = head + 1]
          /\ call' = [call EXCEPT ![c] = "entered"]
          /\ UNCHANGED result
    /\ UNCHANGED <<head, peer, handlers, batches, channels, network, quit>>

\* The session waits for the request loop of the session before it (or gives
\* up after 5 s, when that loop has ended on quitCh), and starts its own.
StartRequestLoop(c) ==
    /\ call[c] = "entered" /\ requestLoop \in {"none", "finish"}
    /\ requestLoop' = "run"
    /\ currentPeer' = peer[c]
    /\ finishFetch' = 0
    /\ call' = [call EXCEPT ![c] = "clear"]
    /\ UNCHANGED <<head, peer, next, result, synchronizing, handlers, queue, size,
                   syncRequestsCh, syncBlocksCh, network, quit>>

\* queue.clear, one batch at a time until the counter says empty; then the
\* session's blocksHandler starts.
clear(c) ==
    /\ call[c] = "clear"
    /\ \/ /\ size # 0 /\ queue # <<>>
          /\ queue' = Tail(queue) /\ size' = size - 1
          /\ UNCHANGED <<call, handler>>
       \/ /\ size = 0
          /\ handler' = [handler EXCEPT ![c] = "loop"]
          /\ call' = [call EXCEPT ![c] = "fetch"]
          /\ UNCHANGED <<queue, size>>
    /\ UNCHANGED <<head, peer, next, result, synchronizing, task, finishFetch,
                   channels, network, quit>>

\* One turn of the fetching loop: ask for the batch that starts at next, or
\* leave the loop when next has reached the height.
Fetch(c) ==
    /\ call[c] = "fetch"
    /\ \/ /\ next[c] < Height /\ syncRequestsCh = <<>>
          /\ syncRequestsCh' = <<next[c]>>
          /\ call' = [call EXCEPT ![c] = "await"]
          /\ UNCHANGED finishFetch
       \/ /\ next[c] >= Height
          /\ finishFetch' = 1
          /\ call' = [call EXCEPT ![c] = "finish"]
          /\ UNCHANGED syncRequestsCh
    /\ UNCHANGED <<head, peer, next, result, synchronizing, handlers, queue, size,
                   requestLoop, syncBlocksCh, currentPeer, network, quit>>

\* removePeer, by dropPeer or at the end of the peer's message loop: the
\* connection closes; a reader in the middle of a delivery stays in it.
SyncDisconnect(p) ==
    /\ up' = [up EXCEPT ![p] = FALSE]
    /\ reader' = [reader EXCEPT ![p] = NoBatch]
    /\ stuck' = IF up[p] THEN stuck \cup ({reader[p]} \ {NoBatch}) ELSE stuck
    /\ wire' = {m \in wire : m.peer # p}

\* The deferred calls at the end of synchronise (close cancelCh, then clear the
\* flag) and what Synchronise does with the error.
Return(c, err) ==
    /\ call' = [call EXCEPT ![c] = "done"]
    /\ result' = [result EXCEPT ![c] = err]
    /\ synchronizing' = 0
    /\ requestLoop' = IF requestLoop = "run" THEN "cancelled" ELSE requestLoop
    /\ IF err \in {"ErrTimeout", "ErrInvalidChain"}
       THEN SyncDisconnect(peer[c])
       ELSE UNCHANGED network
    /\ next' = [next EXCEPT ![c] = 0]
    /\ UNCHANGED peer

\* queue.put's limit check.
Full == size >= MaxQueueSize

\* A batch arrives: queue.put refuses it when the counter is at the limit, or
\* sends it and only then counts it.
SyncReceive(c) ==
    /\ call[c] = "await" /\ syncBlocksCh # <<>>
    /\ syncBlocksCh' = <<>>
    /\ \/ /\ Full
          /\ Return(c, "ErrInvalidChain")
          /\ UNCHANGED queue
       \/ /\ ~Full
          /\ call' = [call EXCEPT ![c] = "put"]
          /\ queue' = Append(queue, syncBlocksCh[1])
          /\ UNCHANGED <<peer, next, result, synchronizing, requestLoop, network>>
    /\ UNCHANGED <<head, handlers, size, finishFetch, syncRequestsCh, currentPeer, quit>>


put(c) ==
    /\ call[c] = "put"
    /\ size' = size + 1
    /\ next' = [next EXCEPT ![c] = @ + MaxBlockFetch]
    /\ call' = [call EXCEPT ![c] = "fetch"]
    /\ UNCHANGED <<head, peer, result, synchronizing, handlers, queue, finishFetch,
                   channels, network, quit>>

\* The other cases of the two selects: the handler's error, its success (looked
\* at only after the last batch), the timer, and quitCh.
FinishSync(c) ==
    /\ call[c] \in {"await", "finish"}
    /\ \/ /\ handler[c] = "err"
          /\ handler' = [handler EXCEPT ![c] = "gone"]
          /\ Return(c, "ErrInvalidChain")
       \/ /\ call[c] = "finish" /\ handler[c] = "success"
          /\ handler' = [handler EXCEPT ![c] = "gone"]
          /\ Return(c, "success")
       \/ /\ quit
          /\ UNCHANGED handler
          /\ Return(c, "errQuitSync")
    /\ UNCHANGED <<head, task, batches, syncRequestsCh, syncBlocksCh, currentPeer, quit>>

\* Faulty variant: only the last select has a timer.
TimeoutAtTheEnd(c) ==
    /\ call[c] = "finish"
    /\ Return(c, "ErrTimeout")
    /\ UNCHANGED <<head, handlers, batches, syncRequestsCh, syncBlocksCh, currentPeer, quit>>

Timeout(c) ==
    /\ call[c] \in {"await", "finish"}
    /\ Return(c, "ErrTimeout")
    /\ UNCHANGED <<head, handlers, batches, syncRequestsCh, syncBlocksCh, currentPeer, quit>>
-----------------------------------------------------------------------------
\* Faulty variant: the handler does not look at the queue.
FetchedAll == finishFetch = 1
Drained == finishFetch = 1 /\ size = 0

\* blocksHandler: success is offered when everything is fetched and the counter
\* is zero; otherwise queue.get takes a batch and only then counts it off.
HandlerGet(c) ==
    /\ handler[c] = "loop"
    /\ \/ /\ Drained
          /\ handler' = [handler EXCEPT ![c] = "success"]
          /\ UNCHANGED <<task, queue>>
       \/ /\ ~Drained /\ queue # <<>>
          /\ handler' = [handler EXCEPT ![c] = "got"]
          /\ task' = [task EXCEPT ![c] = Head(queue)]
          /\ queue' = Tail(queue)
    /\ UNCHANGED <<head, syncSession, size, finishFetch, channels, network, quit>>

HandlerCount(c) ==
    /\ handler[c] = "got"
    /\ size' = size - 1
    /\ handler' = [handler EXCEPT ![c] = "counted"]
    /\ UNCHANGED <<head, syncSession, task, queue, finishFetch, channels, network, quit>>

\* InsertChain: blocks that are already in the chain are skipped, a batch that
\* does not connect to it is an error, which the handler offers on errCh.
HandlerInsert(c) ==
    /\ handler[c] = "counted"
    /\ task' = [task EXCEPT ![c] = NoBatch]
    /\ \/ /\ task[c].first > head + 1
          /\ handler' = [handler EXCEPT ![c] = "err"]
          /\ UNCHANGED head
       \/ /\ task[c].first <= head + 1
          /\ handler' = [handler EXCEPT ![c] = "loop"]
          /\ head' = IF task[c].last > head THEN task[c].last ELSE head
    /\ UNCHANGED <<syncSession, batches, channels, network, quit>>

\* A block inserted by another part of the node: the fetcher or the validator.
InsertElsewhere ==
    /\ head < Height
    /\ head' = head + 1
    /\ UNCHANGED <<syncSession, handlers, batches, channels, network, quit>>
-----------------------------------------------------------------------------
\* sendRequestLoop: a request goes to whoever is the current peer now; once
\* cancelled the loop may still take a request, and ends waiting for the next
\* session to hear of it.
sendRequestLoop ==
    /\ requestLoop \in {"run", "cancelled"}
    /\ \/ /\ syncRequestsCh # <<>>
          /\ syncRequestsCh' = <<>>
          /\ wire' = IF up[currentPeer]
                     THEN wire \cup {[type |-> "GetBlocksMsg", peer |-> currentPeer, first |-> syncRequestsCh[1]]}
                     ELSE wire
          /\ UNCHANGED requestLoop
       \/ /\ requestLoop = "cancelled" \/ quit
          /\ requestLoop' = IF requestLoop = "cancelled" THEN "finish" ELSE "none"
          /\ UNCHANGED <<syncRequestsCh, wire>>
    /\ UNCHANGED <<head, syncSession, handlers, batches, syncBlocksCh, currentPeer, up, reader, stuck, quit>>

\* The peer's handler of GetBlocksMsg: no answer for its head block or above.
AnswerBlocks(m) ==
    /\ m \in wire /\ m.type = "GetBlocksMsg"
    /\ wire' = (wire \ {m}) \cup
          IF m.first >= Height THEN {}
          ELSE {[type |-> "BlocksMsg", peer |-> m.peer, first |-> m.first,
                 last |-> IF m.first + MaxBlockFetch - 1 < Height THEN m.first + MaxBlockFetch - 1 ELSE Height]}
    /\ UNCHANGED <<head, syncSession, handlers, batches, channels, up, reader, stuck, quit>>

\* DeliverBlocks, up to the send: an answer of another peer or outside a session
\* is an error, which ends the peer's message loop.
DeliverBlocks(m) ==
    /\ m \in wire /\ m.type = "BlocksMsg" /\ reader[m.peer] = NoBatch
    /\ IF currentPeer = m.peer /\ synchronizing = 1
       THEN /\ reader' = [reader EXCEPT ![m.peer] = [first |-> m.first, last |-> m.last]]
            /\ wire' = wire \ {m}
            /\ UNCHANGED <<up, stuck>>
       ELSE SyncDisconnect(m.peer)
    /\ UNCHANGED <<head, syncSession, handlers, batches, channels, quit>>

\* The send itself, which waits for room in a channel of one batch.
Deliver ==
    /\ syncBlocksCh = <<>>
    /\ \/ \E p \in SyncPeers :
             /\ reader[p] # NoBatch
             /\ syncBlocksCh' = <<reader[p]>>
             /\ reader' = [reader EXCEPT ![p] = NoBatch]
             /\ UNCHANGED stuck
       \/ \E b \in stuck :
             /\ syncBlocksCh' = <<b>>
             /\ stuck' = stuck \ {b}
             /\ UNCHANGED reader
    /\ UNCHANGED <<head, syncSession, handlers, batches, requestLoop, syncRequestsCh,
                   currentPeer, up, wire, quit>>

SyncReconnect(p) ==
    /\ ~up[p]
    /\ up' = [up EXCEPT ![p] = TRUE]
    /\ UNCHANGED <<head, syncSession, handlers, batches, channels, reader, stuck, wire, quit>>

Terminate ==
    /\ ~quit
    /\ quit' = TRUE
    /\ UNCHANGED <<head, syncSession, handlers, batches, channels, network>>

SyncSessionStep(c) ==
    \/ \E p \in SyncPeers : Synchronise(c, p)
    \/ Enter(c) \/ StartRequestLoop(c) \/ clear(c) \/ Fetch(c) \/ SyncReceive(c) \/ put(c)
    \/ FinishSync(c) \/ Timeout(c)
HandlerStep(c) == HandlerGet(c) \/ HandlerCount(c) \/ HandlerInsert(c)

SyncerNext ==
    \/ \E c \in Calls : SyncSessionStep(c) \/ HandlerStep(c)
    \/ sendRequestLoop
    \/ \E m \in wire : AnswerBlocks(m) \/ DeliverBlocks(m)
    \/ Deliver
    \/ \E p \in SyncPeers : SyncReconnect(p)
    \/ InsertElsewhere \/ Terminate

\* Goroutines of the node are scheduled and its timers fire; nothing is assumed
\* of the peers.
SyncerFairness ==
    /\ \A c \in Calls : WF_syncerVars(SyncSessionStep(c)) /\ WF_syncerVars(HandlerStep(c))
    /\ WF_syncerVars(sendRequestLoop)

SyncerSpec == SyncerInit /\ [][SyncerNext]_syncerVars /\ SyncerFairness
-----------------------------------------------------------------------------
\* The types of the synchroniser: calls, session, queue and handlers.
SyncerTypeOK ==
    /\ head \in 0 .. Height
    /\ call \in [Calls -> {"new", "checked", "entered", "clear", "fetch", "await", "put", "finish", "done"}]
    /\ synchronizing \in 0 .. 1 /\ finishFetch \in 0 .. 1
    /\ handler \in [Calls -> {"none", "loop", "got", "counted", "err", "success", "gone"}]
    /\ queue \in Seq(Batch) /\ size \in -1 .. MaxQueueSize
    /\ reader \in [SyncPeers -> Batch \cup {NoBatch}] /\ stuck \subseteq Batch

\* The counter of the queue never runs behind the channel when a batch is put or
\* the queue is cleared: a put that passes the limit check never blocks on the
\* channel, and clear leaves no batch of an earlier session behind.
CounterCoversQueue ==
    /\ size + Cardinality({c \in Calls : call[c] = "put"})
         = Len(queue) + Cardinality({c \in Calls : handler[c] = "got"})
    /\ Len(queue) <= MaxQueueSize

\* A session that reports success has brought the chain to the last block but
\* one of the peer or further, unless an earlier session was abandoned, whose
\* handler and late answers may still be at work.
SuccessMeansCaughtUp ==
    \A c \in Calls :
        result[c] = "success" /\ (\A d \in Calls : result[d] \notin {"ErrTimeout", "ErrInvalidChain", "errQuitSync"})
            => head >= Height - 1

\* Every call of Synchronise returns, whatever the peers do and whatever earlier
\* sessions have left behind, as long as the synchroniser is not terminated.
CallsReturn == \A c \in Calls : (call[c] # "new") ~> (call[c] = "done" \/ quit)
=============================================================================
