----------------------------- MODULE Propagation -----------------------------
(* Sending blocks and transactions to the peers: BroadcastBlock and             *)
(* BroadcastTxs of protocols/cpc/broadcast.go, the queues, known sets and       *)
(* broadcast loop of peer.go, txsyncLoop and the end of synchronize in sync.go, *)
(* and the messages of handler.go that carry blocks and transactions in.  A     *)
(* peer may reconnect while a transmission to its earlier connection goes on.   *)
EXTENDS Integers, Sequences, FiniteSets, SequencesExt, FiniteSetsExt

CONSTANTS Linked, TxItems, BlockItems,
          maxQueuedTxs, maxQueuedProps, maxKnownTxs, maxKnownBlocks,
          packSize,           \* txsyncPackSize, in transactions
          Dangling,           \* the blocks whose parent this node has not
          Announced,          \* what a peer may send itself
          MaxReconnects

VARIABLES link,      \* of each peer: [conn, up, loop, queues, known, got, asked, lost]
          pending,   \* txsyncLoop: the transactions still to send, and to which connection
          pack,      \* the pack that is being sent
          pool,      \* the pending transactions of the pool
          chain,     \* the blocks of the own chain
          acceptTxs
propVars == <<link, pending, pack, pool, chain, acceptTxs>>

NoPack == [peer |-> "none", conn |-> 0, txs |-> {}]
Kind(i) == IF i \in TxItems THEN "txs" ELSE "props"
Room(k) == IF k = "txs" THEN maxQueuedTxs ELSE maxQueuedProps
Allowance(k) == IF k = "txs" THEN maxKnownTxs ELSE maxKnownBlocks
\* newPeer, registered; txs are handed to txsyncLoop by syncTransactions.
NewLink(c) == [conn |-> c, up |-> TRUE, loop |-> TRUE, queues |-> [txs |-> <<>>, props |-> <<>>],
               known |-> {}, got |-> {}, asked |-> {}, lost |-> FALSE]
LinkUp == {p \in Linked : link[p].up}

PropInit ==
    /\ link = [p \in Linked |-> NewLink(1)]
    /\ pending = [p \in Linked |-> NoPack] /\ pack = NoPack
    /\ pool = {} /\ chain = {} /\ acceptTxs = FALSE
-----------------------------------------------------------------------------
\* AsyncSendTransactions and AsyncSendNewBlock: a full queue drops the items.
AsyncSend(l, k, items) ==
    IF Len(l.queues[k]) < Room(k)
    THEN [l EXCEPT !.queues[k] = Append(@, items), !.known = @ \cup items] ELSE l

\* MarkBlock, MarkTransaction: an arbitrary item makes room.
Marked(l, i) == {[l EXCEPT !.known = (@ \ out) \cup {i}] :
    out \in {o \in SUBSET {j \in l.known : Kind(j) = Kind(i)} :
                Cardinality(o) = Max({0, Cardinality({j \in l.known : Kind(j) = Kind(i)}) - Allowance(Kind(i)) + 1})}}

\* BroadcastTxs, to the peers not known to have them, or to all.
BroadcastTxs(txs, force) ==
    LET missing(p) == IF force THEN txs ELSE txs \ link[p].known IN
    link' = [p \in Linked |-> IF p \in LinkUp /\ missing(p) # {}
                             THEN AsyncSend(link[p], "txs", missing(p)) ELSE link[p]]
NewTxs(txs) == /\ txs \cap pool = {} /\ pool' = pool \cup txs
               /\ BroadcastTxs(txs, FALSE) /\ UNCHANGED <<pending, pack, chain, acceptTxs>>
Rebroadcast == /\ pool # {} /\ BroadcastTxs(pool, TRUE)
               /\ UNCHANGED <<pending, pack, pool, chain, acceptTxs>>

\* BroadcastBlock: a dangling block is not propagated, and nothing is announced.
BroadcastBlock(b) ==
    IF b \in Dangling THEN UNCHANGED link
    ELSE link' = [p \in Linked |-> IF p \in LinkUp /\ b \notin link[p].known
                                  THEN AsyncSend(link[p], "props", {b}) ELSE link[p]]
NewBlock(b) == /\ b \notin chain /\ chain' = chain \cup {b} /\ BroadcastBlock(b)
               /\ UNCHANGED <<pending, pack, pool, acceptTxs>>
\* The end of synchronize, with the head.
Synchronized(b) == /\ b \in chain /\ ~acceptTxs /\ acceptTxs' = TRUE /\ BroadcastBlock(b)
                   /\ UNCHANGED <<pending, pack, pool, chain>>

\* NewBlockMsg, NewBlockHashesMsg and TxMsg of a peer.
ReceiveItem(p, i) ==
    /\ p \in LinkUp /\ i \notin link[p].got
    /\ link' \in {[link EXCEPT ![p] = [l EXCEPT !.got = @ \cup {i}]] :
                    l \in IF i \in TxItems /\ ~acceptTxs THEN {link[p]} ELSE Marked(link[p], i)}
    /\ UNCHANGED <<pending, pack, pool, chain, acceptTxs>>

\* The broadcast loop of a peer: one item is sent, or the sending fails and the loop ends.
Sent(p, k) ==
    LET items == Head(link[p].queues[k]) IN
    /\ p \in LinkUp /\ link[p].loop /\ link[p].queues[k] # <<>>
    /\ \/ link' = [link EXCEPT ![p].queues[k] = Tail(@), ![p].known = @ \cup items, ![p].got = @ \cup items]
       \/ link' = [link EXCEPT ![p].queues[k] = Tail(@), ![p].known = @ \cup items, ![p].loop = FALSE]
    /\ UNCHANGED <<pending, pack, pool, chain, acceptTxs>>

\* The connection ends: a failed transmission means so.
DisconnectLink(p) == /\ link[p].up /\ link' = [link EXCEPT ![p].up = FALSE]
                 /\ UNCHANGED <<pending, pack, pool, chain, acceptTxs>>
-----------------------------------------------------------------------------
\* txsyncLoop's send: a pack is cut off the pending transactions of one connection.
Packs(s) == IF Cardinality(s.txs) <= packSize THEN {s.txs} ELSE kSubset(packSize, s.txs)
Send(s, before, txs) ==
    /\ pack' = [s EXCEPT !.txs = txs]
    /\ pending' = [before EXCEPT ![s.peer] = IF s.txs = txs THEN NoPack ELSE [s EXCEPT !.txs = @ \ txs]]

\* A peer connects (again); syncTransactions hands its transactions to txsyncLoop.
ReconnectLink(p) ==
    LET s == [peer |-> p, conn |-> link[p].conn + 1, txs |-> pool] IN
    /\ ~link[p].up /\ link[p].conn <= MaxReconnects
    /\ link' = [link EXCEPT ![p] = [NewLink(s.conn) EXCEPT !.asked = pool]]
    /\ IF pool = {} THEN UNCHANGED <<pending, pack>>
       ELSE IF pack # NoPack THEN pending' = [pending EXCEPT ![p] = s] /\ UNCHANGED pack
       ELSE \E txs \in Packs(s) : Send(s, [pending EXCEPT ![p] = s], txs)
    /\ UNCHANGED <<pool, chain, acceptTxs>>

\* The pack is sent or has failed, and a next one is picked.
NextPicks(after, failed) == {p \in Linked : after[p] # NoPack}
PackDone ==
    LET p == pack.peer
        current == link[p].conn = pack.conn IN
    /\ pack # NoPack
    /\ \E failed \in IF current /\ link[p].up THEN {FALSE} ELSE {TRUE} :
        LET after == IF failed THEN [pending EXCEPT ![p] = NoPack] ELSE pending IN
        /\ link' = IF failed THEN [link EXCEPT ![p].lost = @ \/ pending[p].conn = link[p].conn] ELSE [link EXCEPT ![p].known = @ \cup pack.txs, ![p].got = @ \cup pack.txs]
        /\ IF NextPicks(after, failed) = {} THEN pack' = NoPack /\ pending' = after
           ELSE \E q \in NextPicks(after, failed) : \E txs \in Packs(after[q]) : Send(after[q], after, txs)
    /\ UNCHANGED <<pool, chain, acceptTxs>>

PropNext == \/ \E txs \in {{t} : t \in TxItems} \cup {TxItems} : NewTxs(txs)
            \/ Rebroadcast \/ PackDone
            \/ \E b \in BlockItems : NewBlock(b) \/ Synchronized(b)
            \/ \E p \in Linked : \/ DisconnectLink(p) \/ ReconnectLink(p)
                                \/ \E i \in Announced : ReceiveItem(p, i)
                                \/ \E k \in {"txs", "props"} : Sent(p, k)
PropSpec == /\ PropInit /\ [][PropNext]_propVars
            /\ WF_propVars(PackDone)
            /\ \A p \in Linked : WF_propVars(~link[p].loop /\ DisconnectLink(p))
-----------------------------------------------------------------------------
\* The queues stay within their limits, and no dangling block is sent.
PropTypeOK ==
    \A p \in Linked : /\ \A k \in {"txs", "props"} : Len(link[p].queues[k]) <= Room(k)
                     /\ \A i \in DOMAIN link[p].queues.props : link[p].queues.props[i] \cap Dangling = {}

\* What is marked as known to a connected peer, and so is not broadcast to it again, the
\* peer really has or will be sent, unless its broadcast loop has failed.
KnownIsTrue ==
    \A p \in LinkUp :
        link[p].loop => link[p].known \subseteq
            link[p].got \cup UNION {UNION Range(link[p].queues[k]) : k \in {"txs", "props"}}

\* The transactions pending when a peer connects all reach it unless the connection ends
\* or a pack to the peer's previous connection fails meanwhile.
PendingRelayed ==
    \A p \in Linked : TRUE ~> (link[p].asked \subseteq link[p].got \/ ~link[p].up \/ link[p].lost)
==============================================================================
