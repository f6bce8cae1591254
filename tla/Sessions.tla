------------------------------- MODULE Sessions -------------------------------
(* The life of a peer's session in ProtocolManager (protocols/cpc/handler.go,   *)
(* peer.go and the syncerLoop of sync.go): offered, handshaken, registered,     *)
(* added to the consensus protocol, read from, removed; removals asked for by   *)
(* the fetcher and the syncer; and Stop running against all of it.              *)
EXTENDS Integers, FiniteSets

CONSTANTS Nodes,
          RemoteMiners,     \* the nodes that say they are proposers or validators
          TrustedNodes, maxPeers,
          Roles,            \* what this node may be: "civilian", "miner", "validator"
          MaxConnections, MaxDrops
ASSUME SessionAssumption == IsFiniteSet(Nodes) /\ MaxConnections \in Nat

VARIABLES pm,       \* [role, accepting, quit, closed, stop, wg]
          session,  \* of each node: [pc, conn, up, signs, dpor]
          peers,    \* peerSet.peers: the connection registered for a node, 0 if none
          loops,    \* the connections whose broadcast loop runs
          dporPeers,\* the nodes added to the consensus protocol
          drop,     \* removePeer called by another goroutine: [node, conn]
          drops, crossed
sessVars == <<pm, session, peers, loops, dporPeers, drop, drops, crossed>>

NoDrop == [node |-> "none", conn |-> 0]
Out == [pc |-> "out", conn |-> 0, up |-> FALSE, signs |-> FALSE, dpor |-> FALSE]
SessionAt(n, pc) == session[n].pc = pc
Goes(n, pc) == session' = [session EXCEPT ![n].pc = pc]
Registered == {n \in Nodes : peers[n] # 0}
-----------------------------------------------------------------------------
SessInit ==
    /\ pm \in {[role |-> r, accepting |-> TRUE, quit |-> FALSE, closed |-> FALSE, stop |-> "no", wg |-> 0] : r \in Roles}
    /\ session = [n \in Nodes |-> Out]
    /\ peers = [n \in Nodes |-> 0] /\ loops = {} /\ dporPeers = {}
    /\ drop = NoDrop /\ drops = 0 /\ crossed = FALSE

\* handlePeer begins on a new connection; the role is read here, once.
HandlePeer(n) ==
    /\ SessionAt(n, "out") /\ session[n].conn < MaxConnections
    /\ session' = [session EXCEPT ![n] = [pc |-> "begin", conn |-> @.conn + 1, up |-> TRUE,
                                          signs |-> pm.role # "civilian", dpor |-> FALSE]]
    /\ UNCHANGED <<pm, peers, loops, dporPeers, drop, drops, crossed>>

\* syncerLoop takes the peer, or quitSync is closed.
Offer(n) ==
    /\ SessionAt(n, "begin")
    /\ \/ pm.accepting /\ Goes(n, "accepted")
       \/ pm.quit /\ session' = [session EXCEPT ![n].pc = "out", ![n].up = FALSE]
    /\ UNCHANGED <<pm, peers, loops, dporPeers, drop, drops, crossed>>

\* wg.Add, and the limit that addPeer checks before the handshake.
AddPeer(n) ==
    /\ SessionAt(n, "accepted")
    /\ pm' = [pm EXCEPT !.wg = @ + 1]
    /\ Goes(n, IF Cardinality(Registered) >= maxPeers /\ n \notin TrustedNodes THEN "done" ELSE "handshake")
    /\ UNCHANGED <<peers, loops, dporPeers, drop, drops, crossed>>

\* The status messages are exchanged, or one is wrong, or the timeout fires.
Handshake(n) ==
    /\ SessionAt(n, "handshake")
    /\ Goes(n, "register") \/ Goes(n, "done")
    /\ UNCHANGED <<pm, peers, loops, dporPeers, drop, drops, crossed>>

Refused(n) == pm.closed \/ peers[n] # 0
Register(n) ==
    /\ SessionAt(n, "register")
    /\ IF Refused(n) THEN Goes(n, "done") /\ UNCHANGED <<peers, loops>>
       ELSE /\ Goes(n, "registered")
            /\ peers' = [peers EXCEPT ![n] = session[n].conn]
            /\ loops' = loops \cup {<<n, session[n].conn>>}
    /\ UNCHANGED <<pm, dporPeers, drop, drops, crossed>>

\* A validator keeps no civilian; the consensus protocol shakes hands with a signing peer.
AddToDpor(n) ==
    /\ SessionAt(n, "registered")
    /\ \/ pm.role = "validator" /\ n \notin RemoteMiners /\ Goes(n, "leaving") /\ UNCHANGED dporPeers
       \/ /\ pm.role # "validator" \/ n \in RemoteMiners
          /\ IF session[n].signs /\ n \in RemoteMiners
             THEN \/ Goes(n, "leaving") /\ UNCHANGED dporPeers
                  \/ /\ session' = [session EXCEPT ![n].pc = "loop", ![n].dpor = TRUE]
                     /\ dporPeers' = dporPeers \cup {n}
             ELSE Goes(n, "loop") /\ UNCHANGED dporPeers
    /\ UNCHANGED <<pm, peers, loops, drop, drops, crossed>>

\* handleMsg returns an error: an invalid message, or the connection is gone.
Fail(n) == /\ SessionAt(n, "loop") /\ Goes(n, "leaving")
           /\ UNCHANGED <<pm, peers, loops, dporPeers, drop, drops, crossed>>
Lose(n) == /\ SessionAt(n, "loop") /\ session[n].up /\ session' = [session EXCEPT ![n].up = FALSE]
           /\ UNCHANGED <<pm, peers, loops, dporPeers, drop, drops, crossed>>

\* The deferred calls, last first: the consensus protocol's, the peer set's, wg.Done.
\* Faulty variant: a peer that has closed the connection is not removed.
ForgottenIfUp(n) == IF session[n].up THEN dporPeers \ {n} ELSE dporPeers
Forgotten(n) == IF session[n].dpor THEN dporPeers \ {n} ELSE dporPeers
Leave(n) ==
    /\ SessionAt(n, "leaving")
    /\ dporPeers' = Forgotten(n)
    /\ Goes(n, "remove")
    /\ UNCHANGED <<pm, peers, loops, drop, drops, crossed>>
Unregistered(n) == [peers EXCEPT ![n] = 0]
RemovePeer(n) ==
    /\ SessionAt(n, "remove")
    /\ peers' = Unregistered(n)
    /\ loops' = loops \ {<<n, peers[n]>>}
    /\ Goes(n, "done")
    /\ UNCHANGED <<pm, dporPeers, drop, drops, crossed>>
SessionDone(n) ==
    /\ SessionAt(n, "done")
    /\ pm' = [pm EXCEPT !.wg = @ - 1]
    /\ session' = [session EXCEPT ![n].pc = "out", ![n].up = FALSE, ![n].dpor = FALSE]
    /\ UNCHANGED <<peers, loops, dporPeers, drop, drops, crossed>>

\* removePeer called by the fetcher or the syncer: the peer is looked up, then removed by
\* its id, and the connection that was looked up is closed.
DropLookup(n) ==
    /\ drop = NoDrop /\ drops < MaxDrops /\ peers[n] # 0
    /\ drop' = [node |-> n, conn |-> peers[n]] /\ drops' = drops + 1
    /\ UNCHANGED <<pm, session, peers, loops, dporPeers, crossed>>
DropRemove ==
    LET n == drop.node IN
    /\ drop # NoDrop
    /\ peers' = [peers EXCEPT ![n] = 0]
    /\ loops' = loops \ {<<n, peers[n]>>}
    /\ session' = IF session[n].conn = drop.conn THEN [session EXCEPT ![n].up = FALSE] ELSE session
    /\ crossed' = (crossed \/ peers[n] \notin {0, drop.conn})
    /\ drop' = NoDrop
    /\ UNCHANGED <<pm, dporPeers, drops>>

\* Stop.
StopBegin == /\ pm.stop = "no" /\ pm' = [pm EXCEPT !.stop = "noMorePeers"]
             /\ UNCHANGED <<session, peers, loops, dporPeers, drop, drops, crossed>>
NoMorePeers == /\ pm.stop = "noMorePeers" /\ pm.accepting
               /\ pm' = [pm EXCEPT !.stop = "quitSync", !.accepting = FALSE]
               /\ UNCHANGED <<session, peers, loops, dporPeers, drop, drops, crossed>>
QuitSync == /\ pm.stop = "quitSync" /\ pm' = [pm EXCEPT !.stop = "close", !.quit = TRUE]
            /\ UNCHANGED <<session, peers, loops, dporPeers, drop, drops, crossed>>
Disconnected == [n \in Nodes |-> IF peers[n] # 0 THEN [session[n] EXCEPT !.up = FALSE] ELSE session[n]]
ClosePeers == /\ pm.stop = "close" /\ pm' = [pm EXCEPT !.stop = "wait", !.closed = TRUE]
              /\ session' = Disconnected
              /\ UNCHANGED <<peers, loops, dporPeers, drop, drops, crossed>>
Wait == /\ pm.stop = "wait" /\ pm.wg = 0 /\ pm' = [pm EXCEPT !.stop = "stopped"]
        /\ UNCHANGED <<session, peers, loops, dporPeers, drop, drops, crossed>>

SessionStep(n) == Offer(n) \/ AddPeer(n) \/ Handshake(n) \/ Register(n) \/ AddToDpor(n)
                    \/ Leave(n) \/ RemovePeer(n) \/ SessionDone(n)
StopStep == NoMorePeers \/ QuitSync \/ ClosePeers \/ Wait
SessNext == \/ \E n \in Nodes : HandlePeer(n) \/ SessionStep(n) \/ Fail(n) \/ Lose(n) \/ DropLookup(n)
            \/ DropRemove \/ StopBegin \/ StopStep
SessFairness == /\ \A n \in Nodes : WF_sessVars(SessionStep(n)) /\ WF_sessVars(~session[n].up /\ Fail(n))
                /\ WF_sessVars(DropRemove) /\ WF_sessVars(StopStep)
SessSpec == SessInit /\ [][SessNext]_sessVars /\ SessFairness
-----------------------------------------------------------------------------
Inside == {"handshake", "register", "registered", "loop", "leaving", "remove", "done"}
\* wg counts the sessions between wg.Add and wg.Done, and each loop is of a registered peer.
SessTypeOK ==
    /\ pm.wg = Cardinality({n \in Nodes : session[n].pc \in Inside})
    /\ \A n \in Nodes : peers[n] \in 0 .. MaxConnections
    /\ loops = {<<n, peers[n]>> : n \in Registered}
    /\ dporPeers \subseteq Nodes

\* A registered peer has the running session that will remove it, and a session in its
\* message loop is registered unless it is being closed; a removal that looked up an
\* earlier connection of the node is the one exception.
PeersHaveSessions ==
    \A n \in Nodes :
        /\ peers[n] # 0 => session[n].pc \in {"registered", "loop", "leaving", "remove"} /\ session[n].conn = peers[n]
        /\ session[n].pc = "loop" /\ session[n].up /\ ~crossed => peers[n] # 0
        /\ n \in dporPeers <=> session[n].dpor /\ session[n].pc \in {"loop", "leaving"}

\* When Stop has returned no peer is registered, in the peer set or with the consensus
\* protocol, and none ever will be, although a session may still be on its way out.
StoppedMeansNoPeers == pm.stop = "stopped" => Registered = {} /\ dporPeers = {} /\ loops = {}

\* Stop returns, whatever the sessions were doing, as long as no session was orphaned.
StopReturns == (pm.stop = "noMorePeers") ~> (pm.stop = "stopped" \/ crossed)
==============================================================================
