--------------------------- MODULE SessionsProofs ---------------------------
(***************************************************************************)
(* Proofs about the sessions of a node's peers, for every number of nodes, *)
(* connections and removals.  The invariant follows one node through its   *)
(* session: what the peer set and the consensus protocol hold of it is     *)
(* determined by where its goroutine is, except that a removal asked for   *)
(* elsewhere may have taken it out of the peer set already.                *)
(***************************************************************************)
EXTENDS Sessions, FiniteSetTheorems, TLAPS

Pcs == {"out", "begin", "accepted"} \cup Inside
Stops == {"no", "noMorePeers", "quitSync", "close", "wait", "stopped"}
\* Where a session may be registered.
Served == {"registered", "loop", "leaving", "remove"}
SessionRecords ==
    [pc : Pcs, conn : 0 .. MaxConnections, up : BOOLEAN, signs : BOOLEAN, dpor : BOOLEAN]
Managers ==
    [role : Roles, accepting : BOOLEAN, quit : BOOLEAN, closed : BOOLEAN, stop : Stops, wg : Int]

SessTypes ==
    /\ pm \in Managers
    /\ session \in [Nodes -> SessionRecords]
    /\ peers \in [Nodes -> 0 .. MaxConnections]
    /\ dporPeers \in SUBSET Nodes
    /\ drop = NoDrop \/ drop \in [node : Nodes, conn : 1 .. MaxConnections]
    /\ crossed \in BOOLEAN

\* What is known of a node from where its session is.
Follows(n) ==
    /\ peers[n] # 0 => session[n].pc \in Served /\ session[n].conn = peers[n]
    /\ session[n].pc # "out" => session[n].conn # 0
    /\ session[n].pc \in {"registered", "loop"} /\ session[n].up /\ ~crossed => peers[n] # 0
    /\ n \in dporPeers <=> session[n].dpor /\ session[n].pc \in {"loop", "leaving"}
    /\ session[n].dpor => session[n].pc \in {"loop", "leaving", "remove", "done"}
    /\ pm.stop = "stopped" => session[n].pc \notin Served

\* The sessions between wg.Add and wg.Done.
Running == {n \in Nodes : session[n].pc \in Inside}
LoopsOf(p) == {<<n, p[n]>> : n \in {m \in Nodes : p[m] # 0}}

Accounts ==
    /\ pm.wg = Cardinality(Running)
    /\ loops = LoopsOf(peers)
    /\ pm.stop \in {"wait", "stopped"} => pm.closed

SessInv == SessTypes /\ Accounts /\ \A n \in Nodes : Follows(n)

-----------------------------------------------------------------------------
\* A registration adds one broadcast loop.
LEMMA LoopAdded ==
    ASSUME NEW p, NEW q, NEW n \in Nodes, p[n] = 0, q[n] # 0, \A m \in Nodes \ {n} : q[m] = p[m]
    PROVE  LoopsOf(q) = LoopsOf(p) \cup {<<n, q[n]>>}
<1>1. \A m \in Nodes : p[m] # 0 => m # n /\ q[m] = p[m]
  OBVIOUS
<1>2. ASSUME NEW x \in LoopsOf(q) PROVE x \in LoopsOf(p) \cup {<<n, q[n]>>}
  <2>1. PICK m \in Nodes : q[m] # 0 /\ x = <<m, q[m]>>
    BY <1>2 DEF LoopsOf
  <2> QED
    BY <2>1 DEF LoopsOf
<1>3. ASSUME NEW x \in LoopsOf(p) \cup {<<n, q[n]>>} PROVE x \in LoopsOf(q)
  <2>1. CASE x \in LoopsOf(p)
    BY <1>1, <2>1 DEF LoopsOf
  <2>2. CASE x = <<n, q[n]>>
    BY <2>2 DEF LoopsOf
  <2> QED
    BY <1>3, <2>1, <2>2
<1> QED
  BY <1>2, <1>3

\* A removal takes the loop of the registered connection out, if there is one.
LEMMA LoopRemoved ==
    ASSUME NEW p \in [Nodes -> 0 .. MaxConnections], NEW n \in Nodes,
           NEW q, q = [p EXCEPT ![n] = 0]
    PROVE  LoopsOf(q) = LoopsOf(p) \ {<<n, p[n]>>}
<1>2. q[n] = 0 /\ \A m \in Nodes \ {n} : q[m] = p[m]
  OBVIOUS
<1>3. ASSUME NEW x \in LoopsOf(q) PROVE x \in LoopsOf(p) \ {<<n, p[n]>>}
  <2>1. PICK m \in Nodes : q[m] # 0 /\ x = <<m, q[m]>>
    BY <1>3 DEF LoopsOf
  <2>2. m # n /\ p[m] = q[m]
    BY <1>2, <2>1
  <2> QED
    BY <2>1, <2>2 DEF LoopsOf
<1>4. ASSUME NEW x \in LoopsOf(p) \ {<<n, p[n]>>} PROVE x \in LoopsOf(q)
  <2>1. PICK m \in Nodes : p[m] # 0 /\ x = <<m, p[m]>>
    BY <1>4 DEF LoopsOf
  <2>2. m # n /\ p[m] = q[m]
    BY <1>2, <1>4, <2>1
  <2> QED
    BY <2>1, <2>2 DEF LoopsOf
<1> QED
  BY <1>3, <1>4

\* No session has begun, nobody is registered.
LEMMA SessInitially == SessInit => SessInv
<1> SUFFICES ASSUME SessInit PROVE SessInv
  OBVIOUS
<1>1. SessTypes
  <2>1. pm \in Managers
    <3>1. PICK r \in Roles : pm = [role |-> r, accepting |-> TRUE, quit |-> FALSE, closed |-> FALSE, stop |-> "no", wg |-> 0]
      BY DEF SessInit
    <3> QED
      BY <3>1 DEF Managers, Stops
  <2>2. session \in [Nodes -> SessionRecords]
    <3>1. Out \in SessionRecords
      BY SessionAssumption DEF Out, Pcs, SessionRecords
    <3> QED
      BY <3>1 DEF SessInit
  <2>3. peers \in [Nodes -> 0 .. MaxConnections]
    BY SessionAssumption DEF SessInit
  <2> QED
    BY <2>1, <2>2, <2>3 DEF SessInit, SessTypes
<1>2. pm.wg = 0 /\ pm.stop = "no"
  BY DEF SessInit
<1>3. Running = {}
  BY DEF SessInit, Running, Inside, Out
<1>4. LoopsOf(peers) = {}
  BY DEF SessInit, LoopsOf
<1>5. Accounts
  BY <1>2, <1>3, <1>4, FS_EmptySet DEF SessInit, Accounts
<1>6. \A n \in Nodes : Follows(n)
  BY <1>2 DEF SessInit, Out, Follows
<1> QED
  BY <1>1, <1>5, <1>6 DEF SessInv

-----------------------------------------------------------------------------
\* A step of the goroutine of node n: of the other nodes it changes nothing.
Only(n) ==
    /\ \A m \in Nodes \ {n} : session'[m] = session[m] /\ peers'[m] = peers[m] /\ (m \in dporPeers' <=> m \in dporPeers)
    /\ crossed' = crossed /\ drop' = drop
    /\ pm'.stop = pm.stop /\ pm'.closed = pm.closed

\* It keeps the invariant if it does so for n, and accounts for wg and the loops.
LEMMA OnlyKeeps ==
    ASSUME SessInv, NEW n \in Nodes, Only(n), SessTypes', Follows(n)',
           pm'.wg = Cardinality(Running'), loops' = LoopsOf(peers')
    PROVE  SessInv'
<1>1. ASSUME NEW m \in Nodes \ {n} PROVE Follows(m)'
  <2>1. Follows(m)
    BY DEF SessInv
  <2> QED
    BY <2>1 DEF Only, Follows
<1>2. Accounts'
  BY DEF SessInv, Accounts, Only
<1> QED
  BY <1>1, <1>2 DEF SessInv

\* A goroutine that goes from one place to another changes nothing else of its session.
LEMMA GoesOnly ==
    ASSUME session \in [Nodes -> SessionRecords], NEW n \in Nodes, NEW pc \in Pcs, Goes(n, pc)
    PROVE  /\ session' \in [Nodes -> SessionRecords]
           /\ session'[n].pc = pc /\ session'[n].conn = session[n].conn /\ session'[n].up = session[n].up
           /\ session'[n].dpor = session[n].dpor
           /\ \A m \in Nodes \ {n} : session'[m] = session[m]
<1>1. session[n] \in SessionRecords
  OBVIOUS
<1>2. PICK r : r = [session[n] EXCEPT !.pc = pc]
  OBVIOUS
<1>3. /\ r \in SessionRecords /\ r.pc = pc /\ r.conn = session[n].conn /\ r.up = session[n].up
      /\ r.dpor = session[n].dpor
  BY <1>1, <1>2 DEF SessionRecords
<1>4. session' = [session EXCEPT ![n] = r]
  BY <1>2 DEF Goes
<1> QED
  BY <1>3, <1>4

\* The sessions that count for wg stay the same if the node stays inside or outside.
LEMMA SameRunning ==
    ASSUME NEW n \in Nodes, \A m \in Nodes \ {n} : session'[m] = session[m],
           session'[n].pc \in Inside <=> session[n].pc \in Inside
    PROVE  Running' = Running
BY DEF Running

\* handlePeer begins; the connection is a new one.
LEMMA HandlePeerKeeps ==
    ASSUME SessInv, NEW n \in Nodes, HandlePeer(n)
    PROVE  SessInv'
<1>1. SessTypes /\ Accounts /\ Follows(n) /\ session[n] \in SessionRecords
  BY DEF SessInv, SessTypes
<1>2. PICK r : r = [pc |-> "begin", conn |-> session[n].conn + 1, up |-> TRUE,
                    signs |-> pm.role # "civilian", dpor |-> FALSE]
  OBVIOUS
<1>3. session' = [session EXCEPT ![n] = r]
  BY <1>2 DEF HandlePeer
<1>4. session[n].conn \in 0 .. MaxConnections /\ session[n].conn < MaxConnections /\ session[n].pc = "out"
  BY <1>1 DEF SessionRecords, HandlePeer, SessionAt
<1>5. r \in SessionRecords /\ r.conn # 0
  BY <1>2, <1>4, SessionAssumption DEF SessionRecords, Pcs
<1>6. /\ session' \in [Nodes -> SessionRecords] /\ session'[n] = r
      /\ \A m \in Nodes \ {n} : session'[m] = session[m]
  BY <1>1, <1>3, <1>5 DEF SessTypes
<1>7. UNCHANGED <<pm, peers, loops, dporPeers, drop, crossed>>
  BY DEF HandlePeer
<1>8. SessTypes'
  BY <1>1, <1>6, <1>7 DEF SessTypes
<1>9. Follows(n)'
  BY <1>1, <1>2, <1>4, <1>5, <1>6, <1>7 DEF Follows, Served
<1>10. Running' = Running
  BY <1>2, <1>4, <1>6, SameRunning DEF Inside
<1>11. Only(n)
  BY <1>6, <1>7 DEF Only
<1> QED
  BY <1>1, <1>7, <1>8, <1>9, <1>10, <1>11, OnlyKeeps DEF Accounts

\* The peer is taken by syncerLoop, or turned away while the node stops.
LEMMA OfferKeeps ==
    ASSUME SessInv, NEW n \in Nodes, Offer(n)
    PROVE  SessInv'
<1>1. SessTypes /\ Accounts /\ Follows(n) /\ session[n] \in SessionRecords /\ session[n].pc = "begin"
  BY DEF SessInv, SessTypes, Offer, SessionAt
<1>2. UNCHANGED <<pm, peers, loops, dporPeers, drop, crossed>>
  BY DEF Offer
<1>3. /\ session' \in [Nodes -> SessionRecords]
      /\ session'[n].pc \in {"accepted", "out"} /\ session'[n].conn = session[n].conn
      /\ session'[n].dpor = session[n].dpor
      /\ \A m \in Nodes \ {n} : session'[m] = session[m]
  <2>1. CASE Goes(n, "accepted")
    BY <1>1, <2>1, GoesOnly DEF Pcs, SessTypes
  <2>2. CASE session' = [session EXCEPT ![n].pc = "out", ![n].up = FALSE]
    <3>1. PICK r : r = [session[n] EXCEPT !.pc = "out", !.up = FALSE]
      OBVIOUS
    <3>2. r \in SessionRecords /\ r.pc = "out" /\ r.conn = session[n].conn /\ r.dpor = session[n].dpor
      BY <1>1, <3>1 DEF SessionRecords, Pcs
    <3>3. session' = [session EXCEPT ![n] = r]
      BY <1>1, <2>2, <3>1 DEF SessTypes
    <3> QED
      BY <1>1, <3>2, <3>3 DEF SessTypes
  <2> QED
    BY <2>1, <2>2 DEF Offer
<1>4. SessTypes'
  BY <1>1, <1>2, <1>3 DEF SessTypes
<1>5. Follows(n)'
  BY <1>1, <1>2, <1>3 DEF Follows, Served
<1>6. Running' = Running
  BY <1>1, <1>3, SameRunning DEF Inside
<1>7. Only(n)
  BY <1>2, <1>3 DEF Only
<1> QED
  BY <1>1, <1>2, <1>4, <1>5, <1>6, <1>7, OnlyKeeps DEF Accounts

\* wg.Add: the session is one of those counted from here on.
LEMMA AddPeerKeeps ==
    ASSUME SessInv, NEW n \in Nodes, AddPeer(n)
    PROVE  SessInv'
<1>1. SessTypes /\ Accounts /\ Follows(n) /\ session[n].pc = "accepted"
  BY DEF SessInv, AddPeer, SessionAt
<1>2. UNCHANGED <<peers, loops, dporPeers, drop, crossed>> /\ pm' = [pm EXCEPT !.wg = @ + 1]
  BY DEF AddPeer
<1>3. PICK to \in {"done", "handshake"} : Goes(n, to)
  BY DEF AddPeer
<1>4. /\ session' \in [Nodes -> SessionRecords]
      /\ session'[n].pc = to /\ session'[n].conn = session[n].conn /\ session'[n].up = session[n].up
      /\ session'[n].dpor = session[n].dpor
      /\ \A m \in Nodes \ {n} : session'[m] = session[m]
  BY <1>1, <1>3, GoesOnly DEF SessTypes, Pcs, Inside
<1>5. pm' \in Managers /\ pm'.wg = pm.wg + 1 /\ pm'.stop = pm.stop /\ pm'.closed = pm.closed
  BY <1>1, <1>2 DEF SessTypes, Managers
<1>6. SessTypes'
  BY <1>1, <1>2, <1>4, <1>5 DEF SessTypes
<1>7. Follows(n)'
  BY <1>1, <1>2, <1>4, <1>5 DEF Follows, Served
<1>8. pm'.wg = Cardinality(Running')
  <2>1. Running' = Running \cup {n} /\ n \notin Running
    BY <1>1, <1>4 DEF Running, Inside
  <2>2. IsFiniteSet(Running)
    BY SessionAssumption, FS_Subset DEF Running
  <2>3. Cardinality(Running \cup {n}) = Cardinality(Running) + 1
    BY <2>1, <2>2, FS_AddElement
  <2> QED
    BY <1>1, <1>5, <2>1, <2>3 DEF Accounts
<1>9. Only(n)
  BY <1>2, <1>4, <1>5 DEF Only
<1> QED
  BY <1>1, <1>2, <1>6, <1>7, <1>8, <1>9, OnlyKeeps DEF Accounts

\* A step from one place inside to another that touches neither the peer set nor the
\* consensus protocol: the handshake, an error in the message loop.
LEMMA MoveKeeps ==
    ASSUME SessInv, NEW n \in Nodes, NEW to \in {"register", "done", "leaving"}, Goes(n, to),
           \/ session[n].pc = "handshake" /\ to # "leaving"
           \/ session[n].pc = "register" /\ to = "done"
           \/ session[n].pc \in {"registered", "loop"} /\ to = "leaving",
           UNCHANGED <<pm, peers, loops, dporPeers, drop, crossed>>
    PROVE  SessInv'
<1>1. SessTypes /\ Accounts /\ Follows(n)
  BY DEF SessInv
<1>2. /\ session' \in [Nodes -> SessionRecords]
      /\ session'[n].pc = to /\ session'[n].conn = session[n].conn /\ session'[n].up = session[n].up
      /\ session'[n].dpor = session[n].dpor
      /\ \A m \in Nodes \ {n} : session'[m] = session[m]
  BY <1>1, GoesOnly DEF SessTypes, Pcs, Inside
<1>3. SessTypes'
  BY <1>1, <1>2 DEF SessTypes
<1>4. Follows(n)'
  BY <1>1, <1>2 DEF Follows, Served
<1>5. Running' = Running
  BY <1>2, SameRunning DEF Inside
<1>6. Only(n)
  BY <1>2 DEF Only
<1> QED
  BY <1>1, <1>3, <1>4, <1>5, <1>6, OnlyKeeps DEF Accounts

\* peerSet.Register: refused for a closed set or a second connection of the node.
LEMMA RegisterKeeps ==
    ASSUME SessInv, NEW n \in Nodes, Register(n)
    PROVE  SessInv'
<1>1. SessTypes /\ Accounts /\ Follows(n) /\ session[n].pc = "register" /\ session[n] \in SessionRecords
  BY DEF SessInv, SessTypes, Register, SessionAt
<1>2. UNCHANGED <<pm, dporPeers, drop, crossed>>
  BY DEF Register
<1>3. CASE Refused(n)
  <2>1. Goes(n, "done") /\ UNCHANGED <<peers, loops>>
    BY <1>3 DEF Register
  <2> QED
    BY <1>1, <1>2, <2>1, MoveKeeps
<1>4. CASE ~Refused(n)
  <2>1. /\ Goes(n, "registered") /\ peers' = [peers EXCEPT ![n] = session[n].conn]
        /\ loops' = loops \cup {<<n, session[n].conn>>}
    BY <1>4 DEF Register
  <2>2. peers[n] = 0 /\ ~pm.closed /\ session[n].conn \in 1 .. MaxConnections
    BY <1>1, <1>4, SessionAssumption DEF Refused, Follows, SessionRecords
  <2>3. /\ session' \in [Nodes -> SessionRecords]
        /\ session'[n].pc = "registered" /\ session'[n].conn = session[n].conn
        /\ session'[n].dpor = session[n].dpor
        /\ \A m \in Nodes \ {n} : session'[m] = session[m]
    BY <1>1, <2>1, GoesOnly DEF SessTypes, Pcs, Inside
  <2>4. /\ peers' \in [Nodes -> 0 .. MaxConnections] /\ peers'[n] = session[n].conn
        /\ \A m \in Nodes \ {n} : peers'[m] = peers[m]
    BY <1>1, <2>1, <2>2 DEF SessTypes
  <2>5. loops' = LoopsOf(peers')
    <3>1. LoopsOf(peers') = LoopsOf(peers) \cup {<<n, session[n].conn>>}
      BY <2>2, <2>4, LoopAdded
    <3> QED
      BY <1>1, <2>1, <3>1 DEF Accounts
  <2>6. SessTypes'
    BY <1>1, <1>2, <2>3, <2>4 DEF SessTypes
  <2>7. pm.stop # "stopped"
    BY <1>1, <2>2 DEF Accounts
  <2>8. Follows(n)'
    BY <1>1, <1>2, <2>2, <2>3, <2>4, <2>7 DEF Follows, Served
  <2>9. Running' = Running
    BY <1>1, <2>3, SameRunning DEF Inside
  <2>10. Only(n)
    BY <1>2, <2>3, <2>4 DEF Only
  <2> QED
    BY <1>1, <1>2, <2>5, <2>6, <2>8, <2>9, <2>10, OnlyKeeps DEF Accounts
<1> QED
  BY <1>3, <1>4

\* The peer is added to the consensus protocol, or not, and its messages are read.
LEMMA AddToDporKeeps ==
    ASSUME SessInv, NEW n \in Nodes, AddToDpor(n)
    PROVE  SessInv'
<1>1. /\ SessTypes /\ Accounts /\ Follows(n) /\ session[n].pc = "registered"
      /\ session[n] \in SessionRecords
  BY DEF SessInv, SessTypes, AddToDpor, SessionAt
<1>2. UNCHANGED <<pm, peers, loops, drop, crossed>>
  BY DEF AddToDpor
<1>3. CASE Goes(n, "leaving") /\ UNCHANGED dporPeers
  BY <1>1, <1>2, <1>3, MoveKeeps
<1>4. CASE \/ Goes(n, "loop") /\ UNCHANGED dporPeers
           \/ /\ session' = [session EXCEPT ![n].pc = "loop", ![n].dpor = TRUE]
              /\ dporPeers' = dporPeers \cup {n}
  <2>1. /\ session' \in [Nodes -> SessionRecords]
        /\ session'[n].pc = "loop" /\ session'[n].conn = session[n].conn /\ session'[n].up = session[n].up
        /\ \A m \in Nodes \ {n} : session'[m] = session[m]
        /\ \/ session'[n].dpor = session[n].dpor /\ dporPeers' = dporPeers
           \/ session'[n].dpor /\ dporPeers' = dporPeers \cup {n}
    <3>1. CASE Goes(n, "loop") /\ UNCHANGED dporPeers
      BY <1>1, <3>1, GoesOnly DEF SessTypes, Pcs, Inside
    <3>2. CASE /\ session' = [session EXCEPT ![n].pc = "loop", ![n].dpor = TRUE]
               /\ dporPeers' = dporPeers \cup {n}
      <4>1. PICK r : r = [session[n] EXCEPT !.pc = "loop", !.dpor = TRUE]
        OBVIOUS
      <4>2. r \in SessionRecords /\ r.pc = "loop" /\ r.conn = session[n].conn /\ r.up = session[n].up /\ r.dpor = TRUE
        BY <1>1, <4>1 DEF SessionRecords, Pcs, Inside
      <4>3. session' = [session EXCEPT ![n] = r]
        BY <1>1, <3>2, <4>1 DEF SessTypes
      <4> QED
        BY <1>1, <3>2, <4>2, <4>3 DEF SessTypes
    <3> QED
      BY <1>4, <3>1, <3>2
  <2>2. SessTypes'
    BY <1>1, <1>2, <2>1 DEF SessTypes
  <2>3. Follows(n)'
    BY <1>1, <1>2, <2>1 DEF Follows, Served
  <2>4. Running' = Running
    BY <1>1, <2>1, SameRunning DEF Inside
  <2>5. Only(n)
    BY <1>2, <2>1 DEF Only
  <2> QED
    BY <1>1, <1>2, <2>2, <2>3, <2>4, <2>5, OnlyKeeps DEF Accounts
<1> QED
  BY <1>3, <1>4 DEF AddToDpor

\* The connection is lost while messages are read.
LEMMA LoseKeeps ==
    ASSUME SessInv, NEW n \in Nodes, Lose(n)
    PROVE  SessInv'
<1>1. SessTypes /\ Accounts /\ Follows(n) /\ session[n].pc = "loop" /\ session[n] \in SessionRecords
  BY DEF SessInv, SessTypes, Lose, SessionAt
<1>2. UNCHANGED <<pm, peers, loops, dporPeers, drop, crossed>>
  BY DEF Lose
<1>3. PICK r : r = [session[n] EXCEPT !.up = FALSE]
  OBVIOUS
<1>4. /\ r \in SessionRecords /\ r.pc = session[n].pc /\ r.conn = session[n].conn /\ r.up = FALSE
      /\ r.dpor = session[n].dpor
  BY <1>1, <1>3 DEF SessionRecords
<1>5. session' = [session EXCEPT ![n] = r]
  BY <1>3 DEF Lose
<1>6. session' \in [Nodes -> SessionRecords] /\ session'[n] = r /\ \A m \in Nodes \ {n} : session'[m] = session[m]
  BY <1>1, <1>4, <1>5 DEF SessTypes
<1>7. SessTypes'
  BY <1>1, <1>2, <1>6 DEF SessTypes
<1>8. Follows(n)'
  BY <1>1, <1>2, <1>4, <1>6 DEF Follows
<1>9. Running' = Running
  BY <1>4, <1>6, SameRunning
<1>10. Only(n)
  BY <1>2, <1>6 DEF Only
<1> QED
  BY <1>1, <1>2, <1>7, <1>8, <1>9, <1>10, OnlyKeeps DEF Accounts

\* The deferred calls begin: the consensus protocol forgets the peer if it knows it.
LEMMA LeaveKeeps ==
    ASSUME SessInv, NEW n \in Nodes, Leave(n)
    PROVE  SessInv'
<1>1. SessTypes /\ Accounts /\ Follows(n) /\ session[n].pc = "leaving"
  BY DEF SessInv, Leave, SessionAt
<1>2. UNCHANGED <<pm, peers, loops, drop, crossed>> /\ Goes(n, "remove")
  BY DEF Leave
<1>3. dporPeers' = IF session[n].dpor THEN dporPeers \ {n} ELSE dporPeers
  BY DEF Leave, Forgotten
<1>4. /\ session' \in [Nodes -> SessionRecords]
      /\ session'[n].pc = "remove" /\ session'[n].conn = session[n].conn /\ session'[n].up = session[n].up
      /\ session'[n].dpor = session[n].dpor
      /\ \A m \in Nodes \ {n} : session'[m] = session[m]
  BY <1>1, <1>2, GoesOnly DEF SessTypes, Pcs, Inside
<1>5. SessTypes'
  BY <1>1, <1>2, <1>3, <1>4 DEF SessTypes
<1>6. Follows(n)'
  BY <1>1, <1>2, <1>3, <1>4 DEF Follows, Served
<1>7. Running' = Running
  BY <1>1, <1>4, SameRunning DEF Inside
<1>8. Only(n)
  BY <1>2, <1>3, <1>4 DEF Only
<1> QED
  BY <1>1, <1>2, <1>5, <1>6, <1>7, <1>8, OnlyKeeps DEF Accounts

\* What a removal by the node's id leaves of the peer set.
LEMMA PeerRemoved ==
    ASSUME SessInv, NEW n \in Nodes, peers' = [peers EXCEPT ![n] = 0], loops' = loops \ {<<n, peers[n]>>}
    PROVE  /\ peers' \in [Nodes -> 0 .. MaxConnections] /\ peers'[n] = 0
           /\ \A m \in Nodes \ {n} : peers'[m] = peers[m]
           /\ loops' = LoopsOf(peers')
<1>1. peers \in [Nodes -> 0 .. MaxConnections] /\ loops = LoopsOf(peers)
  BY DEF SessInv, SessTypes, Accounts
<1>2. LoopsOf(peers') = LoopsOf(peers) \ {<<n, peers[n]>>}
  BY <1>1, LoopRemoved
<1>3. loops' = LoopsOf(peers')
  BY <1>1, <1>2
<1>4. 0 \in 0 .. MaxConnections
  BY SessionAssumption
<1>5. peers' \in [Nodes -> 0 .. MaxConnections] /\ peers'[n] = 0 /\ \A m \in Nodes \ {n} : peers'[m] = peers[m]
  BY <1>1, <1>4
<1> QED
  BY <1>3, <1>5

\* removePeer at the end of the session.
LEMMA RemovePeerKeeps ==
    ASSUME SessInv, NEW n \in Nodes, RemovePeer(n)
    PROVE  SessInv'
<1>1. SessTypes /\ Accounts /\ Follows(n) /\ session[n].pc = "remove"
  BY DEF SessInv, RemovePeer, SessionAt
<1>2. UNCHANGED <<pm, dporPeers, drop, crossed>> /\ Goes(n, "done")
  BY DEF RemovePeer
<1>3. /\ peers' \in [Nodes -> 0 .. MaxConnections] /\ peers'[n] = 0
      /\ \A m \in Nodes \ {n} : peers'[m] = peers[m]
      /\ loops' = LoopsOf(peers')
  BY PeerRemoved DEF RemovePeer, Unregistered
<1>4. /\ session' \in [Nodes -> SessionRecords]
      /\ session'[n].pc = "done" /\ session'[n].conn = session[n].conn
      /\ session'[n].dpor = session[n].dpor
      /\ \A m \in Nodes \ {n} : session'[m] = session[m]
  BY <1>1, <1>2, GoesOnly DEF SessTypes, Pcs, Inside
<1>5. SessTypes'
  BY <1>1, <1>2, <1>3, <1>4 DEF SessTypes
<1>6. Follows(n)'
  BY <1>1, <1>2, <1>3, <1>4 DEF Follows, Served
<1>7. Running' = Running
  BY <1>1, <1>4, SameRunning DEF Inside
<1>8. Only(n)
  BY <1>2, <1>3, <1>4 DEF Only
<1> QED
  BY <1>1, <1>2, <1>3, <1>5, <1>6, <1>7, <1>8, OnlyKeeps DEF Accounts

\* wg.Done: the session is counted no more.
LEMMA SessionDoneKeeps ==
    ASSUME SessInv, NEW n \in Nodes, SessionDone(n)
    PROVE  SessInv'
<1>1. SessTypes /\ Accounts /\ Follows(n) /\ session[n].pc = "done" /\ session[n] \in SessionRecords
  BY DEF SessInv, SessTypes, SessionDone, SessionAt
<1>2. UNCHANGED <<peers, loops, dporPeers, drop, crossed>> /\ pm' = [pm EXCEPT !.wg = @ - 1]
  BY DEF SessionDone
<1>3. PICK r : r = [session[n] EXCEPT !.pc = "out", !.up = FALSE, !.dpor = FALSE]
  OBVIOUS
<1>4. r \in SessionRecords /\ r.pc = "out" /\ r.conn = session[n].conn /\ r.up = FALSE /\ r.dpor = FALSE
  BY <1>1, <1>3 DEF SessionRecords, Pcs
<1>5. session' = [session EXCEPT ![n] = r]
  BY <1>1, <1>3 DEF SessionDone, SessTypes
<1>6. session' \in [Nodes -> SessionRecords] /\ session'[n] = r /\ \A m \in Nodes \ {n} : session'[m] = session[m]
  BY <1>1, <1>4, <1>5 DEF SessTypes
<1>7. pm' \in Managers /\ pm'.wg = pm.wg - 1 /\ pm'.stop = pm.stop /\ pm'.closed = pm.closed
  BY <1>1, <1>2 DEF SessTypes, Managers
<1>8. SessTypes'
  BY <1>1, <1>2, <1>6, <1>7 DEF SessTypes
<1>9. Follows(n)'
  BY <1>1, <1>2, <1>4, <1>6, <1>7 DEF Follows, Served
<1>10. pm'.wg = Cardinality(Running')
  <2>1. Running' = Running \ {n} /\ n \in Running
    BY <1>1, <1>4, <1>6 DEF Running, Inside
  <2>2. IsFiniteSet(Running)
    BY SessionAssumption, FS_Subset DEF Running
  <2>3. Cardinality(Running \ {n}) = Cardinality(Running) - 1
    BY <2>1, <2>2, FS_RemoveElement
  <2> QED
    BY <1>1, <1>7, <2>1, <2>3 DEF Accounts
<1>11. Only(n)
  BY <1>2, <1>6, <1>7 DEF Only
<1> QED
  BY <1>1, <1>2, <1>8, <1>9, <1>10, <1>11, OnlyKeeps DEF Accounts

-----------------------------------------------------------------------------
\* Another goroutine looks a peer up.
LEMMA DropLookupKeeps ==
    ASSUME SessInv, NEW n \in Nodes, DropLookup(n)
    PROVE  SessInv'
<1>1. SessTypes /\ Accounts /\ \A m \in Nodes : Follows(m)
  BY DEF SessInv
<1>2. UNCHANGED <<pm, session, peers, loops, dporPeers, crossed>>
  BY DEF DropLookup
<1>3. peers[n] \in 1 .. MaxConnections
  BY <1>1, SessionAssumption DEF DropLookup, SessTypes
<1>4. drop' \in [node : Nodes, conn : 1 .. MaxConnections]
  BY <1>3 DEF DropLookup
<1>5. SessTypes'
  BY <1>1, <1>2, <1>4 DEF SessTypes
<1>6. Running' = Running
  BY <1>2 DEF Running
<1>7. Accounts'
  BY <1>1, <1>2, <1>6 DEF Accounts
<1>8. ASSUME NEW m \in Nodes PROVE Follows(m)'
  BY <1>1, <1>2 DEF Follows
<1> QED
  BY <1>5, <1>7, <1>8 DEF SessInv

\* It removes the node by its id.  If the node has come back with another connection
\* since, it is that one which loses its registration, and this is what crossed records.
LEMMA DropRemoveKeeps ==
    ASSUME SessInv, DropRemove
    PROVE  SessInv'
<1>1. SessTypes /\ Accounts /\ \A m \in Nodes : Follows(m)
  BY DEF SessInv
<1>2. PICK n \in Nodes, c \in 1 .. MaxConnections : drop.node = n /\ drop.conn = c
  BY <1>1 DEF DropRemove, SessTypes
<1>3. /\ UNCHANGED <<pm, dporPeers>> /\ drop' = NoDrop
      /\ session' = IF session[n].conn = c THEN [session EXCEPT ![n].up = FALSE] ELSE session
      /\ crossed' = (crossed \/ peers[n] \notin {0, c})
  BY <1>2 DEF DropRemove
<1>4. /\ peers' \in [Nodes -> 0 .. MaxConnections] /\ peers'[n] = 0
      /\ \A m \in Nodes \ {n} : peers'[m] = peers[m]
      /\ loops' = LoopsOf(peers')
  BY <1>2, PeerRemoved DEF DropRemove
<1>5. /\ session' \in [Nodes -> SessionRecords]
      /\ \A m \in Nodes : /\ session'[m].pc = session[m].pc /\ session'[m].conn = session[m].conn
                          /\ session'[m].dpor = session[m].dpor
                          /\ session'[m].up => session[m].up
      /\ session[n].conn = c => ~session'[n].up
  <2>1. session \in [Nodes -> SessionRecords] /\ session[n] \in SessionRecords
    BY <1>1 DEF SessTypes
  <2>2. CASE session[n].conn = c
    <3>1. PICK r : r = [session[n] EXCEPT !.up = FALSE]
      OBVIOUS
    <3>2. /\ r \in SessionRecords /\ r.pc = session[n].pc /\ r.conn = session[n].conn /\ r.up = FALSE
          /\ r.dpor = session[n].dpor
      BY <2>1, <3>1 DEF SessionRecords
    <3>3. session' = [session EXCEPT ![n] = r]
      BY <1>3, <2>2, <3>1
    <3>4. session' \in [Nodes -> SessionRecords] /\ session'[n] = r /\ \A m \in Nodes \ {n} : session'[m] = session[m]
      BY <2>1, <3>2, <3>3
    <3> QED
      BY <3>2, <3>4
  <2>3. CASE session[n].conn # c
    BY <1>3, <2>1, <2>3
  <2> QED
    BY <2>2, <2>3
<1>6. SessTypes'
  BY <1>1, <1>3, <1>4, <1>5 DEF SessTypes
<1>7. Running' = Running
  BY <1>5 DEF Running
<1>8. Accounts'
  BY <1>1, <1>3, <1>4, <1>7 DEF Accounts
<1>9. Follows(n)'
  <2>1. Follows(n)
    BY <1>1
  <2>2. ~crossed' => ~crossed /\ (peers[n] = 0 \/ peers[n] = c)
    BY <1>3
  <2>3. session'[n].pc \in {"registered", "loop"} /\ session'[n].up /\ ~crossed' => peers'[n] # 0
    BY <1>5, <2>1, <2>2 DEF Follows
  <2> QED
    BY <1>3, <1>4, <1>5, <2>1, <2>3 DEF Follows
<1>10. ASSUME NEW m \in Nodes \ {n} PROVE Follows(m)'
  <2>1. Follows(m)
    BY <1>1
  <2>2. crossed \in BOOLEAN /\ (~crossed' => ~crossed)
    BY <1>1, <1>3 DEF SessTypes
  <2> QED
    BY <1>3, <1>4, <1>5, <2>1, <2>2 DEF Follows
<1> QED
  BY <1>6, <1>8, <1>9, <1>10 DEF SessInv

\* Stop up to its wait: it turns new peers away and closes the connections.
LEMMA StopKeeps ==
    ASSUME SessInv, StopBegin \/ NoMorePeers \/ QuitSync
    PROVE  SessInv'
<1>1. SessTypes /\ Accounts /\ \A m \in Nodes : Follows(m)
  BY DEF SessInv
<1>2. UNCHANGED <<session, peers, loops, dporPeers, drop, crossed>>
  BY DEF StopBegin, NoMorePeers, QuitSync
<1>3. /\ pm' \in Managers /\ pm'.wg = pm.wg /\ pm'.closed = pm.closed
      /\ pm'.stop \in {"noMorePeers", "quitSync", "close"}
  BY <1>1 DEF StopBegin, NoMorePeers, QuitSync, SessTypes, Managers, Stops
<1>4. SessTypes'
  BY <1>1, <1>2, <1>3 DEF SessTypes
<1>5. Running' = Running
  BY <1>2 DEF Running
<1>6. Accounts'
  BY <1>1, <1>2, <1>3, <1>5 DEF Accounts
<1>7. ASSUME NEW m \in Nodes PROVE Follows(m)'
  BY <1>1, <1>2, <1>3 DEF Follows
<1> QED
  BY <1>4, <1>6, <1>7 DEF SessInv

\* peerSet.Close: every registered peer is disconnected and no more are registered.
LEMMA ClosePeersKeeps ==
    ASSUME SessInv, ClosePeers
    PROVE  SessInv'
<1>1. SessTypes /\ Accounts /\ \A m \in Nodes : Follows(m)
  BY DEF SessInv
<1>2. UNCHANGED <<peers, loops, dporPeers, drop, crossed>>
  BY DEF ClosePeers
<1>3. pm' \in Managers /\ pm'.wg = pm.wg /\ pm'.closed = TRUE /\ pm'.stop = "wait"
  BY <1>1 DEF ClosePeers, SessTypes, Managers, Stops
<1>4. ASSUME NEW m \in Nodes
      PROVE  /\ session'[m] \in SessionRecords /\ session'[m].pc = session[m].pc
             /\ session'[m].conn = session[m].conn /\ session'[m].dpor = session[m].dpor
             /\ session'[m].up => session[m].up
  <2>1. session[m] \in SessionRecords
    BY <1>1 DEF SessTypes
  <2>2. session'[m] = IF peers[m] # 0 THEN [session[m] EXCEPT !.up = FALSE] ELSE session[m]
    BY DEF ClosePeers, Disconnected
  <2> QED
    BY <2>1, <2>2 DEF SessionRecords
<1>5. session' \in [Nodes -> SessionRecords]
  BY <1>4 DEF ClosePeers, Disconnected
<1>6. SessTypes'
  BY <1>1, <1>2, <1>3, <1>5 DEF SessTypes
<1>7. Running' = Running
  BY <1>4 DEF Running
<1>8. Accounts'
  BY <1>1, <1>2, <1>3, <1>7 DEF Accounts
<1>9. ASSUME NEW m \in Nodes PROVE Follows(m)'
  BY <1>1, <1>2, <1>3, <1>4 DEF Follows
<1> QED
  BY <1>6, <1>8, <1>9 DEF SessInv

\* The wait ends when wg is 0: no session is between wg.Add and wg.Done.
LEMMA WaitKeeps ==
    ASSUME SessInv, Wait
    PROVE  SessInv'
<1>1. SessTypes /\ Accounts /\ \A m \in Nodes : Follows(m)
  BY DEF SessInv
<1>2. UNCHANGED <<session, peers, loops, dporPeers, drop, crossed>>
  BY DEF Wait
<1>3. pm' \in Managers /\ pm'.wg = pm.wg /\ pm'.closed = pm.closed /\ pm'.stop = "stopped" /\ pm.closed
  BY <1>1 DEF Wait, SessTypes, Managers, Stops, Accounts
<1>4. Running = {}
  <2>1. IsFiniteSet(Running)
    BY SessionAssumption, FS_Subset DEF Running
  <2>2. Cardinality(Running) = 0
    BY <1>1 DEF Accounts, Wait
  <2> QED
    BY <2>1, <2>2, FS_EmptySet
<1>5. \A m \in Nodes : session[m].pc \notin Served
  BY <1>4 DEF Running, Inside, Served
<1>6. SessTypes'
  BY <1>1, <1>2, <1>3 DEF SessTypes
<1>7. Running' = Running
  BY <1>2 DEF Running
<1>8. Accounts'
  BY <1>1, <1>2, <1>3, <1>7 DEF Accounts
<1>9. ASSUME NEW m \in Nodes PROVE Follows(m)'
  BY <1>1, <1>2, <1>3, <1>5 DEF Follows
<1> QED
  BY <1>6, <1>8, <1>9 DEF SessInv

\* The invariant is inductive: one case for each action.
LEMMA SessStep == SessInv /\ [SessNext]_sessVars => SessInv'
<1> SUFFICES ASSUME SessInv, [SessNext]_sessVars PROVE SessInv'
  OBVIOUS
<1>1. ASSUME NEW n \in Nodes, SessionStep(n) PROVE SessInv'
  <2>1. CASE Handshake(n)
    <3>1. session[n].pc = "handshake" /\ (Goes(n, "register") \/ Goes(n, "done"))
      BY <2>1 DEF Handshake, SessionAt
    <3> QED
      BY <2>1, <3>1, MoveKeeps DEF Handshake
  <2> QED
    BY <1>1, <2>1, OfferKeeps, AddPeerKeeps, RegisterKeeps, AddToDporKeeps, LeaveKeeps, RemovePeerKeeps,
       SessionDoneKeeps DEF SessionStep
<1>2. ASSUME NEW n \in Nodes, Fail(n) PROVE SessInv'
  BY <1>2, MoveKeeps DEF Fail, SessionAt
<1>3. ASSUME NEW n \in Nodes, HandlePeer(n) \/ Lose(n) \/ DropLookup(n) PROVE SessInv'
  BY <1>3, HandlePeerKeeps, LoseKeeps, DropLookupKeeps
<1>4. CASE DropRemove \/ StopBegin \/ StopStep
  BY <1>4, DropRemoveKeeps, StopKeeps, ClosePeersKeeps, WaitKeeps DEF StopStep
<1>5. CASE UNCHANGED sessVars
  <2>1. SessTypes /\ Accounts /\ \A m \in Nodes : Follows(m)
    BY DEF SessInv
  <2>2. UNCHANGED <<pm, session, peers, loops, dporPeers, drop, crossed>>
    BY <1>5 DEF sessVars
  <2>3. SessTypes' /\ Running' = Running
    BY <2>1, <2>2 DEF SessTypes, Running
  <2>4. Accounts'
    BY <2>1, <2>2, <2>3 DEF Accounts
  <2>5. ASSUME NEW m \in Nodes PROVE Follows(m)'
    BY <2>1, <2>2 DEF Follows
  <2> QED
    BY <2>3, <2>4, <2>5 DEF SessInv
<1> QED
  BY <1>1, <1>2, <1>3, <1>4, <1>5 DEF SessNext

\* The inductive invariant holds whatever peers, fetcher, syncer and Stop do.
THEOREM SessionInvariant == SessSpec => []SessInv
<1>1. SessInit => SessInv
  BY SessInitially
<1>2. SessInv /\ [SessNext]_sessVars => SessInv'
  BY SessStep
<1> QED
  BY <1>1, <1>2, PTL DEF SessSpec

\* wg counts the running sessions exactly, so that Stop waits for all of them and for
\* nothing else; and every broadcast loop is that of a registered connection.
THEOREM SessionsCounted == SessSpec => []SessTypeOK
<1>1. SessInv => SessTypeOK
  BY DEF SessInv, SessTypes, Accounts, Running, LoopsOf, Registered, SessTypeOK
<1> QED
  BY <1>1, SessionInvariant, PTL

\* A registered peer has the running session that will remove it, and the consensus
\* protocol knows a peer exactly while its session is between its two calls.
THEOREM RegisteredPeersServed == SessSpec => []PeersHaveSessions
<1>1. ASSUME SessInv, NEW n \in Nodes
      PROVE  /\ peers[n] # 0 => session[n].pc \in {"registered", "loop", "leaving", "remove"} /\ session[n].conn = peers[n]
             /\ session[n].pc = "loop" /\ session[n].up /\ ~crossed => peers[n] # 0
             /\ n \in dporPeers <=> session[n].dpor /\ session[n].pc \in {"loop", "leaving"}
  BY <1>1 DEF SessInv, Follows, Served
<1>2. SessInv => PeersHaveSessions
  BY <1>1, Zenon DEF PeersHaveSessions
<1> QED
  BY <1>2, SessionInvariant, PTL

\* When Stop has returned, no peer is registered anywhere, and no loop runs.
THEOREM NoPeersAfterStop == SessSpec => []StoppedMeansNoPeers
<1>1. ASSUME SessInv, pm.stop = "stopped" PROVE Registered = {} /\ dporPeers = {} /\ loops = {}
  <2>1. \A n \in Nodes : peers[n] = 0 /\ n \notin dporPeers
    BY <1>1 DEF SessInv, Follows, Served
  <2>2. Registered = {} /\ dporPeers = {}
    BY <1>1, <2>1 DEF SessInv, SessTypes, Registered
  <2>3. loops = {}
    BY <1>1, <2>1 DEF SessInv, Accounts, LoopsOf
  <2> QED
    BY <2>2, <2>3
<1>2. SessInv => StoppedMeansNoPeers
  BY <1>1 DEF StoppedMeansNoPeers
<1> QED
  BY <1>2, SessionInvariant, PTL

=============================================================================
