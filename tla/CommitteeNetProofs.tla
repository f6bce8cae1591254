------------------------- MODULE CommitteeNetProofs -------------------------
(***************************************************************************)
(* Proofs about the peers of the committee a node knows, for every number  *)
(* of remote nodes, records, connections and messages.  The invariant says *)
(* what the dialer's caches and records owe to the loop of a peer: a       *)
(* signer in its loop is in one of the caches, and a cached record is the  *)
(* node's own and has a loop if it is of the connection now open.          *)
(***************************************************************************)
EXTENDS CommitteeNet, SequenceTheorems, TLAPS

RecordType == [node : Remotes, conn : Nat, queue : [Kinds -> Seq(Messages)], loops : Nat]
BroadcastType(k) == [msg : Messages, stage : {"wait", "send"}, targets : SUBSET (1 .. k)]

\* Types, in the form that is kept by each step.
NetTypes ==
    /\ conn \in [Remotes -> Nat]
    /\ peerLoop \in [Remotes -> {"down", "handshake", "loop"}]
    /\ ending \in SUBSET Remotes
    /\ id \in [Remotes -> Remotes \cup {NoId, Zero}]
    /\ removeId \in [Remotes -> Remotes \cup {NoId}]
    /\ proposers \in [Remotes -> Nat]
    /\ validators \in [Remotes -> Nat]
    /\ records \in Seq(RecordType)
    /\ \A b \in broadcasts : b \in BroadcastType(Len(records))

\* The goroutine of a peer removes the peer itself or nothing, and while it is in
\* its loop as a signer it has its id and is in one of the caches.
PeerSound(n) ==
    /\ peerLoop[n] # "down" => conn[n] # 0
    /\ peerLoop[n] = "down" => n \notin ending
    /\ removeId[n] \in {n, NoId}
    /\ peerLoop[n] = "loop" /\ removeId[n] = n => id[n] = n /\ (proposers[n] # 0 \/ validators[n] # 0)

\* A cached record is the node's own, and has a loop if it is of the connection now open.
CacheSound(n) ==
    validators[n] # 0 =>
        /\ validators[n] \in 1 .. Len(records)
        /\ records[validators[n]].node = n
        /\ Connected(n, records[validators[n]].conn) => records[validators[n]].loops > 0

\* No record is of a connection yet to come, and no queue is over its limit.
RecordSound(r) ==
    /\ records[r].conn <= conn[records[r].node]
    /\ \A k \in Kinds : Len(records[r].queue[k]) <= QueueSize

CommitteeInv ==
    /\ NetTypes
    /\ \A n \in Remotes : PeerSound(n) /\ CacheSound(n)
    /\ \A r \in 1 .. Len(records) : RecordSound(r)

-----------------------------------------------------------------------------
\* The state before the first connection satisfies the invariant.
LEMMA NetInitially == NetInit => CommitteeInv
<1> SUFFICES ASSUME NetInit PROVE CommitteeInv
  OBVIOUS
<1>1. records \in Seq(RecordType) /\ Len(records) = 0
  BY EmptySeq DEF NetInit
<1>2. NetTypes
  BY <1>1 DEF NetInit, NetTypes
<1>3. ASSUME NEW n \in Remotes PROVE PeerSound(n) /\ CacheSound(n)
  BY <1>1 DEF NetInit, PeerSound, CacheSound
<1>4. \A r \in 1 .. Len(records) : RecordSound(r)
  BY <1>1
<1> QED
  BY <1>2, <1>3, <1>4 DEF CommitteeInv

\* What the other variables mean does not change when the peers' goroutines, the caches and
\* the records are as they were.
LEMMA SameCommittee ==
    ASSUME CommitteeInv, UNCHANGED <<conn, peerLoop, ending, id, removeId, proposers, validators, records>>,
           \A b \in broadcasts' : b \in BroadcastType(Len(records))
    PROVE  CommitteeInv'
<1>1. NetTypes'
  BY DEF CommitteeInv, NetTypes
<1>2. ASSUME NEW n \in Remotes PROVE PeerSound(n)' /\ CacheSound(n)'
  BY DEF CommitteeInv, PeerSound, CacheSound, Connected
<1>3. ASSUME NEW r \in 1 .. Len(records') PROVE RecordSound(r)'
  BY DEF CommitteeInv, RecordSound
<1> QED
  BY <1>1, <1>2, <1>3 DEF CommitteeInv

\* A node that dials or is dialled gets a number of its own for the connection, so that no
\* record is taken for one of it.
LEMMA ConnectKeeps == ASSUME CommitteeInv, NEW n \in Remotes, Connect(n) PROVE CommitteeInv'
<1>1. NetTypes /\ (\A m \in Remotes : PeerSound(m) /\ CacheSound(m)) /\ (\A r \in 1 .. Len(records) : RecordSound(r))
  BY DEF CommitteeInv
<1>2. /\ conn' \in [Remotes -> Nat] /\ conn'[n] = conn[n] + 1 /\ conn[n] \in Nat
      /\ \A m \in Remotes \ {n} : conn'[m] = conn[m] /\ peerLoop'[m] = peerLoop[m]
      /\ \A m \in Remotes : conn[m] \in Nat /\ conn[m] <= conn'[m]
      /\ peerLoop' \in [Remotes -> {"down", "handshake", "loop"}] /\ peerLoop'[n] = "handshake"
      /\ UNCHANGED <<ending, id, removeId, proposers, validators, records, broadcasts>>
  BY <1>1 DEF NetTypes, Connect, dialer
<1>3. NetTypes'
  BY <1>1, <1>2 DEF NetTypes
<1>4. ASSUME NEW m \in Remotes PROVE PeerSound(m)' /\ CacheSound(m)'
  <2>1. CASE m = n
    <3>1. PeerSound(n)'
      BY <1>1, <1>2 DEF PeerSound
    <3>2. validators[n] # 0 => records[validators[n]].conn <= conn[n] /\ records[validators[n]].conn \in Nat
      <4> SUFFICES ASSUME validators[n] # 0
                   PROVE records[validators[n]].conn <= conn[n] /\ records[validators[n]].conn \in Nat
        OBVIOUS
      <4>1. validators[n] \in 1 .. Len(records) /\ records[validators[n]].node = n
        BY <1>1 DEF CacheSound
      <4>2. records[validators[n]] \in RecordType
        BY <1>1, <4>1, ElementOfSeq DEF NetTypes
      <4> QED
        BY <1>1, <4>1, <4>2 DEF RecordSound, RecordType
    <3>3. CacheSound(n)'
      BY <1>1, <1>2, <3>2 DEF CacheSound, Connected
    <3> QED
      BY <2>1, <3>1, <3>3
  <2>2. CASE m # n
    BY <1>1, <1>2, <2>2 DEF PeerSound, CacheSound, Connected
  <2> QED
    BY <2>1, <2>2
<1>5. ASSUME NEW r \in 1 .. Len(records') PROVE RecordSound(r)'
  <2>1. r \in 1 .. Len(records) /\ records[r] \in RecordType
    BY <1>1, <1>2, ElementOfSeq DEF NetTypes
  <2>2. records[r].node \in Remotes /\ records[r].conn \in Nat
    BY <2>1 DEF RecordType
  <2> QED
    BY <1>1, <1>2, <2>1, <2>2 DEF RecordSound
<1> QED
  BY <1>3, <1>4, <1>5 DEF CommitteeInv

\* addRemoteValidator caches a record for the node that has a loop, new or used again, and
\* leaves the records of the other nodes alone.
LEMMA ValidatorAdded ==
    ASSUME CommitteeInv, NEW n \in Remotes, NEW v, addRemoteValidator(n, v), conn' = conn,
           \A m \in Remotes : peerLoop'[m] = "down" <=> peerLoop[m] = "down"
    PROVE  /\ records' \in Seq(RecordType) /\ Len(records) <= Len(records')
           /\ validators' \in [Remotes -> Nat]
           /\ v => validators'[n] # 0
           /\ \A m \in Remotes : (validators[m] # 0 => validators'[m] # 0) /\ CacheSound(m)'
           /\ \A r \in 1 .. Len(records') : RecordSound(r)'
<1>1. NetTypes /\ (\A m \in Remotes : PeerSound(m) /\ CacheSound(m)) /\ (\A r \in 1 .. Len(records) : RecordSound(r))
  BY DEF CommitteeInv
<1>2. Len(records) \in Nat /\ records \in Seq(RecordType) /\ validators \in [Remotes -> Nat] /\ conn \in [Remotes -> Nat]
  BY <1>1, LenProperties DEF NetTypes
<1>3. \A r \in 1 .. Len(records) : records[r] \in RecordType
  BY <1>2, ElementOfSeq
<1>4. CASE ~v
  <2>1. UNCHANGED <<validators, records>>
    BY <1>4 DEF addRemoteValidator
  <2>2. ASSUME NEW m \in Remotes PROVE CacheSound(m)'
    BY <1>1, <2>1 DEF CacheSound, Connected
  <2>3. ASSUME NEW r \in 1 .. Len(records') PROVE RecordSound(r)'
    BY <1>1, <2>1 DEF RecordSound
  <2> QED
    BY <1>2, <1>4, <2>1, <2>2, <2>3
<1>5. CASE v /\ validators[n] # 0
  <2>1. PICK i \in 1 .. Len(records) : i = validators[n] /\ records[i].node = n
    BY <1>1, <1>5 DEF CacheSound
  <2>2. records[i] \in RecordType
    BY <1>3
  <2>3. PICK e : e = [[records[i] EXCEPT !.conn = conn[n]] EXCEPT !.loops = records[i].loops + 1]
    OBVIOUS
  <2>4. /\ e \in RecordType /\ e.node = n /\ e.conn = conn[n] /\ e.queue = records[i].queue
        /\ e.loops > 0
    <3>1. conn[n] \in Nat /\ records[i].loops + 1 \in Nat /\ records[i].loops + 1 > 0
      <4>1. records[i].loops \in Nat
        BY <2>2 DEF RecordType
      <4> QED
        BY <1>2, <4>1
    <3>2. e.loops = records[i].loops + 1 /\ e.conn = conn[n] /\ e.node = records[i].node /\ e.queue = records[i].queue
      BY <2>2, <2>3 DEF RecordType
    <3>3. e \in RecordType
      BY <2>2, <2>3, <3>1 DEF RecordType
    <3> QED
      BY <2>1, <3>1, <3>2, <3>3
  <2>5. validators' = validators /\ records' = [records EXCEPT ![i] = e]
    <3>1. records' = [records EXCEPT ![i].conn = conn[n], ![i].loops = @ + 1] /\ validators' = validators
      BY <1>5, <2>1 DEF addRemoteValidator
    <3> QED
      BY <1>2, <2>2, <2>3, <3>1, LenProperties DEF RecordType
  <2>6. /\ records' \in Seq(RecordType) /\ Len(records') = Len(records)
        /\ \A r \in 1 .. Len(records) : records'[r] = IF r = i THEN e ELSE records[r]
    BY <1>2, <2>4, <2>5, ExceptSeq
  <2>7. ASSUME NEW m \in Remotes PROVE CacheSound(m)'
    <3>1. CASE m = n
      BY <2>1, <2>4, <2>5, <2>6, <3>1 DEF CacheSound
    <3>2. CASE m # n
      <4>1. validators[m] # 0 => validators[m] # i /\ validators[m] \in 1 .. Len(records)
        BY <1>1, <2>1, <3>2 DEF CacheSound
      <4> QED
        BY <1>1, <2>5, <2>6, <4>1 DEF CacheSound, Connected
    <3> QED
      BY <3>1, <3>2
  <2>8. ASSUME NEW r \in 1 .. Len(records') PROVE RecordSound(r)'
    <3>1. CASE r = i
      BY <1>1, <1>2, <2>1, <2>4, <2>6, <3>1 DEF RecordSound
    <3>2. CASE r # i
      BY <1>1, <2>6, <3>2 DEF RecordSound
    <3> QED
      BY <3>1, <3>2
  <2> QED
    BY <1>2, <1>5, <2>5, <2>6, <2>7, <2>8
<1>6. CASE v /\ validators[n] = 0
  <2>1. PICK e : e = [node |-> n, conn |-> conn[n], queue |-> NoQueues, loops |-> 1]
    OBVIOUS
  <2>2. \A k \in Kinds : NoQueues[k] \in Seq(Messages) /\ Len(NoQueues[k]) = 0
    BY EmptySeq DEF NoQueues
  <2>3. NoQueues \in [Kinds -> Seq(Messages)]
    BY <2>2 DEF NoQueues
  <2>4. e \in RecordType /\ e.node = n /\ e.conn = conn[n] /\ e.loops > 0 /\ e.queue = NoQueues
    BY <1>2, <2>1, <2>3 DEF RecordType
  <2>5. records' = Append(records, e) /\ validators' = [validators EXCEPT ![n] = Len(records) + 1]
    BY <1>6, <2>1 DEF addRemoteValidator
  <2>6. /\ records' \in Seq(RecordType) /\ Len(records') = Len(records) + 1
        /\ records'[Len(records) + 1] = e
        /\ \A r \in 1 .. Len(records) : records'[r] = records[r]
    BY <1>2, <2>4, <2>5
  <2>7. /\ validators' \in [Remotes -> Nat] /\ validators'[n] = Len(records) + 1
        /\ \A m \in Remotes \ {n} : validators'[m] = validators[m]
    BY <1>2, <2>5
  <2>8. ASSUME NEW m \in Remotes PROVE CacheSound(m)'
    <3>1. CASE m = n
      BY <1>2, <2>4, <2>6, <2>7, <3>1 DEF CacheSound
    <3>2. CASE m # n
      <4>1. validators[m] # 0 => validators[m] \in 1 .. Len(records) /\ validators[m] \in 1 .. Len(records')
        BY <1>1, <1>2, <2>6 DEF CacheSound
      <4> QED
        BY <1>1, <2>6, <2>7, <3>2, <4>1 DEF CacheSound, Connected
    <3> QED
      BY <3>1, <3>2
  <2>9. ASSUME NEW r \in 1 .. Len(records') PROVE RecordSound(r)'
    <3>1. CASE r = Len(records) + 1
      <4>1. records'[r] = e
        BY <2>6, <3>1
      <4>2. \A k \in Kinds : Len(e.queue[k]) <= QueueSize
        BY <2>2, <2>4, QueueAssumption
      <4>3. e.conn <= conn'[e.node]
        <5>1. conn[n] \in Nat /\ conn' = conn
          BY <1>2
        <5> QED
          BY <2>4, <5>1
      <4> QED
        BY <4>1, <4>2, <4>3 DEF RecordSound
    <3>2. CASE r # Len(records) + 1
      <4>1. r \in 1 .. Len(records)
        BY <1>2, <2>6, <3>2
      <4> QED
        BY <1>1, <2>6, <4>1 DEF RecordSound
    <3> QED
      BY <3>1, <3>2
  <2> QED
    BY <1>2, <1>6, <2>6, <2>7, <2>8, <2>9
<1> QED
  BY <1>4, <1>5, <1>6

\* The broadcasts under way name records that exist, also when there are more of them.
LEMMA MoreRecords ==
    ASSUME NEW k \in Nat, NEW l \in Nat, k <= l, NEW b \in BroadcastType(k) PROVE b \in BroadcastType(l)
BY DEF BroadcastType

\* AddPeer: a peer taken for a signer is put in one of the caches, and is given its id.
LEMMA AddRemoteKeeps == ASSUME CommitteeInv, NEW n \in Remotes, AddRemote(n) PROVE CommitteeInv'
<1>1. NetTypes /\ (\A m \in Remotes : PeerSound(m) /\ CacheSound(m))
  BY DEF CommitteeInv
<1>2. PICK p, v : /\ p = isCurrentOrFutureProposer(n)
                  /\ v = (isDefaultValidator(n) \/ isCurrentOrFutureValidator(n))
  OBVIOUS
<1>3. PICK a : a = IF isCurrentOrFutureProposer(n) \/ isDefaultValidator(n) \/ isCurrentOrFutureValidator(n) THEN n ELSE NoId
  OBVIOUS
<1>4. /\ peerLoop[n] = "handshake" /\ peerLoop' = [peerLoop EXCEPT ![n] = "loop"]
      /\ addRemoteProposer(n, p) /\ addRemoteValidator(n, v)
      /\ id' = [id EXCEPT ![n] = a] /\ removeId' = [removeId EXCEPT ![n] = a]
      /\ UNCHANGED <<conn, ending, broadcasts>>
  BY <1>2, <1>3 DEF AddRemote
<1>5. a \in {n, NoId} /\ (a = n => p \/ v) /\ NoId # n
  BY <1>2, <1>3, NoIdAssumption
<1>6. /\ peerLoop' \in [Remotes -> {"down", "handshake", "loop"}]
      /\ id' \in [Remotes -> Remotes \cup {NoId, Zero}]
      /\ removeId' \in [Remotes -> Remotes \cup {NoId}]
      /\ id'[n] = a /\ removeId'[n] = a /\ peerLoop'[n] = "loop"
      /\ \A m \in Remotes \ {n} : peerLoop'[m] = peerLoop[m] /\ id'[m] = id[m] /\ removeId'[m] = removeId[m]
  BY <1>1, <1>4, <1>5 DEF NetTypes
<1>7. \A m \in Remotes : peerLoop'[m] = "down" <=> peerLoop[m] = "down"
  BY <1>4, <1>6
<1>8. /\ records' \in Seq(RecordType) /\ Len(records) <= Len(records')
      /\ validators' \in [Remotes -> Nat]
      /\ v => validators'[n] # 0
      /\ \A m \in Remotes : (validators[m] # 0 => validators'[m] # 0) /\ CacheSound(m)'
      /\ \A r \in 1 .. Len(records') : RecordSound(r)'
  BY <1>4, <1>7, ValidatorAdded
<1>9. /\ proposers' \in [Remotes -> Nat] /\ (p => proposers'[n] # 0)
      /\ \A m \in Remotes : proposers[m] # 0 => proposers'[m] # 0
  <2>1. conn[n] # 0 /\ conn[n] \in Nat /\ proposers \in [Remotes -> Nat]
    BY <1>1, <1>4 DEF PeerSound, NetTypes
  <2> QED
    BY <1>4, <2>1 DEF addRemoteProposer
<1>10. \A b \in broadcasts' : b \in BroadcastType(Len(records'))
  BY <1>1, <1>4, <1>8, MoreRecords, LenProperties DEF NetTypes
<1>11. NetTypes'
  BY <1>1, <1>4, <1>6, <1>8, <1>9, <1>10 DEF NetTypes
<1>12. ASSUME NEW m \in Remotes PROVE PeerSound(m)'
  <2>1. CASE m = n
    BY <1>1, <1>4, <1>5, <1>6, <1>8, <1>9, <2>1 DEF PeerSound
  <2>2. CASE m # n
    BY <1>1, <1>4, <1>6, <1>8, <1>9, <2>2 DEF PeerSound
  <2> QED
    BY <2>1, <2>2
<1> QED
  BY <1>8, <1>11, <1>12 DEF CommitteeInv

\* HandleMsg on a NewSignerMsg changes the id of a peer that is not known, which is none
\* that AddPeer took for a signer.
LEMMA NewSignerMsgKeeps == ASSUME CommitteeInv, NEW n \in Remotes, NewSignerMsg(n) PROVE CommitteeInv'
<1>1. NetTypes /\ (\A m \in Remotes : PeerSound(m) /\ CacheSound(m))
  BY DEF CommitteeInv
<1>2. PICK p, v : p = isCurrentOrFutureProposer(n) /\ v = isCurrentOrFutureValidator(n)
  OBVIOUS
<1>3. /\ peerLoop[n] = "loop" /\ ~Known(id[n])
      /\ addRemoteProposer(n, p) /\ addRemoteValidator(n, v)
      /\ id' = [id EXCEPT ![n] = n]
      /\ UNCHANGED <<conn, peerLoop, ending, removeId, broadcasts>>
  BY <1>2 DEF NewSignerMsg
<1>4. id' \in [Remotes -> Remotes \cup {NoId, Zero}] /\ id'[n] = n /\ \A m \in Remotes \ {n} : id'[m] = id[m]
  BY <1>1, <1>3 DEF NetTypes
<1>5. \A m \in Remotes : peerLoop'[m] = "down" <=> peerLoop[m] = "down"
  BY <1>3
<1>6. /\ records' \in Seq(RecordType) /\ Len(records) <= Len(records')
      /\ validators' \in [Remotes -> Nat]
      /\ \A m \in Remotes : (validators[m] # 0 => validators'[m] # 0) /\ CacheSound(m)'
      /\ \A r \in 1 .. Len(records') : RecordSound(r)'
  BY <1>3, <1>5, ValidatorAdded
<1>7. proposers' \in [Remotes -> Nat] /\ \A m \in Remotes : proposers[m] # 0 => proposers'[m] # 0
  <2>1. conn[n] # 0 /\ conn[n] \in Nat /\ proposers \in [Remotes -> Nat]
    BY <1>1, <1>3 DEF PeerSound, NetTypes
  <2> QED
    BY <1>3, <2>1 DEF addRemoteProposer
<1>8. \A b \in broadcasts' : b \in BroadcastType(Len(records'))
  BY <1>1, <1>3, <1>6, MoreRecords, LenProperties DEF NetTypes
<1>9. NetTypes'
  BY <1>1, <1>3, <1>4, <1>6, <1>7, <1>8 DEF NetTypes
<1>10. ASSUME NEW m \in Remotes PROVE PeerSound(m)'
  <2>1. CASE m = n
    <3>1. removeId[n] = n => FALSE
      BY <1>1, <1>3 DEF PeerSound, Known
    <3> QED
      BY <1>1, <1>3, <2>1, <3>1 DEF PeerSound
  <2>2. CASE m # n
    BY <1>1, <1>3, <1>4, <1>6, <1>7, <2>2 DEF PeerSound
  <2> QED
    BY <2>1, <2>2
<1> QED
  BY <1>6, <1>9, <1>10 DEF CommitteeInv

\* Any other message costs a peer its id only if the peer is not known.
LEMMA OtherMsgKeeps == ASSUME CommitteeInv, NEW n \in Remotes, OtherMsg(n) PROVE CommitteeInv'
<1>1. NetTypes /\ (\A m \in Remotes : PeerSound(m) /\ CacheSound(m)) /\ (\A r \in 1 .. Len(records) : RecordSound(r))
  BY DEF CommitteeInv
<1>2. /\ peerLoop[n] = "loop" /\ ~Known(id[n]) /\ id' = [id EXCEPT ![n] = Zero]
      /\ UNCHANGED <<conn, peerLoop, ending, removeId, proposers, validators, records, broadcasts>>
  BY DEF OtherMsg, dialer
<1>3. id' \in [Remotes -> Remotes \cup {NoId, Zero}] /\ \A m \in Remotes \ {n} : id'[m] = id[m]
  BY <1>1, <1>2 DEF NetTypes
<1>4. NetTypes'
  BY <1>1, <1>2, <1>3 DEF NetTypes
<1>5. ASSUME NEW m \in Remotes PROVE PeerSound(m)' /\ CacheSound(m)'
  <2>1. removeId[n] = n => FALSE
    BY <1>1, <1>2 DEF PeerSound, Known
  <2>2. PeerSound(m)'
    BY <1>1, <1>2, <1>3, <2>1 DEF PeerSound
  <2>3. CacheSound(m)'
    BY <1>1, <1>2 DEF CacheSound, Connected
  <2> QED
    BY <2>2, <2>3
<1>6. ASSUME NEW r \in 1 .. Len(records') PROVE RecordSound(r)'
  BY <1>1, <1>2 DEF RecordSound
<1> QED
  BY <1>4, <1>5, <1>6 DEF CommitteeInv

\* A peer that leaves takes itself out of the caches, if AddPeer had put it there, and no
\* other peer.
LEMMA CloseKeeps == ASSUME CommitteeInv, NEW n \in Remotes, Close(n) PROVE CommitteeInv'
<1>1. NetTypes /\ (\A m \in Remotes : PeerSound(m) /\ CacheSound(m)) /\ (\A r \in 1 .. Len(records) : RecordSound(r))
  BY DEF CommitteeInv
<1>2. /\ peerLoop' = [peerLoop EXCEPT ![n] = "down"] /\ ending' = ending \ {n}
      /\ id' = [id EXCEPT ![n] = NoId] /\ removeId' = [removeId EXCEPT ![n] = NoId]
      /\ UNCHANGED <<conn, records, broadcasts>>
  BY DEF Close
<1>3. /\ peerLoop' \in [Remotes -> {"down", "handshake", "loop"}] /\ ending' \in SUBSET Remotes
      /\ id' \in [Remotes -> Remotes \cup {NoId, Zero}] /\ removeId' \in [Remotes -> Remotes \cup {NoId}]
      /\ peerLoop'[n] = "down" /\ removeId'[n] = NoId
      /\ \A m \in Remotes \ {n} : peerLoop'[m] = peerLoop[m] /\ id'[m] = id[m] /\ removeId'[m] = removeId[m]
  BY <1>1, <1>2 DEF NetTypes
<1>4. /\ proposers' \in [Remotes -> Nat] /\ validators' \in [Remotes -> Nat]
      /\ \A m \in Remotes \ {n} : proposers'[m] = proposers[m] /\ validators'[m] = validators[m]
      /\ validators'[n] \in {0, validators[n]}
  <2>1. proposers \in [Remotes -> Nat] /\ validators \in [Remotes -> Nat] /\ removeId[n] \in {n, NoId}
    BY <1>1 DEF NetTypes, PeerSound
  <2>2. CASE RemoveRemote(n)
    <3>1. \A m \in Remotes \ {n} : removeId[n] # m
      BY <2>1, NoIdAssumption
    <3> QED
      BY <2>1, <2>2, <3>1 DEF RemoveRemote
  <2>3. CASE UNCHANGED dialer
    BY <2>1, <2>3 DEF dialer
  <2> QED
    BY <2>2, <2>3 DEF Close
<1>5. NetTypes'
  BY <1>1, <1>2, <1>3, <1>4 DEF NetTypes
<1>6. ASSUME NEW m \in Remotes PROVE PeerSound(m)' /\ CacheSound(m)'
  <2>1. CASE m = n
    <3>1. PeerSound(n)'
      BY <1>2, <1>3 DEF PeerSound
    <3>2. CacheSound(n)'
      BY <1>1, <1>2, <1>3, <1>4 DEF CacheSound, Connected
    <3> QED
      BY <2>1, <3>1, <3>2
  <2>2. CASE m # n
    BY <1>1, <1>2, <1>3, <1>4, <2>2 DEF PeerSound, CacheSound, Connected
  <2> QED
    BY <2>1, <2>2
<1>7. ASSUME NEW r \in 1 .. Len(records') PROVE RecordSound(r)'
  BY <1>1, <1>2 DEF RecordSound
<1> QED
  BY <1>5, <1>6, <1>7 DEF CommitteeInv

\* KeepConnection tells the server to close connections, of peers that are connected.
LEMMA KeepConnectionKeeps == ASSUME CommitteeInv, KeepConnection PROVE CommitteeInv'
<1>1. NetTypes /\ (\A m \in Remotes : PeerSound(m) /\ CacheSound(m)) /\ (\A r \in 1 .. Len(records) : RecordSound(r))
  BY DEF CommitteeInv
<1>2. UNCHANGED <<conn, peerLoop, id, removeId, proposers, validators, records, broadcasts>>
  BY DEF KeepConnection, dialer
<1>3. ending' \in SUBSET Remotes /\ \A m \in Remotes : peerLoop[m] = "down" => (m \in ending' => m \in ending)
  <2>1. \A r \in ValidatorsOfTerm : records[r].node \in Remotes
    BY <1>1 DEF ValidatorsOfTerm, CacheSound
  <2>2. CASE disconnect(AllUselessProposers)
    BY <1>1, <2>2 DEF disconnect, AllUselessProposers, NetTypes
  <2>3. CASE ending' = ending
    BY <1>1, <2>3 DEF NetTypes
  <2>4. CASE disconnect({records[r].node : r \in ValidatorsOfTerm})
    BY <1>1, <2>1, <2>4 DEF disconnect, NetTypes
  <2> QED
    BY <2>2, <2>3, <2>4 DEF KeepConnection, dialAllRemoteValidators
<1>4. NetTypes'
  BY <1>1, <1>2, <1>3 DEF NetTypes
<1>5. ASSUME NEW m \in Remotes PROVE PeerSound(m)' /\ CacheSound(m)'
  BY <1>1, <1>2, <1>3 DEF PeerSound, CacheSound, Connected
<1>6. ASSUME NEW r \in 1 .. Len(records') PROVE RecordSound(r)'
  BY <1>1, <1>2 DEF RecordSound
<1> QED
  BY <1>4, <1>5, <1>6 DEF CommitteeInv

\* A change of one record that leaves its node and its connection alone, its queues within
\* their limit, and a loop if the connection is open, keeps the invariant.
LEMMA RecordChanged ==
    ASSUME CommitteeInv, NEW r \in 1 .. Len(records), NEW e \in RecordType,
           e.node = records[r].node, e.conn = records[r].conn,
           \A k \in Kinds : Len(e.queue[k]) <= QueueSize,
           Connected(e.node, e.conn) => e.loops = records[r].loops,
           records' = [records EXCEPT ![r] = e],
           UNCHANGED <<conn, peerLoop, ending, id, removeId, proposers, validators>>,
           \A b \in broadcasts' : b \in BroadcastType(Len(records))
    PROVE  CommitteeInv'
<1>1. NetTypes /\ (\A m \in Remotes : PeerSound(m) /\ CacheSound(m)) /\ (\A q \in 1 .. Len(records) : RecordSound(q))
  BY DEF CommitteeInv
<1>2. /\ records' \in Seq(RecordType) /\ Len(records') = Len(records)
      /\ \A q \in 1 .. Len(records) : records'[q] = IF q = r THEN e ELSE records[q]
  BY <1>1, ExceptSeq DEF NetTypes
<1>3. NetTypes'
  BY <1>1, <1>2 DEF NetTypes
<1>4. ASSUME NEW m \in Remotes PROVE PeerSound(m)' /\ CacheSound(m)'
  <2>1. PeerSound(m)'
    BY <1>1 DEF PeerSound
  <2>2. CacheSound(m)'
    <3> SUFFICES ASSUME validators[m] # 0 PROVE CacheSound(m)'
      BY DEF CacheSound
    <3>1. PICK q \in 1 .. Len(records) : q = validators[m] /\ records[q].node = m
                                         /\ (Connected(m, records[q].conn) => records[q].loops > 0)
      BY <1>1 DEF CacheSound
    <3>2. CASE q = r
      <4>1. records'[q] = e /\ e.node = m /\ (Connected(m, e.conn) => e.loops > 0)
        BY <1>2, <3>1, <3>2
      <4> QED
        BY <1>2, <3>1, <4>1 DEF CacheSound, Connected
    <3>3. CASE q # r
      BY <1>2, <3>1, <3>3 DEF CacheSound, Connected
    <3> QED
      BY <3>2, <3>3
  <2> QED
    BY <2>1, <2>2
<1>5. ASSUME NEW q \in 1 .. Len(records') PROVE RecordSound(q)'
  <2>1. CASE q = r
    BY <1>1, <1>2, <2>1 DEF RecordSound
  <2>2. CASE q # r
    BY <1>1, <1>2, <2>2 DEF RecordSound
  <2> QED
    BY <2>1, <2>2
<1> QED
  BY <1>3, <1>4, <1>5 DEF CommitteeInv

\* A broadcast begins, waits for validators and ends without touching peers and records.
LEMMA BroadcastKeeps == ASSUME CommitteeInv, NEW m \in Messages, Broadcast(m) PROVE CommitteeInv'
<1>1. /\ broadcasts' = broadcasts \cup {[msg |-> m, stage |-> "wait", targets |-> {}]}
      /\ UNCHANGED <<conn, peerLoop, ending, id, removeId, proposers, validators, records>>
  BY DEF Broadcast, netPeers, dialer
<1>2. [msg |-> m, stage |-> "wait", targets |-> {}] \in BroadcastType(Len(records))
  BY DEF BroadcastType
<1>3. \A b \in broadcasts' : b \in BroadcastType(Len(records))
  BY <1>1, <1>2 DEF CommitteeInv, NetTypes
<1> QED
  BY <1>1, <1>3, SameCommittee

\* The targets of a broadcast are records of the cache.
LEMMA WaitKeepsCommittee ==
    ASSUME CommitteeInv, NEW b \in broadcasts, NEW least, waitForEnoughValidators(b, least) PROVE CommitteeInv'
<1>1. PICK found \in {ValidatorsOfTerm, {}} :
          broadcasts' = (broadcasts \ {b}) \cup {[b EXCEPT !.stage = "send", !.targets = found]}
  BY DEF waitForEnoughValidators
<1>2. UNCHANGED <<conn, peerLoop, ending, id, removeId, proposers, validators, records>>
  BY DEF waitForEnoughValidators, netPeers, dialer
<1>3. found \subseteq 1 .. Len(records)
  BY DEF CommitteeInv, CacheSound, ValidatorsOfTerm
<1>4. \A x \in broadcasts : x \in BroadcastType(Len(records))
  BY DEF CommitteeInv, NetTypes
<1>5. [b EXCEPT !.stage = "send", !.targets = found] \in BroadcastType(Len(records))
  BY <1>3, <1>4 DEF BroadcastType
<1>6. \A x \in broadcasts' : x \in BroadcastType(Len(records))
  BY <1>1, <1>4, <1>5
<1> QED
  BY <1>2, <1>6, SameCommittee

\* AsyncSend puts a message in a queue that has room for it.
LEMMA AsyncSendKeeps ==
    ASSUME CommitteeInv, NEW b \in broadcasts, NEW r \in b.targets, AsyncSendMessage(b, r) PROVE CommitteeInv'
<1>1. \A x \in broadcasts : x \in BroadcastType(Len(records))
  BY DEF CommitteeInv, NetTypes
<1>2. b.msg \in Messages /\ b.targets \in SUBSET (1 .. Len(records)) /\ r \in 1 .. Len(records)
  BY <1>1 DEF BroadcastType
<1>3. [b EXCEPT !.targets = @ \ {r}] \in BroadcastType(Len(records))
  BY <1>1 DEF BroadcastType
<1>4. \A x \in broadcasts' : x \in BroadcastType(Len(records))
  BY <1>1, <1>3 DEF AsyncSendMessage
<1>5. UNCHANGED <<conn, peerLoop, ending, id, removeId, proposers, validators>>
  BY DEF AsyncSendMessage, netPeers, dialer
<1>6. PICK k \in Kinds : k = KindOf[b.msg]
  BY <1>2 DEF Kinds
<1>7. CASE ~HasRoom(records[r].queue[k])
  BY <1>4, <1>5, <1>6, <1>7, SameCommittee DEF AsyncSendMessage
<1>8. CASE HasRoom(records[r].queue[k])
  <2>1. records \in Seq(RecordType) /\ records[r] \in RecordType /\ RecordSound(r)
    BY <1>2, ElementOfSeq DEF CommitteeInv, NetTypes
  <2>2. PICK q : q = Append(records[r].queue[k], b.msg)
    OBVIOUS
  <2>3. records[r].queue \in [Kinds -> Seq(Messages)] /\ records[r].queue[k] \in Seq(Messages)
    BY <2>1 DEF RecordType
  <2>4. q \in Seq(Messages) /\ Len(q) <= QueueSize
    <3>1. Len(q) = Len(records[r].queue[k]) + 1 /\ Len(records[r].queue[k]) \in Nat /\ q \in Seq(Messages)
      BY <1>2, <2>2, <2>3
    <3> QED
      BY <1>8, <3>1, QueueAssumption DEF HasRoom
  <2>5. PICK u : u = [records[r].queue EXCEPT ![k] = q]
    OBVIOUS
  <2>6. u \in [Kinds -> Seq(Messages)] /\ \A l \in Kinds : Len(u[l]) <= QueueSize
    BY <2>1, <2>3, <2>4, <2>5 DEF RecordSound
  <2>7. PICK e : e = [records[r] EXCEPT !.queue = u]
    OBVIOUS
  <2>8. /\ e \in RecordType /\ e.node = records[r].node /\ e.conn = records[r].conn
        /\ e.loops = records[r].loops /\ e.queue = u
    BY <2>1, <2>6, <2>7 DEF RecordType
  <2>9. records' = [records EXCEPT ![r] = e]
    <3>1. records' = [records EXCEPT ![r].queue[k] = Append(@, b.msg)]
      BY <1>6, <1>8 DEF AsyncSendMessage
    <3> QED
      BY <1>2, <2>1, <2>2, <2>3, <2>5, <2>7, <3>1, LenProperties DEF RecordType
  <2> QED
    BY <1>2, <1>4, <1>5, <2>6, <2>8, <2>9, RecordChanged
<1> QED
  BY <1>7, <1>8

\* The end of a broadcast.
LEMMA ReBroadcastKeeps == ASSUME CommitteeInv, NEW b \in broadcasts, reBroadcast(b) PROVE CommitteeInv'
<1>1. UNCHANGED <<conn, peerLoop, ending, id, removeId, proposers, validators, records>>
  BY DEF reBroadcast, netPeers, dialer
<1>2. \A x \in broadcasts' : x \in BroadcastType(Len(records))
  BY DEF reBroadcast, CommitteeInv, NetTypes
<1> QED
  BY <1>1, <1>2, SameCommittee

\* A broadcast loop takes a message off its queue, and ends if the connection of the record
\* is not the one open now: the loop of the open connection is not ended.
LEMMA BroadcastLoopKeeps ==
    ASSUME CommitteeInv, NEW r \in DOMAIN records, NEW k \in Kinds, broadcastLoop(r, k) PROVE CommitteeInv'
<1>1. records \in Seq(RecordType) /\ \A x \in broadcasts : x \in BroadcastType(Len(records))
  BY DEF CommitteeInv, NetTypes
<1>2. r \in 1 .. Len(records) /\ records[r] \in RecordType /\ RecordSound(r)
  BY <1>1, LenProperties, ElementOfSeq DEF CommitteeInv
<1>3. /\ records[r].queue \in [Kinds -> Seq(Messages)] /\ records[r].queue[k] \in Seq(Messages)
      /\ records[r].loops \in Nat
  BY <1>2 DEF RecordType
<1>4. records[r].queue[k] # <<>> /\ records[r].loops > 0
  BY DEF broadcastLoop, Works
<1>5. PICK q : q = Tail(records[r].queue[k])
  OBVIOUS
<1>6. q \in Seq(Messages) /\ Len(q) <= QueueSize
  <2>1. q \in Seq(Messages) /\ Len(q) = Len(records[r].queue[k]) - 1 /\ Len(records[r].queue[k]) \in Nat
    BY <1>3, <1>4, <1>5, HeadTailProperties, LenProperties
  <2> QED
    BY <1>2, <2>1, QueueAssumption DEF RecordSound
<1>7. PICK u : u = [records[r].queue EXCEPT ![k] = q]
  OBVIOUS
<1>8. u \in [Kinds -> Seq(Messages)] /\ \A l \in Kinds : Len(u[l]) <= QueueSize
  BY <1>2, <1>3, <1>6, <1>7 DEF RecordSound
<1>9. UNCHANGED <<conn, peerLoop, ending, id, removeId, proposers, validators, broadcasts>>
  BY DEF broadcastLoop, netPeers, dialer
<1>10. CASE Connected(records[r].node, records[r].conn)
  <2>1. PICK e : e = [records[r] EXCEPT !.queue = u]
    OBVIOUS
  <2>2. /\ e \in RecordType /\ e.node = records[r].node /\ e.conn = records[r].conn
        /\ e.loops = records[r].loops /\ e.queue = u
    BY <1>2, <1>8, <2>1 DEF RecordType
  <2>3. records' = [records EXCEPT ![r].queue[k] = Tail(@)]
    BY <1>10 DEF broadcastLoop
  <2>4. records' = [records EXCEPT ![r] = e]
    BY <1>1, <1>2, <1>3, <1>5, <1>7, <2>1, <2>3, LenProperties DEF RecordType
  <2> QED
    BY <1>1, <1>2, <1>8, <1>9, <2>2, <2>4, RecordChanged
<1>11. CASE ~Connected(records[r].node, records[r].conn)
  <2>1. PICK l : l = records[r].loops - 1
    OBVIOUS
  <2>2. l \in Nat
    BY <1>3, <1>4, <2>1
  <2>3. PICK e : e = [records[r] EXCEPT !.queue = u, !.loops = l]
    OBVIOUS
  <2>4. /\ e \in RecordType /\ e.node = records[r].node /\ e.conn = records[r].conn /\ e.queue = u
    BY <1>2, <1>8, <2>2, <2>3 DEF RecordType
  <2>5. records' = [records EXCEPT ![r].queue[k] = Tail(@), ![r].loops = @ - 1]
    BY <1>11 DEF broadcastLoop
  <2>6. records' = [records EXCEPT ![r] = e]
    BY <1>1, <1>2, <1>3, <1>5, <1>7, <2>1, <2>3, <2>5, LenProperties DEF RecordType
  <2> QED
    BY <1>1, <1>2, <1>8, <1>9, <1>11, <2>4, <2>6, RecordChanged
<1> QED
  BY <1>10, <1>11

-----------------------------------------------------------------------------
\* Every step of the committee's connections keeps the invariant.
LEMMA NetStep == CommitteeInv /\ [NetNext]_netVars => CommitteeInv'
<1> SUFFICES ASSUME CommitteeInv, [NetNext]_netVars PROVE CommitteeInv'
  OBVIOUS
<1>1. ASSUME NEW n \in Remotes, Connect(n) PROVE CommitteeInv'
  BY <1>1, ConnectKeeps
<1>2. ASSUME NEW n \in Remotes, AddRemote(n) PROVE CommitteeInv'
  BY <1>2, AddRemoteKeeps
<1>3. ASSUME NEW n \in Remotes, NewSignerMsg(n) PROVE CommitteeInv'
  BY <1>3, NewSignerMsgKeeps
<1>4. ASSUME NEW n \in Remotes, OtherMsg(n) PROVE CommitteeInv'
  BY <1>4, OtherMsgKeeps
<1>5. ASSUME NEW n \in Remotes, Close(n) PROVE CommitteeInv'
  BY <1>5, CloseKeeps
<1>6. \A b \in broadcasts : b \in BroadcastType(Len(records))
  BY DEF CommitteeInv, NetTypes
<1>7. CASE NewTerm
  BY <1>6, <1>7, SameCommittee DEF NewTerm, netPeers, dialer
<1>8. CASE KeepConnection
  BY <1>8, KeepConnectionKeeps
<1>9. ASSUME NEW m \in Messages, Broadcast(m) PROVE CommitteeInv'
  BY <1>9, BroadcastKeeps
<1>10. ASSUME NEW b \in broadcasts, NEW least \in {Faulty, 2 * Faulty}, waitForEnoughValidators(b, least)
       PROVE  CommitteeInv'
  BY <1>10, WaitKeepsCommittee
<1>11. ASSUME NEW b \in broadcasts, NEW r \in b.targets, AsyncSendMessage(b, r) PROVE CommitteeInv'
  BY <1>11, AsyncSendKeeps
<1>12. ASSUME NEW b \in broadcasts, reBroadcast(b) PROVE CommitteeInv'
  BY <1>12, ReBroadcastKeeps
<1>13. ASSUME NEW r \in DOMAIN records, NEW k \in Kinds, broadcastLoop(r, k) PROVE CommitteeInv'
  BY <1>13, BroadcastLoopKeeps
<1>14. CASE UNCHANGED netVars
  BY <1>6, <1>14, SameCommittee DEF netVars, netPeers, dialer
<1> QED
  BY <1>1, <1>2, <1>3, <1>4, <1>5, <1>7, <1>8, <1>9, <1>10, <1>11, <1>12, <1>13, <1>14 DEF NetNext

\* Every reachable state of the committee's connections satisfies the invariant.
THEOREM CommitteeInvariant == NetInit /\ [][NetNext]_netVars => []CommitteeInv
BY NetInitially, NetStep, PTL

\* A peer that AddPeer took for a signer keeps its id and its place in the caches for as long
\* as it is connected, with any number of nodes, terms, connections and messages.
THEOREM SignersStayHeard == NetSpec => []SignerStaysHeard
<1>1. CommitteeInv => SignerStaysHeard
  BY DEF CommitteeInv, PeerSound, SignerStaysHeard, Known
<1> QED
  BY <1>1, CommitteeInvariant, PTL DEF NetSpec

\* A cached validator whose connection is open has a broadcast loop, however many loops of
\* earlier connections share its record and end.
THEOREM LiveRecordsHaveLoops == NetSpec => []LiveRecordHasLoop
<1>1. CommitteeInv => LiveRecordHasLoop
  BY DEF CommitteeInv, CacheSound, LiveRecordHasLoop
<1> QED
  BY <1>1, CommitteeInvariant, PTL DEF NetSpec

\* The state of the Dialer, the peers' goroutines and the queues keeps its types, and no
\* queue grows over its limit.
THEOREM CommitteeTypes == NetSpec => []NetTypeOK
<1>1. ASSUME CommitteeInv PROVE NetTypeOK
  <2>1. NetTypes /\ (\A n \in Remotes : PeerSound(n) /\ CacheSound(n)) /\ (\A r \in 1 .. Len(records) : RecordSound(r))
    BY <1>1 DEF CommitteeInv
  <2>2. Len(records) \in Nat /\ DOMAIN records = 1 .. Len(records) /\ \A r \in 1 .. Len(records) : records[r] \in RecordType
    BY <2>1, LenProperties, ElementOfSeq DEF NetTypes
  <2>3. ending \subseteq {n \in Remotes : peerLoop[n] # "down"}
    BY <2>1 DEF NetTypes, PeerSound
  <2>4. validators \in [Remotes -> 0 .. Len(records)]
    BY <2>1, <2>2 DEF NetTypes, CacheSound
  <2>5. ASSUME NEW r \in DOMAIN records
        PROVE  /\ records[r].loops \in Nat
               /\ \A k \in Kinds : records[r].queue[k] \in Seq(Messages) /\ Len(records[r].queue[k]) <= QueueSize
    BY <2>1, <2>2 DEF RecordType, RecordSound
  <2> QED
    BY <2>1, <2>3, <2>4, <2>5 DEF NetTypeOK, NetTypes
<1> QED
  BY <1>1, CommitteeInvariant, PTL DEF NetSpec
=============================================================================
