---------------------------- MODULE EngineProofs ----------------------------
(***************************************************************************)
(* Proofs about the mining engine and its worker (Miner), for every number *)
(* of callers, calls and starts, and about the signatures and blocks a     *)
(* validator remembers (SignatureCache), for every committee, every set of *)
(* blocks and every size of the caches.                                    *)
(*                                                                         *)
(* The engine: the invariant counts the wait loops started so far by a     *)
(* number k, of which every other fact is stated: the worker has no more   *)
(* loops than that, and until the second start the numbers announced       *)
(* increase.                                                               *)
(*                                                                         *)
(* The caches: what is counted towards a certificate is what validators    *)
(* really signed; and as long as the signed blocks fit in the cache        *)
(* nothing has been evicted, so that the count is exact.                   *)
(***************************************************************************)
EXTENDS Miner, SignatureCache, FiniteSetTheorems, TLAPS

Numbers == 0 .. MaxHead + 1

EngineTyped ==
    /\ enginePc \in [Callers -> {"idle", "start", "stop", "commit", "stopWorker", "push", "snapshot"}]
    /\ mu \in Callers \cup {"free"}
    /\ mining \in {0, 1} /\ working \in {0, 1} /\ quitCh \in {0, 1}
    /\ mineLoops \in Nat /\ quitGen \in Nat
    /\ chainHead \in 0 .. MaxHead /\ parent \in 0 .. MaxHead
    /\ wait \in [Waits -> [at : {"none", "loop", "select", "got", "gone"}, gen : Nat, num : Numbers]]
    /\ recv \in Seq(Numbers) /\ posted \in Seq(Numbers) /\ lastBlock \in Numbers
    /\ workCh \in Seq(1 .. MaxHead + 1) /\ Len(workCh) <= 1
    /\ current \in Numbers

\* The goroutine that holds the engine's lock is the one inside it.
EngineExclusive ==
    \A t \in Callers : mu = t <=> enginePc[t] \in {"stopWorker", "push", "snapshot"}

StartedUpTo(k) == \A w \in Waits : wait[w].at # "none" <=> w <= k

\* What is announced increases, and a number taken to be announced is a new one.
Increasing ==
    /\ \A i \in 1 .. Len(posted) : posted[i] <= lastBlock
    /\ \A i, j \in 1 .. Len(posted) : i < j => posted[i] < posted[j]
    /\ \A w \in Waits : wait[w].at = "got" => wait[w].num > lastBlock

Counted(k) ==
    /\ StartedUpTo(k)
    /\ mineLoops <= k
    /\ k <= 1 => Increasing

EngineInv ==
    /\ EngineTyped
    /\ EngineExclusive
    /\ LoopsBalanced
    /\ \E k \in 0 .. MaxStarts : Counted(k)

-----------------------------------------------------------------------------
\* Starts counts what StartedUpTo bounds.
LEMMA StartsCounts ==
    ASSUME NEW k \in 0 .. MaxStarts, StartedUpTo(k)
    PROVE  Starts = k
<1>1. {w \in Waits : wait[w].at # "none"} = 1 .. k
    BY EngineAssumption DEF StartedUpTo, Waits
<1>2. Cardinality(1 .. k) = IF 1 > k THEN 0 ELSE k - 1 + 1
    BY FS_Interval, EngineAssumption
<1>3. Starts = Cardinality(1 .. k)
    BY <1>1, Zenon DEF Starts
<1> QED BY <1>2, <1>3, EngineAssumption

\* Nothing has been started yet, so that no loop exists and nothing is announced.
LEMMA EngineInitially == EngineInit => EngineInv
<1> SUFFICES ASSUME EngineInit PROVE EngineInv
    OBVIOUS
<1>1. EngineTyped
    BY EngineAssumption DEF EngineInit, EngineTyped, Numbers, Waits
<1>2. EngineExclusive
    BY EngineAssumption DEF EngineInit, EngineExclusive
<1>3. LoopsBalanced
    BY DEF EngineInit, LoopsBalanced
<1>4. Counted(0)
    BY EngineAssumption DEF EngineInit, Counted, StartedUpTo, Increasing, Waits
<1> QED BY <1>1, <1>2, <1>3, <1>4, EngineAssumption DEF EngineInv

\* A step that leaves the wait loops, the announcements and the loops of the worker

\* alone leaves their count.
LEMMA CountedKept ==
    ASSUME NEW k \in 0 .. MaxStarts, Counted(k), UNCHANGED <<wait, lastBlock, posted, mineLoops>>
    PROVE  Counted(k)'
BY DEF Counted, StartedUpTo, Increasing

\* A call that enters the engine changes only where its caller is.
LEMMA CallKeeps ==
    ASSUME EngineInv, NEW t \in Callers, Call(t)
    PROVE  EngineInv'
<1> USE DEF EngineInv, Call, Move, results, worker
<1>1. EngineTyped'
    BY DEF EngineTyped
<1>2. EngineExclusive'
    BY DEF EngineTyped, EngineExclusive
<1>3. LoopsBalanced'
    BY DEF LoopsBalanced
<1>4. \E k \in 0 .. MaxStarts : Counted(k)'
    BY CountedKept
<1> QED BY <1>1, <1>2, <1>3, <1>4

\* start begins one wait loop, and one loop of the worker if none works.
LEMMA startKeeps ==
    ASSUME EngineInv, NEW t \in Callers, start(t)
    PROVE  EngineInv'
<1> USE DEF EngineInv, Move, results
<1>1. PICK k \in 0 .. MaxStarts : Counted(k)
    OBVIOUS
<1>2. Starts = k
    BY <1>1, StartsCounts DEF Counted
<1>3. mining = 0 => k + 1 \in Waits
    BY <1>2, EngineAssumption DEF start, Waits
<1>4. EngineTyped'
    <2>1. wait' \in [Waits -> [at : {"none", "loop", "select", "got", "gone"}, gen : Nat, num : Numbers]]
        <3>1. CASE mining = 0
            <4>1. wait' = [wait EXCEPT ![k + 1].at = "loop"]
                BY <1>2, <3>1 DEF start
            <4> QED BY <1>3, <3>1, <4>1 DEF EngineTyped
        <3>2. CASE mining # 0
            BY <3>2 DEF EngineTyped, start
        <3> QED BY <3>1, <3>2
    <2>2. enginePc' \in [Callers -> {"idle", "start", "stop", "commit", "stopWorker", "push", "snapshot"}]
        BY DEF EngineTyped, start
    <2>3. mining' \in {0, 1} /\ working' \in {0, 1} /\ mineLoops' \in Nat
        BY DEF EngineTyped, start
    <2> QED BY <2>1, <2>2, <2>3 DEF EngineTyped, start
<1>5. EngineExclusive'
    BY EngineAssumption DEF EngineTyped, EngineExclusive, start
<1>6. LoopsBalanced'
    BY DEF LoopsBalanced, EngineTyped, start
<1>7. CASE mining = 1
    <2>1. Counted(k)'
        BY <1>1, <1>7, CountedKept DEF start
    <2> QED BY <1>4, <1>5, <1>6, <2>1
<1>8. CASE mining = 0
    <2>1. wait' = [wait EXCEPT ![k + 1].at = "loop"]
        BY <1>2, <1>8 DEF start
    <2>2. StartedUpTo(k + 1)'
        BY <1>1, <1>3, <1>8, <2>1 DEF Counted, StartedUpTo, EngineTyped, Waits
    <2>3. mineLoops' <= k + 1
        BY <1>1, <1>8 DEF Counted, EngineTyped, start
    <2>4. k + 1 <= 1 => Increasing'
        BY <1>1, <1>3, <1>8, <2>1 DEF Counted, Increasing, EngineTyped, start, Waits
    <2>5. k + 1 \in 0 .. MaxStarts
        BY <1>3, <1>8 DEF Waits
    <2> QED BY <1>4, <1>5, <1>6, <2>2, <2>3, <2>4, <2>5 DEF Counted
<1> QED BY <1>7, <1>8 DEF EngineTyped

\* stop leaves a token for the loop of the worker, waiting for room.
LEMMA stopKeeps ==
    ASSUME EngineInv, NEW t \in Callers, stop(t)
    PROVE  EngineInv'
<1> USE DEF EngineInv, Move, results, RoomForToken
<1>1. EngineTyped'
    <2>1. enginePc' \in [Callers -> {"idle", "start", "stop", "commit", "stopWorker", "push", "snapshot"}]
        BY DEF EngineTyped, stop
    <2>2. mu' \in Callers \cup {"free"} /\ workCh' \in Seq(1 .. MaxHead + 1) /\ Len(workCh') <= 1
        <3>1. mu' \in Callers \cup {"free"} /\ (workCh' = workCh \/ workCh' = <<>>)
            BY DEF stop
        <3>2. <<>> \in Seq(1 .. MaxHead + 1) /\ Len(<<>>) <= 1
            OBVIOUS
        <3> QED BY <3>1, <3>2 DEF EngineTyped
    <2>3. mining' \in {0, 1} /\ working' \in {0, 1} /\ quitCh' \in {0, 1}
        BY DEF EngineTyped, stop
    <2>4. quitGen' \in Nat
        BY DEF EngineTyped, stop
    <2> QED BY <2>1, <2>2, <2>3, <2>4 DEF EngineTyped, stop
<1>2. EngineExclusive'
    BY EngineAssumption DEF EngineTyped, EngineExclusive, stop
<1>3. LoopsBalanced'
    BY DEF LoopsBalanced, EngineTyped, stop
<1>4. \E k \in 0 .. MaxStarts : Counted(k)'
    BY CountedKept DEF stop
<1> QED BY <1>1, <1>2, <1>3, <1>4

\* commitNewWork, in its steps under the lock of the engine.
LEMMA commitNewWorkKeeps ==
    ASSUME EngineInv, NEW t \in Callers, commitNewWork(t)
    PROVE  EngineInv'
<1> USE DEF EngineInv, Move, results, RoomForWork
<1>1. EngineTyped'
    <2>1. workCh' \in Seq(1 .. MaxHead + 1) /\ Len(workCh') <= 1
        BY EngineAssumption DEF EngineTyped, commitNewWork
    <2>2. enginePc' \in [Callers -> {"idle", "start", "stop", "commit", "stopWorker", "push", "snapshot"}]
        BY DEF EngineTyped, commitNewWork
    <2>3. mu' \in Callers \cup {"free"} /\ parent' \in 0 .. MaxHead
        BY EngineAssumption DEF EngineTyped, commitNewWork
    <2> QED BY <2>1, <2>2, <2>3 DEF EngineTyped, commitNewWork
<1>2. EngineExclusive'
    BY EngineAssumption DEF EngineTyped, EngineExclusive, commitNewWork
<1>3. LoopsBalanced'
    BY DEF LoopsBalanced, commitNewWork
<1>4. \E k \in 0 .. MaxStarts : Counted(k)'
    BY CountedKept DEF commitNewWork
<1> QED BY <1>1, <1>2, <1>3, <1>4

\* A new head only moves the chain forward.
LEMMA NewHeadKeeps == EngineInv /\ NewHead => EngineInv'
<1> SUFFICES ASSUME EngineInv, NewHead PROVE EngineInv'
    OBVIOUS
<1> USE DEF EngineInv, NewHead, engineCalls, results, worker
<1>1. EngineTyped'
    BY EngineAssumption DEF EngineTyped
<1>2. EngineExclusive' /\ LoopsBalanced'
    BY DEF EngineExclusive, LoopsBalanced
<1>3. \E k \in 0 .. MaxStarts : Counted(k)'
    BY CountedKept
<1> QED BY <1>1, <1>2, <1>3

\* What sealing leaves in recv.
LEMMA SealedTyped ==
    ASSUME EngineTyped
    PROVE  Sealed \subseteq Seq(Numbers) /\ Aborted \subseteq Seq(Numbers)
<1>1. \A b \in {0, current} : b \in Numbers
    BY EngineAssumption DEF EngineTyped, Numbers
<1>2. \A b \in {0, current} : Append(recv, b) \in Seq(Numbers)
    BY <1>1 DEF EngineTyped
<1>3. Sealed \subseteq Seq(Numbers)
    BY <1>2 DEF Sealed
<1> QED BY <1>3 DEF EngineTyped, Aborted

\* A loop of the worker takes work, or takes the token and ends.
LEMMA workerUpdateKeeps == EngineInv /\ workerUpdate => EngineInv'
<1> SUFFICES ASSUME EngineInv, workerUpdate PROVE EngineInv'
    OBVIOUS
<1> USE DEF EngineInv, engineCalls
<1>1. recv' \in Seq(Numbers)
    BY SealedTyped DEF workerUpdate
<1>2. /\ workCh' \in Seq(1 .. MaxHead + 1) /\ Len(workCh') <= 1
      /\ current' \in Numbers
    BY EngineAssumption DEF EngineTyped, workerUpdate, TakesWork, Numbers
<1>3. EngineTyped'
    BY <1>1, <1>2 DEF EngineTyped, workerUpdate
<1>4. EngineExclusive' /\ LoopsBalanced'
    BY DEF EngineExclusive, LoopsBalanced, EngineTyped, workerUpdate
<1>5. \E k \in 0 .. MaxStarts : Counted(k)'
    <2>1. PICK k \in 0 .. MaxStarts : Counted(k)
        OBVIOUS
    <2>2. mineLoops' <= k
        BY <2>1 DEF Counted, EngineTyped, workerUpdate
    <2> QED BY <2>1, <2>2 DEF Counted, StartedUpTo, Increasing, workerUpdate
<1> QED BY <1>3, <1>4, <1>5

\* The sealing ends, with a block or with nothing.
LEMMA mineKeeps == EngineInv /\ mine => EngineInv'
<1> SUFFICES ASSUME EngineInv, mine PROVE EngineInv'
    OBVIOUS
<1> USE DEF EngineInv, mine, engineCalls
<1>1. EngineTyped'
    BY SealedTyped, EngineAssumption DEF EngineTyped, Numbers
<1>2. EngineExclusive' /\ LoopsBalanced'
    BY DEF EngineExclusive, LoopsBalanced
<1>3. \E k \in 0 .. MaxStarts : Counted(k)'
    BY CountedKept
<1> QED BY <1>1, <1>2, <1>3

\* What was announced are numbers.
LEMMA PostedNumbers ==
    ASSUME EngineTyped
    PROVE  \A i \in 1 .. Len(posted) : posted[i] \in Int
<1>1. \A i \in 1 .. Len(posted) : posted[i] \in Numbers
    BY DEF EngineTyped
<1> QED BY <1>1, EngineAssumption DEF Numbers

\* A turn of a wait loop.  Only loops that were started take one, so that before the

\* second start no two of them hold a number at once.
LEMMA waitLoopKeeps ==
    ASSUME EngineInv, NEW w \in Waits, waitLoop(w)
    PROVE  EngineInv'
<1> USE DEF EngineInv, engineCalls, worker, results
<1> DEFINE Rec == [at : {"none", "loop", "select", "got", "gone"}, gen : Nat, num : Numbers]
<1>1. PICK k \in 0 .. MaxStarts : Counted(k)
    OBVIOUS
<1>2. 0 \in Numbers
    BY EngineAssumption DEF Numbers
<1>3. wait[w] \in Rec /\ recv \in Seq(Numbers) /\ (recv # <<>> => Head(recv) \in Numbers)
    BY DEF EngineTyped
<1>4. wait' = [wait EXCEPT ![w] = wait'[w]] /\ wait'[w] \in Rec /\ wait[w].at # "none" /\ wait'[w].at # "none"
    <2>1. wait \in [Waits -> Rec] /\ quitGen \in Nat
        BY DEF EngineTyped
    <2>2. CASE wait[w].at = "loop"
        <3>1. wait' = [wait EXCEPT ![w].at = "select", ![w].gen = quitGen]
            BY <2>2 DEF waitLoop
        <3>2. wait'[w] = [at |-> "select", gen |-> quitGen, num |-> wait[w].num]
            BY <2>1, <3>1
        <3>3. wait' = [wait EXCEPT ![w] = wait'[w]]
            BY <2>1, <3>1
        <3> QED BY <1>3, <2>1, <2>2, <3>2, <3>3
    <2>3. CASE wait[w].at # "loop"
        <3>1. PICK r \in [at : {"loop", "got", "gone"}, gen : {0}, num : Numbers] :
                wait' = [wait EXCEPT ![w] = r]
            BY <1>2, <1>3, <2>3 DEF waitLoop
        <3>2. wait'[w] = r /\ wait[w].at # "none"
            BY <2>1, <2>3, <3>1 DEF waitLoop
        <3>3. r \in Rec /\ r.at # "none"
            BY <3>1
        <3>4. wait' = [wait EXCEPT ![w] = wait'[w]]
            BY <3>1, <3>2
        <3> QED BY <3>2, <3>3, <3>4
    <2> QED BY <2>2, <2>3
<1>5. lastBlock' \in Numbers /\ recv' \in Seq(Numbers) /\ posted' \in Seq(Numbers)
    <2>1. lastBlock \in Numbers /\ posted \in Seq(Numbers) /\ wait[w].num \in Numbers
        BY <1>3 DEF EngineTyped
    <2>2. recv' = recv \/ (recv # <<>> /\ recv' = Tail(recv))
        BY DEF waitLoop
    <2>3. lastBlock' = lastBlock \/ lastBlock' = wait[w].num
        BY DEF waitLoop
    <2>4. posted' = posted \/ posted' = Append(posted, wait[w].num)
        BY DEF waitLoop
    <2>5. recv' \in Seq(Numbers)
        BY <1>3, <2>2
    <2>6. posted' \in Seq(Numbers)
        BY <2>1, <2>4
    <2>7. lastBlock' \in Numbers
        BY <2>1, <2>3
    <2> QED BY <2>5, <2>6, <2>7
<1>6. EngineTyped'
    <2>1. UNCHANGED <<engineCalls, chainHead, worker>>
        BY DEF waitLoop
    <2>2. UNCHANGED <<enginePc, mu, mining, parent, quitGen, chainHead, working, mineLoops, quitCh, workCh, current>>
        BY <2>1 DEF engineCalls, worker
    <2> QED BY <1>4, <1>5, <2>2 DEF EngineTyped
<1>7. EngineExclusive' /\ LoopsBalanced'
    BY DEF EngineExclusive, LoopsBalanced, waitLoop
<1>8. StartedUpTo(k)'
    BY <1>1, <1>4 DEF Counted, StartedUpTo, EngineTyped
<1>9. ASSUME k <= 1 PROVE Increasing'
    <2>1. w = 1 /\ \A x \in Waits : x # 1 => wait'[x] = wait[x] /\ wait[x].at = "none"
        <3>1. \A x \in Waits : wait[x].at # "none" => x <= 1
            BY <1>1, <1>9, EngineAssumption DEF Counted, StartedUpTo, Waits
        <3>2. w = 1
            BY <1>4, <3>1, EngineAssumption DEF Waits
        <3>3. \A x \in Waits : x # 1 => wait[x].at = "none"
            BY <3>1, EngineAssumption DEF Waits
        <3> QED BY <1>4, <3>2, <3>3 DEF EngineTyped
    <2>2. Increasing
        BY <1>1, <1>9 DEF Counted
    <2>3. CASE wait[w].at = "got"
        <3>1. /\ lastBlock' = wait[w].num /\ posted' = Append(posted, wait[w].num)
              /\ wait'[w].at = "loop"
            BY <2>3 DEF waitLoop, EngineTyped
        <3>2. wait[w].num > lastBlock /\ wait[w].num \in Int /\ lastBlock \in Int
            BY <1>3, <2>2, <2>3, SMTT(20) DEF Increasing, EngineTyped, Numbers
        <3>3. \A i \in 1 .. Len(posted) : posted[i] \in Int
            BY PostedNumbers
        <3>4. /\ Len(posted') = Len(posted) + 1 /\ Len(posted) \in Nat
              /\ posted'[Len(posted) + 1] = wait[w].num
              /\ \A i \in 1 .. Len(posted) : posted'[i] = posted[i]
            BY <1>3, <3>1 DEF EngineTyped
        <3>5. \A i \in 1 .. Len(posted') : posted'[i] <= lastBlock'
            <4>1. SUFFICES ASSUME NEW i \in 1 .. Len(posted) + 1 PROVE posted'[i] <= lastBlock'
                BY <3>4
            <4>2. CASE i = Len(posted) + 1
                BY <3>1, <3>2, <3>4, <4>2
            <4>3. CASE i \in 1 .. Len(posted)
                <5>1. posted'[i] = posted[i] /\ posted[i] \in Int /\ posted[i] <= lastBlock
                    BY <2>2, <3>3, <3>4, <4>3 DEF Increasing
                <5> QED BY <3>1, <3>2, <5>1
            <4> QED BY <3>4, <4>2, <4>3
        <3>6. \A i, j \in 1 .. Len(posted') : i < j => posted'[i] < posted'[j]
            <4>1. SUFFICES ASSUME NEW i \in 1 .. Len(posted) + 1, NEW j \in 1 .. Len(posted) + 1, i < j
                          PROVE  posted'[i] < posted'[j]
                BY <3>4
            <4>2. posted'[i] = posted[i] /\ posted[i] \in Int /\ posted[i] <= lastBlock
                BY <2>2, <3>3, <3>4, <4>1 DEF Increasing
            <4>3. CASE j = Len(posted) + 1
                BY <3>2, <3>4, <4>2, <4>3
            <4>4. CASE j \in 1 .. Len(posted)
                BY <2>2, <3>4, <4>1, <4>2, <4>4 DEF Increasing
            <4> QED BY <3>4, <4>3, <4>4
        <3>7. \A x \in Waits : wait'[x].at # "got"
            BY <2>1, <3>1
        <3> QED BY <3>5, <3>6, <3>7 DEF Increasing
    <2>4. CASE wait[w].at # "got"
        <3>1. lastBlock' = lastBlock /\ posted' = posted
            BY <2>4 DEF waitLoop
        <3>2. wait'[w].at = "got" => wait'[w].num > lastBlock
            <4>1. SUFFICES ASSUME wait'[w].at = "got" PROVE wait'[w].num > lastBlock
                OBVIOUS
            <4>2. ~Stale(Head(recv)) /\ wait'[w].num = Head(recv) /\ recv # <<>>
                BY <2>4, <4>1 DEF waitLoop, EngineTyped
            <4> QED BY <1>3, <4>2 DEF Stale, EngineTyped, Numbers
        <3> QED BY <2>1, <2>2, <3>1, <3>2 DEF Increasing
    <2> QED BY <2>3, <2>4
<1>10. Counted(k)'
    BY <1>1, <1>8, <1>9 DEF Counted, waitLoop
<1> QED BY <1>6, <1>7, <1>10

\* Every step of the engine and of its worker keeps the invariant.
LEMMA EngineInductive == EngineInv /\ [EngineNext]_engineVars => EngineInv'
<1> SUFFICES ASSUME EngineInv, [EngineNext]_engineVars PROVE EngineInv'
    OBVIOUS
<1>1. ASSUME NEW t \in Callers, Call(t) \/ start(t) \/ stop(t) \/ commitNewWork(t) PROVE EngineInv'
    BY <1>1, CallKeeps, startKeeps, stopKeeps, commitNewWorkKeeps
<1>2. CASE NewHead \/ workerUpdate \/ mine
    BY <1>2, NewHeadKeeps, workerUpdateKeeps, mineKeeps
<1>3. ASSUME NEW w \in Waits, waitLoop(w) PROVE EngineInv'
    BY <1>3, waitLoopKeeps
<1>4. CASE UNCHANGED engineVars
    <2>1. UNCHANGED <<enginePc, mu, mining, parent, quitGen, chainHead, wait, recv, lastBlock, posted>>
        BY <1>4 DEF engineVars, engineCalls, results
    <2>2. UNCHANGED <<working, mineLoops, quitCh, workCh, current>>
        BY <1>4 DEF engineVars, worker
    <2>3. EngineTyped'
        BY <2>1, <2>2 DEF EngineInv, EngineTyped
    <2>4. EngineExclusive' /\ LoopsBalanced'
        BY <2>1, <2>2 DEF EngineInv, EngineExclusive, LoopsBalanced
    <2>5. \E k \in 0 .. MaxStarts : Counted(k)'
        BY <2>1, <2>2, CountedKept DEF EngineInv
    <2> QED BY <2>3, <2>4, <2>5 DEF EngineInv
<1> QED BY <1>1, <1>2, <1>3, <1>4 DEF EngineNext

\* The invariant of the engine holds in every state.
LEMMA EngineAlways == EngineSpec => []EngineInv
BY EngineInitially, EngineInductive, PTL DEF EngineSpec

\* However the engine is started and stopped, the update loops that will be left once every token is
\* taken are one while it mines and none otherwise (NativeWorker.Start, Stop and update).
THEOREM LoopsStayBalanced == EngineSpec => []LoopsBalanced
BY EngineAlways, PTL DEF EngineInv

\* The engine's channels stay within their capacity and its numbers within the chain's.
THEOREM EngineTypeCorrect == EngineSpec => []EngineTypeOK
<1>1. EngineInv => EngineTypeOK
    <2> SUFFICES ASSUME EngineInv PROVE EngineTypeOK
        OBVIOUS
    <2>1. mineLoops \in 0 .. MaxStarts
        BY EngineAssumption DEF EngineInv, EngineTyped, Counted
    <2> QED BY <2>1 DEF EngineInv, EngineTyped, EngineTypeOK, Numbers
<1> QED BY <1>1, EngineAlways, PTL

\* Until its first restart the engine announces a block of each number at most once, although work is
\* committed, sealed, aborted and reported repeatedly (engine.wait and its lastBlock).
THEOREM EnginePostsOnce == EngineSpec => []PostedOnce
<1>1. EngineInv => PostedOnce
    <2> SUFFICES ASSUME EngineInv, Starts <= 1,
                        NEW i \in DOMAIN posted, NEW j \in DOMAIN posted, posted[i] = posted[j]
                 PROVE  i = j
        BY DEF PostedOnce
    <2>1. PICK k \in 0 .. MaxStarts : Counted(k)
        BY DEF EngineInv
    <2>2. Increasing
        BY <2>1, StartsCounts DEF Counted
    <2>3. DOMAIN posted = 1 .. Len(posted) /\ Len(posted) \in Nat
        BY DEF EngineInv, EngineTyped
    <2>4. \A n \in 1 .. Len(posted) : posted[n] \in Int
        BY PostedNumbers DEF EngineInv
    <2>5. ~(i < j) /\ ~(j < i)
        BY <2>2, <2>3, <2>4 DEF Increasing
    <2> QED BY <2>3, <2>5
<1> QED BY <1>1, EngineAlways, PTL

\* The engine's lock excludes: no two goroutines are between taking and releasing it.
THEOREM EngineLockExcludes ==
    EngineSpec => [](\A t, u \in Callers :
        {enginePc[t], enginePc[u]} \subseteq {"stopWorker", "push", "snapshot"} => t = u)
<1>1. EngineInv => \A t, u \in Callers :
        {enginePc[t], enginePc[u]} \subseteq {"stopWorker", "push", "snapshot"} => t = u
    BY DEF EngineInv, EngineExclusive
<1> QED BY <1>1, EngineAlways, PTL


\* The blocks a validator has taken in signatures of since the start.
Signed(k) == {h \in Hashes : received[k][h] # {}}

CacheTypes ==
    /\ signatures \in [VoteKinds -> [Hashes -> (SUBSET Committee) \cup {Out}]]
    /\ recent \in [Stores -> SUBSET Hashes]
    /\ stored \in [Hashes -> {"nothing", "block", "empty list"}]
    /\ received \in [VoteKinds -> [Hashes -> SUBSET Committee]]

\* Both caches stay within their size.
Bounded ==
    /\ \A k \in VoteKinds : Cardinality(CachedVotes(k)) <= CacheSize
    /\ \A s \in Stores : Cardinality(recent[s]) <= CacheSize

\* What is cached was received, and while all that was received fits, all of it is cached.
Remembered(k) ==
    /\ \A h \in Hashes : signatures[k][h] # Out =>
          signatures[k][h] \subseteq received[k][h] /\ received[k][h] # {}
    /\ Cardinality(Signed(k)) <= CacheSize =>
          \A h \in Hashes : signatures[k][h] = IF received[k][h] = {} THEN Out ELSE received[k][h]

CacheInv == CacheTypes /\ Bounded /\ \A k \in VoteKinds : Remembered(k)

-----------------------------------------------------------------------------
\* The mark of an absent entry is no set of validators.
LEMMA OutIsNoVotes == \A S \in SUBSET Committee : S # Out
<1>1. "out" \in Out /\ "out" \notin Committee
  BY CacheAssumption DEF Out
<1> QED
  BY <1>1

\* Making room: a cache of bounded size stays bounded when a key is added.
LEMMA RoomIsMade ==
    ASSUME NEW keys \in SUBSET Hashes, NEW h \in Hashes, NEW gone \in Evicted(keys, h),
           Cardinality(keys) <= CacheSize
    PROVE  /\ gone \subseteq keys
           /\ h \notin gone
           /\ Cardinality((keys \ gone) \cup {h}) <= CacheSize
           /\ gone # {} => Cardinality(keys \cup {h}) = CacheSize + 1
<1>1. IsFiniteSet(keys) /\ Cardinality(keys) \in Nat /\ CacheSize \in Nat \ {0}
  BY CacheAssumption, FS_Subset, FS_CardinalityType
<1>2. CASE h \notin keys /\ Cardinality(keys) = CacheSize
  <2>1. PICK e \in keys : gone = {e}
    BY <1>2 DEF Evicted
  <2>2. IsFiniteSet(keys \ {e}) /\ Cardinality(keys \ {e}) = Cardinality(keys) - 1
    BY <1>1, <2>1, FS_RemoveElement
  <2>3. Cardinality((keys \ {e}) \cup {h}) = Cardinality(keys \ {e}) + 1
    BY <1>2, <2>2, FS_AddElement
  <2>4. Cardinality(keys \cup {h}) = Cardinality(keys) + 1
    BY <1>1, <1>2, FS_AddElement
  <2> QED
    BY <1>1, <1>2, <2>1, <2>2, <2>3, <2>4
<1>3. CASE ~(h \notin keys /\ Cardinality(keys) = CacheSize)
  <2>1. gone = {}
    BY <1>3 DEF Evicted
  <2>2. CASE h \in keys
    <3>1. (keys \ gone) \cup {h} = keys
      BY <2>1, <2>2
    <3> QED
      BY <2>1, <2>2, <3>1
  <2>3. CASE h \notin keys
    <3>1. Cardinality(keys \cup {h}) = Cardinality(keys) + 1 /\ Cardinality(keys) # CacheSize
      BY <1>1, <1>3, <2>3, FS_AddElement
    <3>2. (keys \ gone) \cup {h} = keys \cup {h}
      BY <2>1
    <3> QED
      BY <1>1, <2>1, <2>3, <3>1, <3>2
  <2> QED
    BY <2>2, <2>3
<1> QED
  BY <1>2, <1>3

\* The caches start empty.
LEMMA CacheInitially == CacheInit => CacheInv
<1> SUFFICES ASSUME CacheInit PROVE CacheInv
  OBVIOUS
<1>1. CacheTypes
  <2>1. signatures \in [VoteKinds -> [Hashes -> (SUBSET Committee) \cup {Out}]]
    BY Zenon DEF CacheInit
  <2>2. received \in [VoteKinds -> [Hashes -> SUBSET Committee]]
    BY DEF CacheInit
  <2>3. recent \in [Stores -> SUBSET Hashes] /\ stored \in [Hashes -> {"nothing", "block", "empty list"}]
    BY DEF CacheInit
  <2> QED
    BY <2>1, <2>2, <2>3 DEF CacheTypes
<1>2. \A k \in VoteKinds : CachedVotes(k) = {} /\ Signed(k) = {}
  BY DEF CacheInit, CachedVotes, Signed
<1>3. CacheSize \in Nat /\ Cardinality({}) = 0
  BY CacheAssumption, FS_EmptySet
<1>4. Bounded
  <2>1. \A s \in Stores : recent[s] = {}
    BY DEF CacheInit
  <2>2. 0 <= CacheSize
    BY <1>3
  <2> QED
    BY <1>2, <1>3, <2>1, <2>2, Zenon DEF Bounded
<1>5. \A k \in VoteKinds : Remembered(k)
  BY DEF CacheInit, Remembered
<1> QED
  BY <1>1, <1>4, <1>5 DEF CacheInv

\* Where everything received fits, the entries cached are the blocks signed.
LEMMA FittingIsCached ==
    ASSUME CacheTypes, NEW k \in VoteKinds, Remembered(k), Cardinality(Signed(k)) <= CacheSize
    PROVE  CachedVotes(k) = Signed(k)
<1>1. \A h \in Hashes : received[k][h] \in SUBSET Committee
  BY DEF CacheTypes
<1> QED
  BY <1>1, OutIsNoVotes DEF Remembered, CachedVotes, Signed

\* Signatures taken from a header (refreshSignatures).
LEMMA RefreshKeeps ==
    ASSUME CacheInv, NEW k \in VoteKinds, NEW h \in Hashes,
           NEW signers \in SUBSET (Committee \cup Strangers), refreshSignatures(k, h, signers)
    PROVE  CacheInv'
<1>1. CacheTypes /\ Bounded /\ \A l \in VoteKinds : Remembered(l)
  BY DEF CacheInv
<1>2. PICK votes \in SUBSET Committee : votes = OfValidators(signers) /\ votes = signers \cap Committee
  BY DEF OfValidators
<1>3. /\ received' = [received EXCEPT ![k][h] = @ \cup votes] /\ recent' = recent
      /\ received' \in [VoteKinds -> [Hashes -> SUBSET Committee]]
      /\ \A l \in VoteKinds, g \in Hashes :
            received'[l][g] = IF l = k /\ g = h THEN received[k][h] \cup votes ELSE received[l][g]
  <2>1. received' = [received EXCEPT ![k][h] = @ \cup votes] /\ recent' = recent
    BY <1>2 DEF refreshSignatures
  <2>2. received \in [VoteKinds -> [Hashes -> SUBSET Committee]] /\ received[k] \in [Hashes -> SUBSET Committee]
    BY <1>1 DEF CacheTypes
  <2>3. PICK row : row = [received[k] EXCEPT ![h] = received[k][h] \cup votes]
    OBVIOUS
  <2>4. /\ row \in [Hashes -> SUBSET Committee]
        /\ \A g \in Hashes : row[g] = IF g = h THEN received[k][h] \cup votes ELSE received[k][g]
    BY <2>2, <2>3
  <2>5. received' = [received EXCEPT ![k] = row]
    BY <2>1, <2>2, <2>3
  <2> QED
    BY <2>1, <2>2, <2>4, <2>5
<1>4. CASE votes = {}
  <2>1. signatures' = signatures /\ stored' = stored
    BY <1>2, <1>4 DEF refreshSignatures
  <2>2. received' = received
    <3>1. received[k][h] \cup votes = received[k][h] /\ received[k] \in [Hashes -> SUBSET Committee]
      BY <1>1, <1>4 DEF CacheTypes
    <3>2. [received[k] EXCEPT ![h] = received[k][h] \cup votes] = received[k]
      BY <3>1
    <3> QED
      BY <1>1, <1>3, <3>2 DEF CacheTypes
  <2>3. \A l \in VoteKinds : CachedVotes(l)' = CachedVotes(l) /\ Signed(l)' = Signed(l)
    BY <2>1, <2>2 DEF CachedVotes, Signed
  <2>4. Bounded'
    BY <1>1, <1>3, <2>3 DEF Bounded
  <2>5. ASSUME NEW l \in VoteKinds PROVE Remembered(l)'
    BY <1>1, <2>1, <2>2, <2>3 DEF Remembered
  <2> QED
    BY <1>1, <1>3, <2>1, <2>2, <2>4, <2>5 DEF CacheInv, CacheTypes
<1>5. CASE votes # {}
  <2>0. \A g \in Hashes : signatures[k][g] \in (SUBSET Committee) \cup {Out}
    <3>1. signatures[k] \in [Hashes -> (SUBSET Committee) \cup {Out}]
      BY <1>1, Zenon DEF CacheTypes
    <3> QED
      BY <3>1, Zenon
  <2>1. PICK gone \in Evicted(CachedVotes(k), h) :
            signatures' = [signatures EXCEPT ![k] = addSignatureFor(k, h, votes, gone)]
    BY <1>2, <1>5 DEF refreshSignatures
  <2>2. stored' = [stored EXCEPT ![h] = "empty list"]
    BY <1>2, <1>5 DEF refreshSignatures
  <2>3. /\ CachedVotes(k) \in SUBSET Hashes /\ Cardinality(CachedVotes(k)) <= CacheSize
    BY <1>1 DEF Bounded, CachedVotes
  <2>4. /\ gone \subseteq CachedVotes(k) /\ h \notin gone
        /\ Cardinality((CachedVotes(k) \ gone) \cup {h}) <= CacheSize
        /\ gone # {} => Cardinality(CachedVotes(k) \cup {h}) = CacheSize + 1
    BY <2>3, RoomIsMade
  <2>5. /\ signatures'[k] = addSignatureFor(k, h, votes, gone)
        /\ \A l \in VoteKinds \ {k} : signatures'[l] = signatures[l]
    BY <1>1, <2>1 DEF CacheTypes
  <2>6. /\ signatures'[k][h] = votes \cup (IF signatures[k][h] = Out THEN {} ELSE signatures[k][h])
        /\ \A g \in Hashes \ {h} : signatures'[k][g] = IF g \in gone THEN Out ELSE signatures[k][g]
    <3>1. signatures'[k][h] = votes \cup (IF signatures[k][h] = Out THEN {} ELSE signatures[k][h])
      BY <2>4, <2>5, Zenon DEF addSignatureFor
    <3>2. ASSUME NEW g \in Hashes \ {h}
          PROVE  signatures'[k][g] = IF g \in gone THEN Out ELSE signatures[k][g]
      BY <2>5, Zenon DEF addSignatureFor
    <3> QED
      BY <3>1, <3>2
  <2>7. signatures'[k][h] \in SUBSET Committee
    <3>1. signatures[k][h] = Out \/ signatures[k][h] \in SUBSET Committee
      BY <2>0, Zenon
    <3> QED
      BY <2>6, <3>1, Zenon
  <2>8. CacheTypes'
    <3>1. addSignatureFor(k, h, votes, gone) \in [Hashes -> (SUBSET Committee) \cup {Out}]
      <4>1. \A g \in Hashes : signatures'[k][g] \in (SUBSET Committee) \cup {Out}
        BY <2>0, <2>6, <2>7, Zenon
      <4> QED
        BY <2>5, <4>1, Zenon DEF addSignatureFor
    <3>2. signatures' \in [VoteKinds -> [Hashes -> (SUBSET Committee) \cup {Out}]]
      BY <1>1, <2>1, <3>1 DEF CacheTypes
    <3> QED
      BY <1>1, <1>3, <2>2, <3>2 DEF CacheTypes
  <2>9. CachedVotes(k)' = (CachedVotes(k) \ gone) \cup {h}
    BY <2>4, <2>6, <2>7, OutIsNoVotes DEF CachedVotes
  <2>10. Bounded'
    <3>1. \A l \in VoteKinds \ {k} : CachedVotes(l)' = CachedVotes(l)
      BY <2>5 DEF CachedVotes
    <3> QED
      BY <1>1, <1>3, <2>4, <2>9, <3>1 DEF Bounded
  <2>11. ASSUME NEW l \in VoteKinds \ {k} PROVE Remembered(l)'
    <3>1. signatures'[l] = signatures[l] /\ \A g \in Hashes : received'[l][g] = received[l][g]
      BY <1>3, <2>5
    <3>2. Signed(l)' = Signed(l)
      BY <3>1 DEF Signed
    <3>3. Remembered(l)
      BY <1>1 DEF CacheInv
    <3>4. \A g \in Hashes : signatures'[l][g] = signatures[l][g]
      BY <3>1
    <3> QED
      BY <3>1, <3>2, <3>3, <3>4 DEF Remembered
  <2>12. Remembered(k)'
    <3>1. Signed(k)' = Signed(k) \cup {h}
      BY <1>3, <1>5 DEF Signed
    <3>2. \A g \in Hashes : signatures'[k][g] # Out =>
              signatures'[k][g] \subseteq received'[k][g] /\ received'[k][g] # {}
      BY <1>1, <1>3, <1>5, <2>6 DEF Remembered
    <3>3. ASSUME Cardinality(Signed(k)') <= CacheSize, NEW g \in Hashes
          PROVE  signatures'[k][g] = IF received'[k][g] = {} THEN Out ELSE received'[k][g]
      <4>1. IsFiniteSet(Signed(k)') /\ Signed(k) \subseteq Signed(k)'
        BY <3>1, CacheAssumption, FS_Subset DEF Signed
      <4>2. /\ Cardinality(Signed(k)) <= Cardinality(Signed(k)') /\ Cardinality(Signed(k)) \in Nat
            /\ Cardinality(Signed(k)') \in Nat /\ CacheSize \in Nat
        BY <4>1, FS_Subset, FS_CardinalityType, CacheAssumption
      <4>3. Cardinality(Signed(k)) <= CacheSize
        BY <3>3, <4>2
      <4>4. CachedVotes(k) = Signed(k)
        BY <1>1, <4>3, FittingIsCached
      <4>5. gone = {}
        BY <2>4, <3>1, <3>3, <4>2, <4>4
      <4>6. \A f \in Hashes : signatures[k][f] = IF received[k][f] = {} THEN Out ELSE received[k][f]
        BY <1>1, <4>3 DEF Remembered
      <4>7. CASE g = h
        <5>1. received'[k][h] = received[k][h] \cup votes /\ received'[k][h] # {}
          BY <1>3, <1>5
        <5>2. received[k][h] \in SUBSET Committee
          BY <1>1 DEF CacheTypes
        <5>3. signatures'[k][h] = votes \cup received[k][h]
          <6>1. CASE received[k][h] = {}
            BY <2>6, <4>6, <6>1, Zenon
          <6>2. CASE received[k][h] # {}
            BY <2>6, <4>6, <5>2, <6>2, OutIsNoVotes, Zenon
          <6> QED
            BY <6>1, <6>2
        <5> QED
          BY <4>7, <5>1, <5>3
      <4>8. CASE g # h
        BY <1>3, <2>6, <4>5, <4>6, <4>8
      <4> QED
        BY <4>7, <4>8
    <3> QED
      BY <3>2, <3>3 DEF Remembered
  <2> QED
    BY <2>8, <2>10, <2>11, <2>12 DEF CacheInv
<1> QED
  BY <1>4, <1>5

\* Blocks come and go without touching the signatures (AddBlock, RemoveBlock).
LEMMA BlocksKeep ==
    ASSUME CacheInv, NEW s \in Stores, NEW h \in Hashes, AddBlock(s, h) \/ RemoveBlock(s, h)
    PROVE  CacheInv'
<1>1. CacheTypes /\ Bounded /\ signatures' = signatures /\ received' = received
  BY DEF CacheInv, AddBlock, RemoveBlock
<1>2. \A k \in VoteKinds : Remembered(k)' /\ CachedVotes(k)' = CachedVotes(k)
  BY <1>1 DEF CacheInv, Remembered, Signed, CachedVotes
<1>3. stored' \in [Hashes -> {"nothing", "block", "empty list"}]
  BY <1>1 DEF CacheTypes, AddBlock, RemoveBlock
<1>4. PICK kept \in SUBSET Hashes :
          recent' = [recent EXCEPT ![s] = kept] /\ Cardinality(kept) <= CacheSize
  <2>1. recent[s] \in SUBSET Hashes /\ Cardinality(recent[s]) <= CacheSize
    BY <1>1 DEF CacheTypes, Bounded
  <2>2. CASE AddBlock(s, h)
    <3>1. PICK gone \in Evicted(recent[s], h) : recent' = [recent EXCEPT ![s] = (@ \ gone) \cup {h}]
      BY <2>2 DEF AddBlock
    <3>2. Cardinality((recent[s] \ gone) \cup {h}) <= CacheSize
      BY <2>1, RoomIsMade
    <3> QED
      BY <2>1, <3>1, <3>2
  <2>3. CASE RemoveBlock(s, h)
    <3>1. recent' = [recent EXCEPT ![s] = recent[s] \ {h}]
      BY <2>3 DEF RemoveBlock
    <3>2. IsFiniteSet(recent[s]) /\ recent[s] \ {h} \subseteq recent[s] /\ CacheSize \in Nat
      BY <2>1, CacheAssumption, FS_Subset
    <3>3. /\ Cardinality(recent[s] \ {h}) <= Cardinality(recent[s])
          /\ Cardinality(recent[s] \ {h}) \in Nat /\ Cardinality(recent[s]) \in Nat
      BY <3>2, FS_Subset, FS_CardinalityType
    <3>4. Cardinality(recent[s] \ {h}) <= CacheSize
      BY <2>1, <3>2, <3>3
    <3> QED
      BY <2>1, <3>1, <3>4
  <2> QED
    BY <2>2, <2>3
<1>5. CacheTypes'
  BY <1>1, <1>3, <1>4 DEF CacheTypes
<1>6. Bounded'
  BY <1>1, <1>2, <1>4 DEF Bounded, CacheTypes
<1> QED
  BY <1>2, <1>5, <1>6 DEF CacheInv

\* A restart empties the caches and what counts as received since the start.
LEMMA CacheRestartKeeps ==
    ASSUME CacheInv, CacheRestart
    PROVE  CacheInv'
<1>1. CacheTypes
  BY DEF CacheInv
<1>2. CacheTypes'
  <2>1. signatures' \in [VoteKinds -> [Hashes -> (SUBSET Committee) \cup {Out}]]
    BY Zenon DEF CacheRestart
  <2>2. received' \in [VoteKinds -> [Hashes -> SUBSET Committee]]
    BY DEF CacheRestart
  <2>3. recent' \in [Stores -> SUBSET Hashes] /\ stored' \in [Hashes -> {"nothing", "block", "empty list"}]
    BY <1>1 DEF CacheRestart, CacheTypes
  <2> QED
    BY <2>1, <2>2, <2>3 DEF CacheTypes
<1>3. \A k \in VoteKinds : CachedVotes(k)' = {} /\ Signed(k)' = {}
  BY DEF CacheRestart, CachedVotes, Signed
<1>4. Bounded'
  <2>1. \A s \in Stores : recent'[s] = {}
    BY DEF CacheRestart
  <2>2. 0 <= CacheSize /\ Cardinality({}) = 0
    BY CacheAssumption, FS_EmptySet
  <2> QED
    BY <1>3, <2>1, <2>2, Zenon DEF Bounded
<1>5. ASSUME NEW k \in VoteKinds PROVE Remembered(k)'
  BY DEF CacheRestart, Remembered
<1> QED
  BY <1>2, <1>4, <1>5 DEF CacheInv

\* The invariant is inductive: one case for each operation of the caches.
LEMMA CacheStep == CacheInv /\ [CacheNext]_cacheVars => CacheInv'
<1> SUFFICES ASSUME CacheInv, [CacheNext]_cacheVars PROVE CacheInv'
  OBVIOUS
<1>1. ASSUME NEW k \in VoteKinds, NEW h \in Hashes, NEW signers \in SUBSET (Committee \cup Strangers),
             refreshSignatures(k, h, signers)
      PROVE  CacheInv'
  BY <1>1, RefreshKeeps
<1>2. ASSUME NEW s \in Stores, NEW h \in Hashes, AddBlock(s, h)
      PROVE  CacheInv'
  BY <1>2, BlocksKeep
<1>3. ASSUME NEW h \in Hashes, RemoveBlock("unknownAncestors", h)
      PROVE  CacheInv'
  BY <1>3, BlocksKeep DEF Stores
<1>4. CASE CacheRestart
  BY <1>4, CacheRestartKeeps
<1>5. CASE UNCHANGED cacheVars
  <2>1. signatures' = signatures /\ recent' = recent /\ stored' = stored /\ received' = received
    BY <1>5 DEF cacheVars
  <2>2. CacheTypes'
    BY <2>1 DEF CacheInv, CacheTypes
  <2>3. \A k \in VoteKinds : CachedVotes(k)' = CachedVotes(k) /\ Signed(k)' = Signed(k)
    BY <2>1 DEF CachedVotes, Signed
  <2>4. Bounded'
    BY <2>1, <2>3 DEF CacheInv, Bounded
  <2>5. ASSUME NEW k \in VoteKinds PROVE Remembered(k)'
    BY <2>1, <2>3 DEF CacheInv, Remembered
  <2> QED
    BY <2>2, <2>4, <2>5 DEF CacheInv
<1> QED
  BY <1>1, <1>2, <1>3, <1>4, <1>5 DEF CacheNext

\* The inductive invariant holds for every committee, set of blocks and cache size.
THEOREM CacheInvariant == CacheSpec => []CacheInv
<1>1. CacheInit => CacheInv
  BY CacheInitially
<1>2. CacheInv /\ [CacheNext]_cacheVars => CacheInv'
  BY CacheStep
<1> QED
  BY <1>1, <1>2, PTL DEF CacheSpec

\* The caches never hold more than their size (the ARC caches of NewLBFT2), and what
\* they and the database hold has its type.
THEOREM CachesStayBounded == CacheSpec => []CacheTypeOK
<1>1. CacheInv => CacheTypeOK
  BY DEF CacheInv, CacheTypes, Bounded, CacheTypeOK
<1> QED
  BY <1>1, CacheInvariant, PTL

\* What getSignaturesCountOf counts towards a certificate was signed by validators
\* for that block and phase; while the signed blocks fit, the count is exact.
THEOREM CountsAreOfVotes == CacheSpec => []CountIsOfVotes
<1>1. ASSUME CacheInv, NEW k \in VoteKinds
      PROVE  /\ \A h \in Hashes : signatures[k][h] # Out => signatures[k][h] \subseteq received[k][h]
             /\ Cardinality({h \in Hashes : received[k][h] # {}}) <= CacheSize =>
                   \A h \in Hashes : getSignaturesCountOf(k, h) = Cardinality(received[k][h])
  <2>1. Remembered(k) /\ CacheTypes
    BY <1>1 DEF CacheInv
  <2>2. ASSUME Cardinality(Signed(k)) <= CacheSize, NEW h \in Hashes
        PROVE  getSignaturesCountOf(k, h) = Cardinality(received[k][h])
    <3>1. signatures[k][h] = IF received[k][h] = {} THEN Out ELSE received[k][h]
      BY <2>1, <2>2 DEF Remembered
    <3>2. received[k][h] \in SUBSET Committee
      BY <2>1 DEF CacheTypes
    <3>3. CASE received[k][h] = {}
      BY <3>1, <3>3, FS_EmptySet DEF getSignaturesCountOf
    <3>4. CASE received[k][h] # {}
      BY <3>1, <3>2, <3>4, OutIsNoVotes DEF getSignaturesCountOf
    <3> QED
      BY <3>3, <3>4
  <2> QED
    BY <2>1, <2>2 DEF Remembered, Signed
<1>2. CacheInv => CountIsOfVotes
  BY <1>1, Zenon DEF CountIsOfVotes
<1> QED
  BY <1>2, CacheInvariant, PTL

\* Only addBlock makes a block findable: no signature, removal or restart turns
\* other bytes under its hash into a block.
THEOREM FoundBlocksAreAdded == CacheSpec => FoundBlocksWereAdded
<1>1. ASSUME CacheInv, [CacheNext]_cacheVars, NEW s \in Stores, NEW h \in Hashes,
             GetBlock(s, h)', ~GetBlock(s, h)
      PROVE  \E t \in Stores : h \in recent'[t]
  <2>0. CacheTypes
    BY <1>1 DEF CacheInv
  <2>1. ASSUME NEW k \in VoteKinds, NEW g \in Hashes, NEW signers \in SUBSET (Committee \cup Strangers),
               refreshSignatures(k, g, signers)
        PROVE  FALSE
    <3>1. recent' = recent /\ (stored' = stored \/ stored' = [stored EXCEPT ![g] = "empty list"])
      BY <2>1 DEF refreshSignatures
    <3> QED
      BY <1>1, <2>0, <3>1 DEF GetBlock, CacheTypes
  <2>2. ASSUME NEW t \in Stores, NEW g \in Hashes, AddBlock(t, g)
        PROVE  \E u \in Stores : h \in recent'[u]
    <3>1. g \in recent'[t]
      <4>1. PICK gone : recent' = [recent EXCEPT ![t] = (@ \ gone) \cup {g}]
        BY <2>2 DEF AddBlock
      <4> QED
        BY <2>0, <4>1 DEF CacheTypes
    <3>2. stored' = [stored EXCEPT ![g] = "block"]
      BY <2>2 DEF AddBlock
    <3>3. CASE g = h
      BY <3>1, <3>3
    <3>4. CASE g # h
      <4>1. stored'[h] = stored[h]
        BY <2>0, <3>2, <3>4 DEF CacheTypes
      <4>2. h \in recent'[s]
        BY <1>1, <4>1 DEF GetBlock
      <4> QED
        BY <4>2
    <3> QED
      BY <3>3, <3>4
  <2>3. ASSUME NEW g \in Hashes, RemoveBlock("unknownAncestors", g)
        PROVE  FALSE
    <3>1. stored'[h] = "block" => stored[h] = "block"
      BY <2>0, <2>3 DEF RemoveBlock, CacheTypes
    <3>2. h \in recent'[s] => h \in recent[s]
      BY <2>0, <2>3 DEF RemoveBlock, CacheTypes, Stores
    <3> QED
      BY <1>1, <3>1, <3>2 DEF GetBlock
  <2>4. CASE CacheRestart
    BY <1>1, <2>4 DEF CacheRestart, GetBlock
  <2>5. CASE UNCHANGED cacheVars
    BY <1>1, <2>5 DEF cacheVars, GetBlock
  <2> QED
    BY <1>1, <2>1, <2>2, <2>3, <2>4, <2>5 DEF CacheNext
<1>2. CacheInv /\ [CacheNext]_cacheVars =>
          [\A s \in Stores, h \in Hashes :
             GetBlock(s, h)' /\ ~GetBlock(s, h) => \E t \in Stores : h \in recent'[t]]_cacheVars
  BY <1>1
<1> QED
  BY <1>2, CacheInvariant, PTL DEF CacheSpec, FoundBlocksWereAdded

=============================================================================
