---------------------------- MODULE CpcApiProofs ----------------------------
(***************************************************************************)
(* Proofs about the interface for users: the requests that send            *)
(* transactions, for any number of concurrent requests, accounts and       *)
(* nonces and any rate; gas estimates, for every width of machine words    *)
(* and every limit; and the answers put together from several reads, for   *)
(* every length of terms and views.                                        *)
(***************************************************************************)
EXTENDS CpcApi, WellFoundedInduction, TLAPS

SendPcs == {"idle", "lock", "fill", "match", "seal", "sign", "submit", "done", "error"}
CallRecords == [pc : SendPcs, req : Requests \cup {NoReq}, nonce : Int]
TxRecords == [by : Clients \cup {"nobody"}, auto : BOOLEAN, private : BOOLEAN, price : Nat]
Pools == [Senders -> [0 .. MaxNonce -> TxRecords]]
SendTypes ==
    /\ call \in [Clients -> CallRecords]
    /\ holder \in [Senders -> Clients \cup {"nobody"}]
    /\ pool \in Pools
    /\ minedTxs \in [Senders -> Nat]
    /\ \A a \in Senders : minedTxs[a] <= MaxNonce + 1

\* What a request has behind it: one that left the nonce to the node holds the mutex of its
\* account from LockAddr on, and its nonce is not taken by another such; one that seals its
\* payload has put it in the remote database.
ClientOK(c) ==
    LET k == call[c] IN
    /\ k.pc # "idle" => k.req \in Requests
    /\ k.pc = "lock" => Automatic(k.req)
    /\ k.pc = "match" => k.req.api = "resend"
    /\ k.pc \in {"fill", "seal", "sign", "submit"} /\ Automatic(k.req) => holder[k.req.from] = c
    /\ k.pc \in {"seal", "sign", "submit"} /\ Automatic(k.req) =>
           k.nonce \in Nat /\ (k.nonce <= MaxNonce => ~pool[k.req.from][k.nonce].auto)
    /\ k.pc \in {"sign", "submit"} /\ Seals(k.req) => Sealed(c) \in remote

\* The mutex of an account is held by a request of that account that is under way.
HolderOK(a) ==
    holder[a] # "nobody" => /\ call[holder[a]].pc \in {"fill", "seal", "sign", "submit"}
                            /\ call[holder[a]].req.from = a /\ Automatic(call[holder[a]].req)

\* The tokens left, and the requests let through, come from the time that has passed.
BucketOK ==
    /\ bucket \in [tokens : Int, lastTokenSec : Nat]
    /\ sendHist \in [clock : Nat, top : Nat, steps : Nat, allowed : Nat]
    /\ sendHist.clock <= sendHist.top
    /\ sendHist.allowed + bucket.tokens <= bucket.lastTokenSec * Rate
    /\ sendHist.allowed <= sendHist.top * Rate

SendInv ==
    /\ SendTypes
    /\ \A c \in Clients : ClientOK(c)
    /\ \A a \in Senders : HolderOK(a)
    /\ PrivateStored /\ BucketOK

\* The larger and the smaller of two numbers.
LEMMA OfTwo ==
    ASSUME NEW x \in Int, NEW y \in Int
    PROVE  /\ Max({x, y}) \in {x, y} /\ Max({x, y}) >= x /\ Max({x, y}) >= y
           /\ Min({x, y}) \in {x, y} /\ Min({x, y}) <= x /\ Min({x, y}) <= y
<1>1. \E m \in {x, y} : \A z \in {x, y} : m >= z
  OBVIOUS
<1>2. \E m \in {x, y} : \A z \in {x, y} : m <= z
  OBVIOUS
<1> QED
  BY <1>1, <1>2 DEF Max, Min

\* A set of numbers that is not empty has a least one: < is well-founded.
LEMMA LeastNatural == ASSUME NEW S \in SUBSET Nat, S # {} PROVE \E n \in S : \A m \in S : n <= m
<1>1. PICK R : R = OpToRel(<, Nat)
  OBVIOUS
<1>2. IsWellFoundedOn(R, Nat)
  BY <1>1, NatLessThanWellFounded
<1>3. PICK n \in S : \A m \in S : ~(<<m, n>> \in R)
  BY <1>2, WFMin
<1>4. \A m \in S : ~(m < n)
  BY <1>1, <1>3 DEF OpToRel
<1> QED
  BY <1>4

\* The nonce of the pool is the first for which the pool has no transaction.
LEMMA PoolNonce ==
    ASSUME SendTypes, NEW a \in Senders
    PROVE  GetPoolNonce(a) \in Nat /\ (GetPoolNonce(a) <= MaxNonce => pool[a][GetPoolNonce(a)] = NoTx)
<1>1. PICK S : S = {n \in minedTxs[a] .. MaxNonce + 1 : n > MaxNonce \/ pool[a][n] = NoTx}
  OBVIOUS
<1>2. minedTxs[a] \in Nat /\ minedTxs[a] <= MaxNonce + 1 /\ MaxNonce \in Nat
  BY SendAssumption DEF SendTypes
<1>3. S \in SUBSET Nat /\ S # {}
  <2>1. MaxNonce + 1 \in S
    BY <1>1, <1>2
  <2> QED
    BY <1>1, <1>2, <2>1
<1>4. \E n \in S : \A m \in S : n <= m
  BY <1>3, LeastNatural
<1>5. Min(S) \in S
  BY <1>4 DEF Min
<1>6. GetPoolNonce(a) = Min(S)
  BY <1>1 DEF GetPoolNonce
<1> QED
  BY <1>1, <1>2, <1>3, <1>5, <1>6

\* Without requests there is nothing to hold.
LEMMA SendInitially == SendInit => SendInv
<1> SUFFICES ASSUME SendInit PROVE SendInv
  OBVIOUS
<1>1. /\ \A c \in Clients : call[c] = [pc |-> "idle", req |-> NoReq, nonce |-> NoNonce]
      /\ \A a \in Senders : holder[a] = "nobody" /\ minedTxs[a] = 0
      /\ \A a \in Senders, n \in 0 .. MaxNonce : pool[a][n] = NoTx
  BY DEF SendInit
<1>2. NoTx \in TxRecords /\ ~NoTx.auto /\ ~NoTx.private /\ MaxNonce \in Nat
  BY SendAssumption DEF NoTx, TxRecords
<1>3. SendTypes
  <2>1. call \in [Clients -> CallRecords]
    BY DEF SendInit, CallRecords, SendPcs, NoNonce
  <2>2. holder \in [Senders -> Clients \cup {"nobody"}] /\ minedTxs \in [Senders -> Nat]
    BY DEF SendInit
  <2>3. pool \in Pools
    BY <1>2 DEF SendInit, Pools
  <2> QED
    BY <1>1, <1>2, <2>1, <2>2, <2>3 DEF SendTypes
<1>4. ASSUME NEW c \in Clients PROVE ClientOK(c)
  <2>1. call[c].pc = "idle"
    BY <1>1
  <2> QED
    BY <2>1 DEF ClientOK
<1>5. \A a \in Senders : HolderOK(a)
  BY <1>1 DEF HolderOK
<1>6. PrivateStored
  BY <1>1, <1>2 DEF PrivateStored
<1>7. BucketOK
  <2>1. Rate \in Nat /\ 0 * Rate = 0
    BY SendAssumption
  <2> QED
    BY <2>1 DEF SendInit, BucketOK
<1> QED
  BY <1>3, <1>4, <1>5, <1>6, <1>7 DEF SendInv

\* A step of one request that leaves the others their mutexes, adds payloads only, and puts
\* no transaction with a nonce of the node's choice in the pool unless it holds the mutex.
LEMMA SendFrame ==
    ASSUME SendInv, NEW c \in Clients, NEW k \in CallRecords, call' = [call EXCEPT ![c] = k],
           holder' \in [Senders -> Clients \cup {"nobody"}],
           \A a \in Senders : /\ holder'[a] = holder[a] \/ holder[a] \in {c, "nobody"}
                              /\ holder'[a] \in {holder[a], c, "nobody"}
                              /\ holder'[a] = c => /\ k.pc \in {"fill", "seal", "sign", "submit"}
                                                   /\ k.req.from = a /\ Automatic(k.req),
           pool' \in Pools, minedTxs' = minedTxs, remote \subseteq remote',
           \A a \in Senders, n \in 0 .. MaxNonce : pool'[a][n].auto => pool[a][n].auto \/ holder[a] = c,
           ClientOK(c)', PrivateStored', BucketOK'
    PROVE  SendInv'
<1>1. SendTypes /\ (\A d \in Clients : ClientOK(d)) /\ (\A a \in Senders : HolderOK(a)) /\ MaxNonce \in Nat
  BY SendAssumption DEF SendInv
<1>2. call' \in [Clients -> CallRecords] /\ call'[c] = k /\ \A d \in Clients \ {c} : call'[d] = call[d]
  BY <1>1 DEF SendTypes
<1>3. SendTypes'
  BY <1>1, <1>2 DEF SendTypes
<1>4. ASSUME NEW d \in Clients PROVE ClientOK(d)'
  <2>1. CASE d = c
    BY <2>1
  <2>2. CASE d # c
    <3>1. call'[d] = call[d] /\ ClientOK(d) /\ d # "nobody"
      BY <1>1, <1>2, <2>2, SendAssumption
    <3>2. call[d].pc # "idle" => call[d].req.from \in Senders
      BY <3>1, SendAssumption DEF ClientOK
    <3>3. call[d].pc \in {"fill", "seal", "sign", "submit"} /\ Automatic(call[d].req) =>
              holder[call[d].req.from] = d /\ holder'[call[d].req.from] = d
      BY <2>2, <3>1, <3>2 DEF ClientOK
    <3>4. call[d].pc \in {"seal", "sign", "submit"} /\ Automatic(call[d].req) =>
              call[d].nonce \in Nat /\ (call[d].nonce <= MaxNonce => ~pool'[call[d].req.from][call[d].nonce].auto)
      <4> SUFFICES ASSUME call[d].pc \in {"seal", "sign", "submit"}, Automatic(call[d].req)
                   PROVE call[d].nonce \in Nat /\ (call[d].nonce <= MaxNonce => ~pool'[call[d].req.from][call[d].nonce].auto)
        OBVIOUS
      <4>1. call[d].nonce \in Nat /\ (call[d].nonce <= MaxNonce => ~pool[call[d].req.from][call[d].nonce].auto)
        BY <3>1 DEF ClientOK
      <4>2. holder[call[d].req.from] # c /\ call[d].req.from \in Senders
        BY <2>2, <3>2, <3>3
      <4>3. PICK n \in Nat : n = call[d].nonce
        BY <4>1
      <4>4. n <= MaxNonce => n \in 0 .. MaxNonce
        BY <1>1
      <4> QED
        BY <4>1, <4>2, <4>3, <4>4
    <3>5. Sealed(d)' = Sealed(d)
      BY <3>1 DEF Sealed
    <3> QED
      BY <3>1, <3>3, <3>4, <3>5 DEF ClientOK
  <2> QED
    BY <2>1, <2>2
<1>5. ASSUME NEW a \in Senders PROVE HolderOK(a)'
  <2>1. CASE holder'[a] = c
    BY <1>2, <2>1 DEF HolderOK
  <2>2. CASE holder'[a] # c /\ holder'[a] # "nobody"
    <3>1. PICK d \in Clients \ {c} : holder'[a] = d /\ holder[a] = d
      BY <2>2
    <3> QED
      BY <1>1, <1>2, <3>1 DEF HolderOK
  <2>3. CASE holder'[a] = "nobody"
    BY <2>3 DEF HolderOK
  <2> QED
    BY <2>1, <2>2, <2>3
<1> QED
  BY <1>3, <1>4, <1>5 DEF SendInv

\* What a step of a request with the given record does to the record, if it only moves on.
LEMMA Moved ==
    ASSUME SendInv, NEW c \in Clients, NEW to \in SendPcs, Goto(c, to)
    PROVE  \E k \in CallRecords : /\ call' = [call EXCEPT ![c] = k] /\ call'[c] = k
                                  /\ k.pc = to /\ k.req = call[c].req /\ k.nonce = call[c].nonce
<1>1. call \in [Clients -> CallRecords] /\ call[c] \in CallRecords
  BY DEF SendInv, SendTypes
<1>2. PICK k : k = [call[c] EXCEPT !.pc = to]
  OBVIOUS
<1>3. k \in CallRecords /\ k.pc = to /\ k.req = call[c].req /\ k.nonce = call[c].nonce
  BY <1>1, <1>2 DEF CallRecords
<1>4. call' = [call EXCEPT ![c] = k]
  BY <1>2 DEF Goto
<1>5. call'[c] = k
  BY <1>1, <1>4
<1> QED
  BY <1>3, <1>4, <1>5

\* Payloads that were stored stay stored while the pool is left as it is, and the bucket is
\* as good as before if nobody asks it.
LEMMA NothingSpent ==
    ASSUME SendInv, pool' = pool, remote \subseteq remote' PROVE PrivateStored'
BY DEF SendInv, PrivateStored

\* The bucket, when no request meets it.
LEMMA BucketLeft ==
    ASSUME SendInv, bucket' = bucket, sendHist' = sendHist PROVE BucketOK'
BY DEF SendInv, BucketOK

\* The deferred UnlockAddr: what the request held is free, the rest is as it was.
LEMMA UnlockedHolder ==
    ASSUME SendInv, NEW c \in Clients, NEW to, holder' = Unlocked(c, to)
    PROVE  /\ holder' \in [Senders -> Clients \cup {"nobody"}]
           /\ \A a \in Senders : /\ holder'[a] = holder[a] \/ holder[a] \in {c, "nobody"}
                                 /\ holder'[a] \in {holder[a], c, "nobody"}
                                 /\ holder'[a] # c
<1>1. holder \in [Senders -> Clients \cup {"nobody"}] /\ c # "nobody"
  BY SendAssumption DEF SendInv, SendTypes
<1> QED
  BY <1>1 DEF Unlocked

\* A request that returns, with a result or with an error.
LEMMA ReturnKeeps ==
    ASSUME SendInv, NEW c \in Clients, call[c].pc # "idle", NEW to \in {"done", "error"}, Return(c, to),
           pool' \in Pools, minedTxs' = minedTxs, remote \subseteq remote',
           \A a \in Senders, n \in 0 .. MaxNonce : pool'[a][n].auto => pool[a][n].auto \/ holder[a] = c,
           PrivateStored', BucketOK'
    PROVE  SendInv'
<1>1. to \in SendPcs /\ Goto(c, to) /\ holder' = Unlocked(c, to)
  BY DEF SendPcs, Return
<1>2. PICK k \in CallRecords : /\ call' = [call EXCEPT ![c] = k] /\ call'[c] = k
                               /\ k.pc = to /\ k.req = call[c].req /\ k.nonce = call[c].nonce
  BY <1>1, Moved
<1>3. /\ holder' \in [Senders -> Clients \cup {"nobody"}]
      /\ \A a \in Senders : /\ holder'[a] = holder[a] \/ holder[a] \in {c, "nobody"}
                            /\ holder'[a] \in {holder[a], c, "nobody"}
                            /\ holder'[a] # c
  BY <1>1, UnlockedHolder
<1>4. ClientOK(c)'
  <2>1. call[c].req \in Requests
    BY DEF SendInv, ClientOK
  <2> QED
    BY <1>2, <2>1 DEF ClientOK
<1> QED
  BY <1>2, <1>3, <1>4, SendFrame

\* A request that goes on, with its mutex if it has one.
LEMMA GoesOn ==
    ASSUME SendInv, NEW c \in Clients, NEW k \in CallRecords, call' = [call EXCEPT ![c] = k],
           call[c].pc # "idle", k.req = call[c].req,
           call[c].pc \in {"fill", "match", "seal", "sign"}, k.pc \in {"match", "seal", "sign", "submit"},
           k.pc = "match" => k.req.api = "resend",
           Automatic(k.req) /\ k.pc # "match" =>
               k.nonce \in Nat /\ (k.nonce <= MaxNonce => ~pool[k.req.from][k.nonce].auto),
           k.pc \in {"sign", "submit"} /\ Seals(k.req) => Sealed(c)' \in remote',
           holder' = holder, pool' = pool, minedTxs' = minedTxs, remote \subseteq remote',
           bucket' = bucket, sendHist' = sendHist
    PROVE  SendInv'
<1>1. SendTypes /\ ClientOK(c) /\ c # "nobody" /\ call'[c] = k
  BY SendAssumption DEF SendInv, SendTypes
<1>2. k.req \in Requests /\ k.req.from \in Senders
  BY <1>1, SendAssumption DEF ClientOK
<1>3. k.req.api = "resend" => ~Automatic(k.req)
  BY <1>2, SendAssumption DEF Automatic, NoNonce
<1>4. call[c].pc = "match" => ~Automatic(k.req)
  BY <1>1, <1>3 DEF ClientOK
<1>5. k.pc = "match" => ~Automatic(k.req)
  BY <1>3
<1>6. Automatic(k.req) => holder[k.req.from] = c
  BY <1>1, <1>4 DEF ClientOK
<1>7. ASSUME NEW a \in Senders, holder[a] = c
      PROVE  k.pc \in {"fill", "seal", "sign", "submit"} /\ k.req.from = a /\ Automatic(k.req)
  <2>1. HolderOK(a)
    BY DEF SendInv
  <2>2. k.req.from = a /\ Automatic(k.req)
    BY <1>1, <1>7, <2>1 DEF HolderOK
  <2> QED
    BY <1>5, <2>2
<1>8. ClientOK(c)'
  BY <1>1, <1>2, <1>5, <1>6 DEF ClientOK
<1>9. PrivateStored' /\ BucketOK'
  BY NothingSpent, BucketLeft
<1>10. pool' \in Pools /\ holder' \in [Senders -> Clients \cup {"nobody"}]
  BY <1>1 DEF SendTypes
<1>11. \A a \in Senders : /\ holder'[a] = holder[a] \/ holder[a] \in {c, "nobody"}
                          /\ holder'[a] \in {holder[a], c, "nobody"}
                          /\ holder'[a] = c => /\ k.pc \in {"fill", "seal", "sign", "submit"}
                                               /\ k.req.from = a /\ Automatic(k.req)
  BY <1>7
<1>12. \A a \in Senders, n \in 0 .. MaxNonce : pool'[a][n].auto => pool[a][n].auto \/ holder[a] = c
  OBVIOUS
<1> QED
  BY <1>8, <1>9, <1>10, <1>11, <1>12, SendFrame

\* A request that fails returns without a trace but the unlocked mutex.
LEMMA FailKeeps ==
    ASSUME SendInv, NEW c \in Clients, call[c].pc # "idle", Return(c, "error"),
           pool' = pool, minedTxs' = minedTxs, remote' = remote, bucket' = bucket, sendHist' = sendHist
    PROVE  SendInv'
<1>1. PrivateStored' /\ BucketOK'
  BY NothingSpent, BucketLeft
<1>2. pool' \in Pools
  BY DEF SendInv, SendTypes
<1>3. \A a \in Senders, n \in 0 .. MaxNonce : pool'[a][n].auto => pool[a][n].auto \/ holder[a] = c
  OBVIOUS
<1> QED
  BY <1>1, <1>2, <1>3, ReturnKeeps

\* LockAddr: the mutex was free.
LEMMA LockKeeps == ASSUME SendInv, NEW c \in Clients, LockAddr(c) PROVE SendInv'
<1>1. SendTypes /\ ClientOK(c) /\ c # "nobody" /\ "fill" \in SendPcs /\ Goto(c, "fill")
  BY SendAssumption DEF SendInv, SendPcs, LockAddr
<1>2. PICK k \in CallRecords : /\ call' = [call EXCEPT ![c] = k] /\ call'[c] = k
                               /\ k.pc = "fill" /\ k.req = call[c].req /\ k.nonce = call[c].nonce
  BY <1>1, Moved
<1>3. k.req \in Requests /\ k.req.from \in Senders /\ Automatic(k.req)
  BY <1>1, <1>2, SendAssumption DEF ClientOK, LockAddr
<1>4. holder[k.req.from] = "nobody" /\ holder' = [holder EXCEPT ![k.req.from] = c]
  BY <1>2 DEF LockAddr, MayLock
<1>5. ASSUME NEW a \in Senders, holder[a] = c PROVE FALSE
  BY <1>1, <1>5 DEF SendInv, HolderOK, LockAddr
<1>6. /\ holder' \in [Senders -> Clients \cup {"nobody"}]
      /\ \A a \in Senders : /\ holder'[a] = holder[a] \/ holder[a] \in {c, "nobody"}
                            /\ holder'[a] \in {holder[a], c, "nobody"}
                            /\ holder'[a] = c => a = k.req.from
  BY <1>1, <1>3, <1>4, <1>5 DEF SendTypes
<1>7. holder'[k.req.from] = c
  BY <1>1, <1>3, <1>4 DEF SendTypes
<1>8. ClientOK(c)'
  BY <1>2, <1>3, <1>7 DEF ClientOK
<1>9. PrivateStored' /\ BucketOK'
  BY NothingSpent, BucketLeft DEF LockAddr
<1>10. pool' \in Pools /\ minedTxs' = minedTxs /\ remote \subseteq remote'
  BY <1>1 DEF LockAddr, SendTypes
<1>11. \A a \in Senders, n \in 0 .. MaxNonce : pool'[a][n].auto => pool[a][n].auto \/ holder[a] = c
  BY DEF LockAddr
<1>12. \A a \in Senders : /\ holder'[a] = holder[a] \/ holder[a] \in {c, "nobody"}
                          /\ holder'[a] \in {holder[a], c, "nobody"}
                          /\ holder'[a] = c => /\ k.pc \in {"fill", "seal", "sign", "submit"}
                                               /\ k.req.from = a /\ Automatic(k.req)
  BY <1>2, <1>3, <1>6
<1> QED
  BY <1>2, <1>6, <1>8, <1>9, <1>10, <1>11, <1>12, SendFrame

\* setDefaults reads the pool's nonce under the mutex: the pool has nothing for it.
LEMMA FillKeeps == ASSUME SendInv, NEW c \in Clients, setDefaults(c) PROVE SendInv'
<1>1. /\ SendTypes /\ ClientOK(c) /\ call[c].pc = "fill" /\ call[c] \in CallRecords
      /\ pool' = pool /\ minedTxs' = minedTxs /\ remote' = remote /\ bucket' = bucket /\ sendHist' = sendHist
  BY DEF SendInv, SendTypes, setDefaults
<1>2. PICK r : r = call[c].req
  OBVIOUS
<1>3. r \in Requests /\ r.from \in Senders /\ r.nonce \in Int
  BY <1>1, <1>2, SendAssumption DEF ClientOK
<1>4. CASE Return(c, "error")
  BY <1>1, <1>4, FailKeeps
<1>5. ASSUME NEW nn, NEW pc, nn = (IF Automatic(r) THEN GetPoolNonce(r.from) ELSE r.nonce),
             pc = (IF r.api = "resend" THEN "match" ELSE IF Seals(r) THEN "seal" ELSE "sign"),
             call' = [call EXCEPT ![c].nonce = nn, ![c].pc = pc], holder' = holder
      PROVE  SendInv'
  <2>1. GetPoolNonce(r.from) \in Nat /\ (GetPoolNonce(r.from) <= MaxNonce => pool[r.from][GetPoolNonce(r.from)] = NoTx)
    BY <1>1, <1>3, PoolNonce
  <2>2. nn \in Int /\ pc \in {"match", "seal", "sign"} /\ pc \in SendPcs
    BY <1>3, <1>5, <2>1 DEF SendPcs
  <2>3. PICK k : k = [call[c] EXCEPT !.nonce = nn, !.pc = pc]
    OBVIOUS
  <2>4. k \in CallRecords /\ k.pc = pc /\ k.nonce = nn /\ k.req = r
    BY <1>1, <1>2, <2>2, <2>3 DEF CallRecords
  <2>5. call' = [call EXCEPT ![c] = k]
    BY <1>1, <1>5, <2>3 DEF SendTypes
  <2>6. Automatic(r) => nn \in Nat /\ (nn <= MaxNonce => ~pool[r.from][nn].auto)
    <3>1. ~NoTx.auto
      BY DEF NoTx
    <3> QED
      BY <1>5, <2>1, <3>1
  <2>7. pc = "match" => r.api = "resend"
    BY <1>5
  <2>8. ~(pc \in {"sign", "submit"} /\ Seals(r))
    BY <1>5 DEF Seals
  <2>9. /\ k.pc \in {"match", "seal", "sign", "submit"} /\ (k.pc = "match" => k.req.api = "resend")
        /\ Automatic(k.req) /\ k.pc # "match" =>
               k.nonce \in Nat /\ (k.nonce <= MaxNonce => ~pool[k.req.from][k.nonce].auto)
        /\ ~(k.pc \in {"sign", "submit"} /\ Seals(k.req))
    BY <2>2, <2>4, <2>6, <2>7, <2>8
  <2>10. k \in CallRecords /\ k.req = call[c].req /\ remote \subseteq remote' /\ holder' = holder
    BY <1>1, <1>2, <1>5, <2>4
  <2> QED
    BY <1>1, <2>5, <2>9, <2>10, GoesOn
<1> QED
  BY <1>2, <1>4, <1>5 DEF setDefaults

\* Resend goes on only with the nonce of the request.
LEMMA MatchKeeps == ASSUME SendInv, NEW c \in Clients, Match(c) PROVE SendInv'
<1>1. /\ ClientOK(c) /\ call[c].pc = "match"
      /\ pool' = pool /\ minedTxs' = minedTxs /\ remote' = remote /\ bucket' = bucket /\ sendHist' = sendHist
  BY DEF SendInv, Match
<1>2. CASE Return(c, "error")
  BY <1>1, <1>2, FailKeeps
<1>3. CASE Goto(c, "sign") /\ holder' = holder
  <2>1. PICK k \in CallRecords : /\ call' = [call EXCEPT ![c] = k] /\ call'[c] = k
                                 /\ k.pc = "sign" /\ k.req = call[c].req /\ k.nonce = call[c].nonce
    BY <1>3, Moved DEF SendPcs
  <2>2. k.req \in Requests /\ k.req.api = "resend"
    BY <1>1, <2>1 DEF ClientOK
  <2>3. ~Automatic(k.req) /\ ~Seals(k.req)
    BY <2>2, SendAssumption DEF Automatic, NoNonce, Seals
  <2> QED
    BY <1>1, <1>3, <2>1, <2>3, GoesOn
<1> QED
  BY <1>2, <1>3 DEF Match

\* SealPrivatePayload stores the payload for the nonce of the transaction, before it is signed.
LEMMA SealKeeps == ASSUME SendInv, NEW c \in Clients, SealPrivatePayload(c) PROVE SendInv'
<1>1. /\ ClientOK(c) /\ call[c].pc = "seal"
      /\ pool' = pool /\ minedTxs' = minedTxs /\ bucket' = bucket /\ sendHist' = sendHist
  BY DEF SendInv, SealPrivatePayload
<1>2. CASE remote' = remote /\ Return(c, "error")
  BY <1>1, <1>2, FailKeeps
<1>3. CASE remote' = remote \cup {Sealed(c)} /\ Goto(c, "sign") /\ holder' = holder
  <2>1. PICK k \in CallRecords : /\ call' = [call EXCEPT ![c] = k] /\ call'[c] = k
                                 /\ k.pc = "sign" /\ k.req = call[c].req /\ k.nonce = call[c].nonce
    BY <1>3, Moved DEF SendPcs
  <2>2. Sealed(c)' = Sealed(c)
    BY <2>1 DEF Sealed
  <2>3. Automatic(k.req) => k.nonce \in Nat /\ (k.nonce <= MaxNonce => ~pool[k.req.from][k.nonce].auto)
    BY <1>1, <2>1 DEF ClientOK
  <2>4. Sealed(c)' \in remote' /\ remote \subseteq remote'
    BY <1>3, <2>2
  <2> QED
    BY <1>1, <1>3, <2>1, <2>3, <2>4, GoesOn
<1> QED
  BY <1>2, <1>3 DEF SealPrivatePayload

\* SignTx changes nothing but how far the request is.
LEMMA SignKeeps == ASSUME SendInv, NEW c \in Clients, SignTx(c) PROVE SendInv'
<1>1. /\ ClientOK(c) /\ call[c].pc = "sign"
      /\ pool' = pool /\ minedTxs' = minedTxs /\ remote' = remote /\ bucket' = bucket /\ sendHist' = sendHist
  BY DEF SendInv, SignTx
<1>2. CASE Return(c, "error")
  BY <1>1, <1>2, FailKeeps
<1>3. CASE Goto(c, "submit") /\ holder' = holder
  <2>1. PICK k \in CallRecords : /\ call' = [call EXCEPT ![c] = k] /\ call'[c] = k
                                 /\ k.pc = "submit" /\ k.req = call[c].req /\ k.nonce = call[c].nonce
    BY <1>3, Moved DEF SendPcs
  <2>2. Sealed(c)' = Sealed(c)
    BY <2>1 DEF Sealed
  <2>3. Automatic(k.req) => k.nonce \in Nat /\ (k.nonce <= MaxNonce => ~pool[k.req.from][k.nonce].auto)
    BY <1>1, <2>1 DEF ClientOK
  <2>4. Seals(k.req) => Sealed(c)' \in remote'
    BY <1>1, <2>1, <2>2 DEF ClientOK
  <2> QED
    BY <1>1, <1>3, <2>1, <2>3, <2>4, GoesOn
<1> QED
  BY <1>2, <1>3 DEF SignTx

\* submitTransaction: what enters the pool under a nonce of the node's choice was submitted
\* by the holder of the mutex, and what is private was sealed for its nonce before.
LEMMA SubmitKeeps == ASSUME SendInv, NEW c \in Clients, submitTransaction(c) PROVE SendInv'
<1>1. /\ SendTypes /\ ClientOK(c) /\ call[c].pc = "submit" /\ call[c] \in CallRecords /\ MaxNonce \in Nat
      /\ minedTxs' = minedTxs /\ remote' = remote /\ bucket' = bucket /\ sendHist' = sendHist
  BY SendAssumption DEF SendInv, SendTypes, submitTransaction
<1>2. PICK r, n : r = call[c].req /\ n = call[c].nonce
  OBVIOUS
<1>3. /\ r \in Requests /\ r.from \in Senders /\ r.price \in Nat /\ r.private \in BOOLEAN
      /\ Automatic(r) => holder[r.from] = c
      /\ Seals(r) => Sealed(c) \in remote
  BY <1>1, <1>2, SendAssumption DEF ClientOK
<1>4. CASE pool' = pool /\ Return(c, "error")
  BY <1>1, <1>4, FailKeeps
<1>5. ASSUME Takes(r.from, n, r.price), Return(c, "done"),
             pool' = [pool EXCEPT ![r.from][n] =
                        [by |-> c, auto |-> Automatic(r), private |-> Seals(r), price |-> r.price]]
      PROVE  SendInv'
  <2>1. n \in 0 .. MaxNonce
    BY <1>1, <1>3, <1>5 DEF Takes, SendTypes
  <2>2. PICK au, pr : au = Automatic(r) /\ pr = Seals(r)
    OBVIOUS
  <2>3. au \in BOOLEAN /\ pr \in BOOLEAN
    BY <2>2 DEF Automatic, Seals
  <2>4. PICK t : t = [by |-> c, auto |-> au, private |-> pr, price |-> r.price]
    OBVIOUS
  <2>5. t \in TxRecords /\ t.by = c /\ t.auto = au /\ t.private = pr
    BY <1>3, <2>3, <2>4 DEF TxRecords
  <2>6. pool' = [pool EXCEPT ![r.from][n] = t]
    BY <1>5, <2>2, <2>4
  <2>7. /\ pool' \in Pools /\ pool'[r.from][n] = t
        /\ \A a \in Senders, m \in 0 .. MaxNonce : <<a, m>> # <<r.from, n>> => pool'[a][m] = pool[a][m]
    BY <1>1, <1>3, <2>1, <2>5, <2>6 DEF SendTypes, Pools
  <2>8. ASSUME NEW a \in Senders, NEW m \in 0 .. MaxNonce, pool'[a][m].auto
        PROVE  pool[a][m].auto \/ holder[a] = c
    <3>1. CASE <<a, m>> # <<r.from, n>>
      BY <2>7, <2>8, <3>1
    <3>2. CASE a = r.from /\ m = n
      BY <1>3, <2>2, <2>5, <2>7, <2>8, <3>2
    <3> QED
      BY <3>1, <3>2
  <2>9. PrivateStored'
    <3>1. ASSUME NEW a \in Senders, NEW m \in 0 .. MaxNonce, pool'[a][m].private
          PROVE  [by |-> pool'[a][m].by, nonce |-> m] \in remote'
      <4>1. CASE <<a, m>> # <<r.from, n>>
        BY <1>1, <2>7, <3>1, <4>1 DEF SendInv, PrivateStored
      <4>2. CASE a = r.from /\ m = n
        BY <1>1, <1>2, <1>3, <2>2, <2>5, <2>7, <3>1, <4>2 DEF Sealed
      <4> QED
        BY <4>1, <4>2
    <3> QED
      BY <3>1 DEF PrivateStored
  <2>10. BucketOK'
    BY <1>1, BucketLeft
  <2> QED
    BY <1>1, <1>5, <2>7, <2>8, <2>9, <2>10, ReturnKeeps
<1> QED
  BY <1>2, <1>4, <1>5 DEF submitTransaction

\* A block, or the pool, takes a transaction out of the pool.
LEMMA TakenOut ==
    ASSUME SendInv, NEW a \in Senders, NEW n \in 0 .. MaxNonce, pool' = [pool EXCEPT ![a][n] = NoTx],
           minedTxs' \in [Senders -> Nat], \A b \in Senders : minedTxs'[b] <= MaxNonce + 1,
           UNCHANGED <<call, holder, remote, bucket, sendHist>>
    PROVE  SendInv'
<1>1. SendTypes /\ MaxNonce \in Nat
  BY SendAssumption DEF SendInv
<1>2. NoTx \in TxRecords /\ ~NoTx.auto /\ ~NoTx.private
  BY DEF NoTx, TxRecords
<1>3. /\ pool' \in Pools /\ pool'[a][n] = NoTx
      /\ \A b \in Senders, m \in 0 .. MaxNonce : <<b, m>> # <<a, n>> => pool'[b][m] = pool[b][m]
  BY <1>1, <1>2 DEF SendTypes, Pools
<1>4. \A b \in Senders, m \in 0 .. MaxNonce : /\ pool'[b][m].auto => pool[b][m].auto
                                              /\ pool'[b][m].private => pool'[b][m] = pool[b][m]
  BY <1>2, <1>3
<1>5. SendTypes'
  BY <1>1, <1>3 DEF SendTypes
<1>6. ASSUME NEW c \in Clients PROVE ClientOK(c)'
  <2>1. ClientOK(c) /\ Sealed(c)' = Sealed(c)
    BY DEF SendInv, Sealed
  <2>2. ASSUME call[c].pc \in {"seal", "sign", "submit"}, Automatic(call[c].req), call[c].nonce <= MaxNonce
        PROVE  ~pool'[call[c].req.from][call[c].nonce].auto
    <3>1. call[c].nonce \in 0 .. MaxNonce /\ call[c].req.from \in Senders
      <4>1. call[c].req \in Requests /\ call[c].nonce \in Nat
        BY <2>1, <2>2 DEF ClientOK
      <4>2. call[c].req.from \in Senders
        BY <4>1, SendAssumption
      <4> QED
        BY <1>1, <2>2, <4>1, <4>2
    <3>2. ~pool[call[c].req.from][call[c].nonce].auto
      BY <2>1, <2>2 DEF ClientOK
    <3> QED
      BY <1>4, <3>1, <3>2
  <2> QED
    BY <2>1, <2>2 DEF ClientOK
<1>7. \A b \in Senders : HolderOK(b)'
  BY DEF SendInv, HolderOK
<1>8. PrivateStored'
  BY <1>4 DEF SendInv, PrivateStored
<1>9. BucketOK'
  BY BucketLeft
<1> QED
  BY <1>5, <1>6, <1>7, <1>8, <1>9 DEF SendInv

\* Two facts of multiplication.
LEMMA Products ==
    ASSUME NEW x \in Nat, NEW y \in Nat, NEW r \in Nat
    PROVE  /\ x * r \in Nat /\ (x - y) * r \in Int /\ (x - y) * r = x * r - y * r
           /\ x <= y => x * r <= y * r
<1>1. x * r \in Nat /\ y * r \in Nat /\ (x - y) * r \in Int /\ (x - y) * r = x * r - y * r
  OBVIOUS
<1>2. ASSUME x <= y PROVE x * r <= y * r
  <2>1. PICK d \in Nat : y = x + d
    BY <1>2
  <2>2. y * r = x * r + d * r /\ d * r \in Nat
    BY <2>1
  <2> QED
    BY <1>1, <2>2
<1> QED
  BY <1>1, <1>2

\* Refill gives at most the tokens of the time that has passed, also when that is negative.
LEMMA RefillBound ==
    ASSUME NEW b \in [tokens : Int, lastTokenSec : Nat], NEW now \in Nat
    PROVE  /\ Refill(b, now) \in [tokens : Int, lastTokenSec : Nat] /\ Refill(b, now).lastTokenSec = now
           /\ Refill(b, now).tokens + b.lastTokenSec * Rate <= b.tokens + now * Rate
<1>1. PICK x, l, r : x = b.tokens /\ l = b.lastTokenSec /\ r = Rate
  OBVIOUS
<1>2. x \in Int /\ l \in Nat /\ r \in Nat /\ BucketSize \in Nat
  BY <1>1, SendAssumption
<1>3. (now - l) * r \in Int /\ (now - l) * r = now * r - l * r /\ now * r \in Nat /\ l * r \in Nat
  BY <1>2, Products
<1>4. PICK s : s = x + (now - l) * r
  OBVIOUS
<1>5. s \in Int /\ s + l * r = x + now * r
  BY <1>2, <1>3, <1>4
<1>6. Min({BucketSize, s}) \in {BucketSize, s} /\ Min({BucketSize, s}) <= s
  <2>1. BucketSize \in Int
    BY <1>2
  <2> QED
    BY <1>5, <2>1, OfTwo, Zenon
<1>7. PICK m : m = Min({BucketSize, s})
  OBVIOUS
<1>8. m \in Int /\ m <= s
  BY <1>2, <1>5, <1>6, <1>7
<1>9. Refill(b, now) = [tokens |-> m, lastTokenSec |-> now]
  BY <1>1, <1>4, <1>7 DEF Refill
<1>10. m + l * r <= x + now * r
  BY <1>2, <1>3, <1>5, <1>8
<1>11. PICK f : f = [tokens |-> m, lastTokenSec |-> now]
  OBVIOUS
<1>12. f \in [tokens : Int, lastTokenSec : Nat] /\ f.lastTokenSec = now /\ f.tokens = m
  BY <1>8, <1>11
<1>13. f = Refill(b, now)
  BY <1>9, <1>11
<1>14. f.tokens + b.lastTokenSec * Rate <= b.tokens + now * Rate
  BY <1>1, <1>10, <1>12
<1> QED
  BY <1>12, <1>13, <1>14

\* A request that meets the bucket.
LEMMA BucketMet ==
    ASSUME BucketOK, bucket' = Allow(bucket, sendHist.clock),
           sendHist' = [sendHist EXCEPT !.allowed = @ + (IF Allowed(bucket, sendHist.clock) THEN 1 ELSE 0)]
    PROVE  BucketOK'
<1>1. PICK now, al, top : now = sendHist.clock /\ al = sendHist.allowed /\ top = sendHist.top
  OBVIOUS
<1>2. /\ bucket \in [tokens : Int, lastTokenSec : Nat] /\ now \in Nat /\ al \in Nat /\ top \in Nat
      /\ now <= top /\ al + bucket.tokens <= bucket.lastTokenSec * Rate /\ al <= top * Rate /\ Rate \in Nat
      /\ sendHist \in [clock : Nat, top : Nat, steps : Nat, allowed : Nat]
  BY <1>1, SendAssumption DEF BucketOK
<1>3. PICK f : f = Refill(bucket, now)
  OBVIOUS
<1>4. /\ f \in [tokens : Int, lastTokenSec : Nat] /\ f.lastTokenSec = now
      /\ f.tokens + bucket.lastTokenSec * Rate <= bucket.tokens + now * Rate
  BY <1>2, <1>3, RefillBound
<1>5. /\ bucket.lastTokenSec \in Nat /\ bucket.lastTokenSec * Rate \in Nat /\ now * Rate \in Nat
      /\ top * Rate \in Nat /\ now * Rate <= top * Rate
  BY <1>2, Products
<1>6. al + f.tokens <= now * Rate
  BY <1>2, <1>4, <1>5
<1>7. CASE f.tokens > 0
  <2>1. bucket' = [f EXCEPT !.tokens = @ - 1] /\ sendHist' = [sendHist EXCEPT !.allowed = al + 1]
    BY <1>1, <1>3, <1>7 DEF Allow, Allowed
  <2>2. /\ bucket' \in [tokens : Int, lastTokenSec : Nat] /\ bucket'.tokens = f.tokens - 1
        /\ bucket'.lastTokenSec = now
    BY <1>4, <2>1
  <2>3. /\ sendHist' \in [clock : Nat, top : Nat, steps : Nat, allowed : Nat]
        /\ sendHist'.clock = now /\ sendHist'.top = top /\ sendHist'.allowed = al + 1
    BY <1>1, <1>2, <2>1
  <2>4. (al + 1) + (f.tokens - 1) <= now * Rate /\ al + 1 <= top * Rate
    BY <1>2, <1>4, <1>5, <1>6, <1>7
  <2> QED
    BY <1>2, <2>2, <2>3, <2>4 DEF BucketOK
<1>8. CASE ~(f.tokens > 0)
  <2>1. bucket' = f /\ sendHist' = [sendHist EXCEPT !.allowed = al + 0]
    BY <1>1, <1>3, <1>8 DEF Allow, Allowed
  <2>2. /\ sendHist' \in [clock : Nat, top : Nat, steps : Nat, allowed : Nat]
        /\ sendHist'.clock = now /\ sendHist'.top = top /\ sendHist'.allowed = al
    BY <1>1, <1>2, <2>1
  <2> QED
    BY <1>2, <1>4, <1>6, <2>1, <2>2 DEF BucketOK
<1> QED
  BY <1>7, <1>8

\* A request starts: it holds nothing yet.
LEMMA BeginKeeps == ASSUME SendInv, NEW c \in Clients, NEW r \in Requests, Begin(c, r) PROVE SendInv'
<1>1. /\ SendTypes /\ BucketOK /\ call[c].pc = "idle" /\ c # "nobody"
      /\ holder' = holder /\ pool' = pool /\ minedTxs' = minedTxs /\ remote' = remote
  BY SendAssumption DEF SendInv, Begin
<1>2. r.nonce \in Int /\ (r.api = "raw" => ~Automatic(r))
  BY SendAssumption DEF Automatic, NoNonce
<1>3. PICK pc : /\ pc \in {Enter(r), "error"}
                /\ call' = [call EXCEPT ![c] = [pc |-> pc, req |-> r, nonce |-> r.nonce]]
  BY DEF Begin
<1>4. PICK k : k = [pc |-> pc, req |-> r, nonce |-> r.nonce]
  OBVIOUS
<1>5. Enter(r) \in {"submit", "lock", "fill"} /\ (Automatic(r) => Enter(r) = "lock") /\ (Enter(r) = "lock" => Automatic(r))
  BY <1>2 DEF Enter
<1>6. k \in CallRecords /\ k.pc = pc /\ k.req = r
  BY <1>2, <1>3, <1>4, <1>5 DEF CallRecords, SendPcs
<1>7. call' = [call EXCEPT ![c] = k] /\ call'[c] = k
  BY <1>1, <1>3, <1>4 DEF SendTypes
<1>8. Enter(r) = "submit" => r.api = "raw"
  BY DEF Enter
<1>9. ClientOK(c)'
  <2>1. pc \in {"submit", "lock", "fill", "error"} /\ (pc = "lock" => Automatic(r))
        /\ (pc \in {"submit", "fill"} => ~Automatic(r)) /\ (pc = "submit" => ~Seals(r))
    BY <1>3, <1>5, <1>8 DEF Seals
  <2> QED
    BY <1>6, <1>7, <2>1 DEF ClientOK
<1>10. ASSUME NEW a \in Senders PROVE holder[a] # c
  BY <1>1 DEF SendInv, HolderOK
<1>11. BucketOK'
  <2>1. CASE r.api = "public"
    BY <1>1, <2>1, BucketMet DEF Begin
  <2>2. CASE r.api # "public"
    BY <2>2, BucketLeft DEF Begin
  <2> QED
    BY <2>1, <2>2
<1>12. PrivateStored'
  BY <1>1, NothingSpent
<1>13. pool' \in Pools /\ holder' \in [Senders -> Clients \cup {"nobody"}] /\ remote \subseteq remote'
  BY <1>1 DEF SendTypes
<1>14. /\ \A a \in Senders : holder'[a] = holder[a] /\ holder'[a] # c
       /\ \A a \in Senders, n \in 0 .. MaxNonce : pool'[a][n].auto => pool[a][n].auto
  BY <1>1, <1>10
<1> QED
  BY <1>1, <1>6, <1>7, <1>9, <1>11, <1>12, <1>13, <1>14, SendFrame

\* The clock is set.
LEMMA ClockKeeps == ASSUME SendInv, SetClock PROVE SendInv'
<1>1. /\ BucketOK /\ MaxClock \in Nat /\ Rate \in Nat
      /\ UNCHANGED <<call, holder, pool, minedTxs, remote, bucket>>
  BY SendAssumption DEF SendInv, SetClock
<1>2. PICK t \in 0 .. MaxClock : sendHist' = [sendHist EXCEPT !.clock = t, !.top = Max({@, t}), !.steps = @ + 1]
  BY DEF SetClock
<1>3. PICK top : top = sendHist.top
  OBVIOUS
<1>4. top \in Nat /\ t \in Nat /\ sendHist \in [clock : Nat, top : Nat, steps : Nat, allowed : Nat]
      /\ sendHist.allowed <= top * Rate
  BY <1>1, <1>3 DEF BucketOK
<1>5. PICK m : m = Max({top, t})
  OBVIOUS
<1>6. m \in Nat /\ m >= top /\ m >= t
  <2>1. top \in Int /\ t \in Int
    BY <1>4
  <2>2. Max({top, t}) \in {top, t} /\ Max({top, t}) >= top /\ Max({top, t}) >= t
    BY <2>1, OfTwo, Zenon
  <2> QED
    BY <1>4, <1>5, <2>2
<1>7. /\ sendHist' \in [clock : Nat, top : Nat, steps : Nat, allowed : Nat]
      /\ sendHist'.clock = t /\ sendHist'.top = m /\ sendHist'.allowed = sendHist.allowed
  <2>1. PICK st : st = sendHist.steps + 1
    OBVIOUS
  <2>2. sendHist' = [sendHist EXCEPT !.clock = t, !.top = m, !.steps = st]
    BY <1>2, <1>3, <1>5, <2>1
  <2>3. st \in Nat
    BY <1>4, <2>1
  <2> QED
    BY <1>4, <1>6, <2>2, <2>3
<1>8. top * Rate <= m * Rate /\ top * Rate \in Nat /\ m * Rate \in Nat
  <2>1. top <= m
    BY <1>4, <1>6
  <2> QED
    BY <1>1, <1>4, <1>6, <2>1, Products
<1>9. BucketOK'
  BY <1>1, <1>4, <1>6, <1>7, <1>8 DEF BucketOK
<1>10. SendTypes' /\ PrivateStored'
  BY <1>1 DEF SendInv, SendTypes, PrivateStored
<1>11. \A c \in Clients : ClientOK(c)'
  BY <1>1 DEF SendInv, ClientOK, Sealed
<1>12. \A a \in Senders : HolderOK(a)'
  BY <1>1 DEF SendInv, HolderOK
<1> QED
  BY <1>9, <1>10, <1>11, <1>12 DEF SendInv

\* Every step of sending keeps the invariant.
LEMMA SendStep == ASSUME SendInv, [SendNext]_sendVars PROVE SendInv'
<1>1. ASSUME NEW c \in Clients, NEW r \in Requests, Begin(c, r) PROVE SendInv'
  BY <1>1, BeginKeeps
<1>2. ASSUME NEW c \in Clients, LockAddr(c) PROVE SendInv'
  BY <1>2, LockKeeps
<1>3. ASSUME NEW c \in Clients, setDefaults(c) PROVE SendInv'
  BY <1>3, FillKeeps
<1>4. ASSUME NEW c \in Clients, Match(c) PROVE SendInv'
  BY <1>4, MatchKeeps
<1>5. ASSUME NEW c \in Clients, SealPrivatePayload(c) PROVE SendInv'
  BY <1>5, SealKeeps
<1>6. ASSUME NEW c \in Clients, SignTx(c) PROVE SendInv'
  BY <1>6, SignKeeps
<1>7. ASSUME NEW c \in Clients, submitTransaction(c) PROVE SendInv'
  BY <1>7, SubmitKeeps
<1>8. CASE SetClock
  BY <1>8, ClockKeeps
<1>9. ASSUME NEW a \in Senders, Mine(a) PROVE SendInv'
  <2>1. SendTypes /\ MaxNonce \in Nat
    BY SendAssumption DEF SendInv
  <2>2. PICK n : n = minedTxs[a]
    OBVIOUS
  <2>3. n \in 0 .. MaxNonce /\ pool' = [pool EXCEPT ![a][n] = NoTx] /\ minedTxs' = [minedTxs EXCEPT ![a] = n + 1]
    BY <1>9, <2>1, <2>2 DEF Mine, SendTypes
  <2>4. minedTxs' \in [Senders -> Nat] /\ \A b \in Senders : minedTxs'[b] <= MaxNonce + 1
    BY <2>1, <2>3 DEF SendTypes
  <2>5. UNCHANGED <<call, holder, remote, bucket, sendHist>>
    BY <1>9 DEF Mine
  <2> QED
    BY <2>3, <2>4, <2>5, TakenOut
<1>10. ASSUME NEW a \in Senders, NEW n \in 0 .. MaxNonce, Drop(a, n) PROVE SendInv'
  <2>1. minedTxs' \in [Senders -> Nat] /\ \A b \in Senders : minedTxs'[b] <= MaxNonce + 1
    BY <1>10 DEF Drop, SendInv, SendTypes
  <2> QED
    BY <1>10, <2>1, TakenOut DEF Drop
<1>11. CASE UNCHANGED sendVars
  <2>1. SendTypes' /\ PrivateStored' /\ BucketOK'
    BY <1>11 DEF sendVars, SendInv, SendTypes, PrivateStored, BucketOK
  <2>2. \A c \in Clients : ClientOK(c)'
    BY <1>11 DEF sendVars, SendInv, ClientOK, Sealed
  <2>3. \A a \in Senders : HolderOK(a)'
    BY <1>11 DEF sendVars, SendInv, HolderOK
  <2> QED
    BY <2>1, <2>2, <2>3 DEF SendInv
<1> QED
  BY <1>1, <1>2, <1>3, <1>4, <1>5, <1>6, <1>7, <1>8, <1>9, <1>10, <1>11 DEF SendNext

\* The inductive invariant of sending transactions, for any number of requests, accounts and
\* nonces and any rate: who holds a mutex, which nonces are given out, what is sealed.
THEOREM SendInvariant == SendInit /\ [][SendNext]_sendVars => []SendInv
<1>1. SendInv /\ [SendNext]_sendVars => SendInv'
  BY SendStep
<1> QED
  BY <1>1, SendInitially, PTL

\* Requests that leave the nonce to the node never meet on one, in the node or in the pool:
\* "prevent concurrent assignment of the same nonce".
THEOREM NoncesStayDistinct == SendInit /\ [][SendNext]_sendVars => []AutoNoncesDistinct
<1>1. SendInv => AutoNoncesDistinct
  <2> SUFFICES ASSUME SendInv, NEW c \in Clients, call[c].pc \in {"seal", "sign", "submit"}, Automatic(call[c].req)
               PROVE  /\ call[c].nonce <= MaxNonce => ~pool[call[c].req.from][call[c].nonce].auto
                      /\ \A d \in Clients \ {c} :
                             ~(/\ call[d].pc \in {"seal", "sign", "submit"} /\ Automatic(call[d].req)
                               /\ call[d].req.from = call[c].req.from /\ call[d].nonce = call[c].nonce)
    BY DEF AutoNoncesDistinct
  <2>1. ClientOK(c) /\ holder[call[c].req.from] = c
    BY DEF SendInv, ClientOK
  <2>2. ASSUME NEW d \in Clients \ {c}, call[d].pc \in {"seal", "sign", "submit"}, Automatic(call[d].req)
        PROVE  holder[call[d].req.from] = d
    BY <2>2 DEF SendInv, ClientOK
  <2>3. call[c].nonce <= MaxNonce => ~pool[call[c].req.from][call[c].nonce].auto
    BY <2>1 DEF ClientOK
  <2> QED
    BY <2>1, <2>2, <2>3
<1> QED
  BY <1>1, SendInvariant, PTL

\* A mutex is held only by a request between LockAddr and its return, whichever step fails.
THEOREM MutexesHeldByRunning == SendInit /\ [][SendNext]_sendVars => []HeldByRunning
<1>1. SendInv => HeldByRunning
  BY DEF SendInv, HolderOK, HeldByRunning
<1> QED
  BY <1>1, SendInvariant, PTL

\* A private transaction in the pool has its payload in the remote database, for its nonce.
THEOREM PrivatePayloadsStored == SendInit /\ [][SendNext]_sendVars => []PrivateStored
<1>1. SendInv => PrivateStored
  BY DEF SendInv
<1> QED
  BY <1>1, SendInvariant, PTL

\* However the clock is set, no more requests pass than the rate allows for the time shown.
THEOREM RateIsBounded == SendInit /\ [][SendNext]_sendVars => []RateBound
<1>1. SendInv => RateBound
  BY DEF SendInv, BucketOK, RateBound
<1> QED
  BY <1>1, SendInvariant, PTL
-----------------------------------------------------------------------------
(* Estimating gas.                                                           *)

\* Neither the pending state nor the request has changed since the search began, and the sum of
\* its bounds fits the width of a gas value.
Undisturbed == ~estHist.changed /\ ~estHist.cancelled /\ est.cap < 2 ^ (Width - 1)
EstTypes ==
    /\ est \in [pc : {"idle", "loop", "done", "error"}, args : Nat, lo : Nat, hi : Nat, cap : Nat]
    /\ need \in Needs
    /\ estHist \in [changed : BOOLEAN, cancelled : BOOLEAN, ran : SUBSET Nat]
\* The upper bound is the first one, or an allowance the call was run with.
UpperRan == est.pc = "loop" => est.hi = est.cap \/ est.hi \in estHist.ran
\* What the call needs lies between the bounds, unless it is more than the first upper bound.
Bracketed ==
    est.pc = "loop" /\ Undisturbed =>
        /\ est.lo < need /\ est.lo + 1 < 2 ^ Width /\ est.cap > 0
        /\ est.hi = est.cap \/ (est.lo < est.hi /\ need <= est.hi)
        /\ est.hi <= est.cap
EstInv == EstTypes /\ UpperRan /\ EstimateWasRun /\ Bracketed /\ EstimateLeast

\* A number below the modulus is its own remainder.
LEMMA Remainder ==
    ASSUME NEW m \in Nat, NEW n \in Nat, n < m
    PROVE  n % m = n
OBVIOUS

\* Half of the sum lies strictly between two numbers that are more than one apart.
LEMMA Between ==
    ASSUME NEW lo \in Nat, NEW hi \in Nat, lo + 1 < hi
    PROVE  (hi + lo) \div 2 \in Nat /\ lo < (hi + lo) \div 2 /\ (hi + lo) \div 2 < hi
OBVIOUS

\* The step of the search computes without overflow while it is undisturbed.
LEMMA BoundsAdd ==
    ASSUME EstTypes, est.pc = "loop", Undisturbed, Bracketed
    PROVE  /\ Wrap(est.lo + 1) = est.lo + 1
           /\ est.lo + 1 < est.hi => Wrap(est.hi + est.lo) = est.hi + est.lo
<1>1. est.lo \in Nat /\ est.hi \in Nat /\ est.cap \in Nat /\ est.lo + 1 < 2 ^ Width /\ est.hi <= est.cap
  BY DEF EstTypes, Bracketed
<1>2. 2 ^ (Width - 1) \in Nat /\ 2 ^ Width \in Nat /\ 2 ^ Width = 2 * 2 ^ (Width - 1) /\ est.cap < 2 ^ (Width - 1)
  BY EstimateAssumption DEF Undisturbed
<1>3. Wrap(est.lo + 1) = est.lo + 1
  BY <1>1, <1>2, Remainder DEF Wrap
<1>4. ASSUME est.lo + 1 < est.hi PROVE Wrap(est.hi + est.lo) = est.hi + est.lo
  <2>1. est.hi + est.lo \in Nat /\ est.hi + est.lo < 2 ^ Width
    BY <1>1, <1>2, <1>4
  <2> QED
    BY <2>1, <1>2, Remainder DEF Wrap
<1> QED
  BY <1>3, <1>4

\* A gas that is not zero is what the call is run with.
LEMMA ExecutableIf ==
    ASSUME NEW g \in Nat, g > 0, Undisturbed, EstTypes
    PROVE  Executable(g) <=> g >= need
BY DEF Executable, GasOf, Undisturbed, EstTypes

\* A search that has not begun satisfies the invariant.
LEMMA EstInitially == EstInit => EstInv
<1> SUFFICES ASSUME EstInit PROVE EstInv
  OBVIOUS
<1>1. \E n \in Needs : \A m \in Needs : n <= m
  BY EstimateAssumption, LeastNatural
<1>2. Min(Needs) \in Needs
  BY <1>1 DEF Min
<1> QED
  BY <1>2 DEF EstInit, EstInv, EstTypes, UpperRan, EstimateWasRun, Bracketed, EstimateLeast

\* The call begins with bounds that hold what it needs, or with an upper one that is too low.
LEMMA EstimateBegins == ASSUME EstInv, NEW gas \in Gases, EstimateGas(gas) PROVE EstInv'
<1>1. 2 ^ Width \in Nat /\ TxGas \in Nat /\ TxGas >= 1 /\ TxGas < 2 ^ Width /\ BlockGasLimit \in Nat /\ BlockGasLimit > 0
  BY EstimateAssumption
<1>2. gas \in Nat
  BY <1>1 DEF Gases
<1>3. PICK hi \in Nat : hi > 0 /\ est' = [pc |-> "loop", args |-> gas, lo |-> Lowest, hi |-> hi, cap |-> hi]
  BY <1>1, <1>2 DEF EstimateGas
<1>4. UNCHANGED <<need, estHist>> /\ need \in Needs /\ need \in Nat /\ need >= TxGas
  BY EstimateAssumption DEF EstimateGas, EstInv, EstTypes
<1>5. Lowest \in Nat /\ Lowest < need /\ Lowest + 1 < 2 ^ Width
  BY <1>1, <1>4 DEF Lowest
<1>6. EstTypes'
  BY <1>2, <1>3, <1>4, <1>5 DEF EstInv, EstTypes
<1>7. est'.pc = "loop" /\ est'.lo = Lowest /\ est'.hi = hi /\ est'.cap = hi /\ hi <= hi
  BY <1>3
<1> QED
  BY <1>3, <1>4, <1>5, <1>6, <1>7 DEF EstInv, UpperRan, EstimateWasRun, Bracketed, EstimateLeast

\* A probe moves one bound, to a value between them, and keeps what is needed between them.
LEMMA ProbeStep == ASSUME EstInv, Probe PROVE EstInv'
<1> DEFINE mid == Wrap(est.hi + est.lo) \div 2
<1>1. /\ est.pc = "loop" /\ est' = Narrow(est, mid, Executable(mid)) /\ Ran(mid) /\ need' = need
      /\ Wrap(est.lo + 1) < est.hi
  BY DEF Probe
<1>2. est.lo \in Nat /\ est.hi \in Nat /\ est.cap \in Nat /\ need \in Nat
  BY EstimateAssumption DEF EstInv, EstTypes
<1>3. mid \in Nat
  BY <1>2, EstimateAssumption DEF Wrap
<1> HIDE DEF mid
<1>4. CASE Executable(mid)
  <2>1. est' = [est EXCEPT !.hi = mid] /\ estHist' = [estHist EXCEPT !.ran = estHist.ran \cup {mid}]
    BY <1>1, <1>4 DEF Narrow, Ran
  <2>2. est'.pc = "loop" /\ est'.hi = mid /\ est'.lo = est.lo /\ est'.cap = est.cap
    BY <1>1, <2>1 DEF EstInv, EstTypes
  <2>3. /\ estHist'.ran = estHist.ran \cup {mid}
        /\ estHist'.changed = estHist.changed /\ estHist'.cancelled = estHist.cancelled
    BY <2>1 DEF EstInv, EstTypes
  <2>4. EstTypes'
    BY <1>1, <1>3, <2>1 DEF EstInv, EstTypes
  <2>5. ASSUME Undisturbed' PROVE Bracketed'
    <3>1. Undisturbed /\ Bracketed /\ EstTypes
      BY <2>2, <2>3, <2>5 DEF Undisturbed, EstInv
    <3>2. est.lo + 1 < est.hi /\ Wrap(est.hi + est.lo) = est.hi + est.lo
      BY <1>1, <3>1, BoundsAdd
    <3>3. est.lo < mid /\ mid < est.hi
      BY <1>2, <3>2, Between DEF mid
    <3>4. mid >= need
      BY <1>2, <1>3, <1>4, <3>1, <3>3, ExecutableIf
    <3> QED
      BY <1>1, <1>2, <1>3, <2>2, <3>1, <3>3, <3>4 DEF Bracketed
  <2> QED
    BY <2>2, <2>3, <2>4, <2>5 DEF EstInv, UpperRan, EstimateWasRun, Bracketed, EstimateLeast
<1>5. CASE ~Executable(mid)
  <2>1. est' = [est EXCEPT !.lo = mid] /\ estHist' = [estHist EXCEPT !.ran = estHist.ran]
    BY <1>1, <1>5 DEF Narrow, Ran
  <2>2. est'.pc = "loop" /\ est'.lo = mid /\ est'.hi = est.hi /\ est'.cap = est.cap
    BY <1>1, <2>1 DEF EstInv, EstTypes
  <2>3. estHist' = estHist
    BY <2>1 DEF EstInv, EstTypes
  <2>4. EstTypes'
    BY <1>1, <1>3, <2>1, <2>3 DEF EstInv, EstTypes
  <2>5. ASSUME Undisturbed' PROVE Bracketed'
    <3>1. Undisturbed /\ Bracketed /\ EstTypes
      BY <2>2, <2>3, <2>5 DEF Undisturbed, EstInv
    <3>2. est.lo + 1 < est.hi /\ Wrap(est.hi + est.lo) = est.hi + est.lo
      BY <1>1, <3>1, BoundsAdd
    <3>3. est.lo < mid /\ mid < est.hi
      BY <1>2, <3>2, Between DEF mid
    <3>4. mid < need
      BY <1>2, <1>3, <1>5, <3>1, <3>3, ExecutableIf
    <3>5. mid + 1 < 2 ^ Width
      BY <1>1, <1>2, <1>3, <3>1, <3>3, EstimateAssumption DEF Undisturbed, Bracketed
    <3> QED
      BY <1>1, <1>2, <1>3, <2>2, <3>1, <3>3, <3>4, <3>5 DEF Bracketed
  <2> QED
    BY <1>1, <2>2, <2>3, <2>4, <2>5 DEF EstInv, UpperRan, EstimateWasRun, Bracketed, EstimateLeast
<1> QED
  BY <1>4, <1>5

\* The end of the search answers with the upper bound, run once more if it is the first one.
LEMMA EndStep == ASSUME EstInv, EndSearch PROVE EstInv'
<1>1. /\ est.pc = "loop" /\ est' = [est EXCEPT !.pc = Verdict(est, Executable(est.hi))] /\ need' = need
      /\ Wrap(est.lo + 1) >= est.hi
      /\ IF est.hi = est.cap THEN Ran(est.hi) ELSE UNCHANGED estHist
  BY DEF EndSearch
<1>2. est.lo \in Nat /\ est.hi \in Nat /\ est.cap \in Nat /\ need \in Nat
  BY EstimateAssumption DEF EstInv, EstTypes
<1>3. /\ est'.hi = est.hi /\ est'.cap = est.cap
      /\ est'.pc = IF est.hi = est.cap /\ ~Executable(est.hi) THEN "error" ELSE "done"
  BY <1>1 DEF EstInv, EstTypes, Verdict
<1>4. /\ estHist'.ran = IF est.hi = est.cap /\ Executable(est.hi) THEN estHist.ran \cup {est.hi} ELSE estHist.ran
      /\ estHist'.changed = estHist.changed /\ estHist'.cancelled = estHist.cancelled
  BY <1>1 DEF EstInv, EstTypes, Ran
<1>5. EstTypes'
  <2>1. est' \in [pc : {"idle", "loop", "done", "error"}, args : Nat, lo : Nat, hi : Nat, cap : Nat]
    BY <1>1 DEF EstInv, EstTypes, Verdict
  <2>2. estHist' \in [changed : BOOLEAN, cancelled : BOOLEAN, ran : SUBSET Nat]
    BY <1>1, <1>2 DEF EstInv, EstTypes, Ran
  <2> QED
    BY <1>1, <2>1, <2>2 DEF EstInv, EstTypes
<1>6. UpperRan' /\ Bracketed'
  BY <1>3 DEF UpperRan, Bracketed
<1>7. EstimateWasRun'
  BY <1>1, <1>3, <1>4 DEF EstInv, UpperRan, EstimateWasRun
<1>8. ASSUME Undisturbed
      PROVE  IF need <= est.cap THEN est'.pc = "done" /\ est'.hi = need ELSE est'.pc = "error"
  <2>1. EstTypes /\ Bracketed
    BY DEF EstInv
  <2>2. est.lo + 1 >= est.hi /\ est.lo < need /\ est.cap > 0 /\ (est.hi = est.cap \/ (est.lo < est.hi /\ need <= est.hi))
        /\ est.hi <= est.cap
    BY <1>1, <1>8, <2>1, BoundsAdd DEF Bracketed
  <2>3. CASE est.hi = est.cap
    <3>1. Executable(est.hi) <=> est.hi >= need
      BY <1>2, <1>8, <2>1, <2>2, <2>3, ExecutableIf
    <3> QED
      BY <1>2, <1>3, <2>2, <2>3, <3>1
  <2>4. CASE est.hi # est.cap
    BY <1>2, <1>3, <2>2, <2>4
  <2> QED
    BY <2>3, <2>4
<1>9. EstimateLeast'
  BY <1>1, <1>3, <1>4, <1>8 DEF EstimateLeast, Undisturbed
<1> QED
  BY <1>5, <1>6, <1>7, <1>9 DEF EstInv

\* A change of the pending state or of the request leaves the bounds and what was run alone.
LEMMA OutsideSteps ==
    ASSUME EstInv, est' = est, est.pc \in {"idle", "loop"}, EstTypes', estHist'.ran = estHist.ran,
           est.pc = "loop" => estHist'.changed \/ estHist'.cancelled
    PROVE  EstInv'
<1>1. est.pc = "loop" => ~Undisturbed'
  BY DEF Undisturbed
<1>2. UpperRan'
  BY DEF EstInv, UpperRan
<1>3. EstimateWasRun' /\ EstimateLeast'
  BY DEF EstimateWasRun, EstimateLeast
<1>4. Bracketed'
  BY <1>1 DEF Bracketed
<1> QED
  BY <1>2, <1>3, <1>4 DEF EstInv

\* The pending state changes.
LEMMA PendingStep == ASSUME EstInv, PendingChanges PROVE EstInv'
<1>1. /\ est' = est /\ est.pc \in {"idle", "loop"} /\ need' \in Needs
      /\ estHist' = [estHist EXCEPT !.changed = (est.pc = "loop")]
  BY DEF PendingChanges
<1>2. estHist \in [changed : BOOLEAN, cancelled : BOOLEAN, ran : SUBSET Nat] /\ (est.pc = "loop") \in BOOLEAN
  BY DEF EstInv, EstTypes
<1>3. \A h \in [changed : BOOLEAN, cancelled : BOOLEAN, ran : SUBSET Nat], m \in BOOLEAN :
        /\ [h EXCEPT !.changed = m] \in [changed : BOOLEAN, cancelled : BOOLEAN, ran : SUBSET Nat]
        /\ [h EXCEPT !.changed = m].ran = h.ran /\ [h EXCEPT !.changed = m].changed = m
  OBVIOUS
<1>4. /\ estHist' \in [changed : BOOLEAN, cancelled : BOOLEAN, ran : SUBSET Nat]
      /\ estHist'.ran = estHist.ran /\ estHist'.changed = (est.pc = "loop")
  BY <1>1, <1>2, <1>3, Zenon
<1>5. EstTypes'
  BY <1>1, <1>4 DEF EstInv, EstTypes
<1>6. est.pc = "loop" => estHist'.changed
  BY <1>4
<1> QED
  BY <1>1, <1>4, <1>5, <1>6, OutsideSteps

\* The request is cancelled.
LEMMA CancelStep == ASSUME EstInv, CancelRequest PROVE EstInv'
<1>1. est' = est /\ est.pc = "loop" /\ need' = need /\ estHist' = [estHist EXCEPT !.cancelled = TRUE]
  BY DEF CancelRequest
<1>2. estHist \in [changed : BOOLEAN, cancelled : BOOLEAN, ran : SUBSET Nat]
  BY DEF EstInv, EstTypes
<1>3. \A h \in [changed : BOOLEAN, cancelled : BOOLEAN, ran : SUBSET Nat], m \in BOOLEAN :
        /\ [h EXCEPT !.cancelled = m] \in [changed : BOOLEAN, cancelled : BOOLEAN, ran : SUBSET Nat]
        /\ [h EXCEPT !.cancelled = m].ran = h.ran /\ [h EXCEPT !.cancelled = m].cancelled = m
  OBVIOUS
<1>4. /\ estHist' \in [changed : BOOLEAN, cancelled : BOOLEAN, ran : SUBSET Nat]
      /\ estHist'.ran = estHist.ran /\ estHist'.cancelled = TRUE
  BY <1>1, <1>2, <1>3, Zenon
<1>5. EstTypes'
  BY <1>1, <1>4 DEF EstInv, EstTypes
<1> QED
  BY <1>1, <1>4, <1>5, OutsideSteps

\* The inductive invariant of the search.
THEOREM EstInvariant == EstInit /\ [][EstNext]_estVars => []EstInv
<1>1. ASSUME EstInv, [EstNext]_estVars PROVE EstInv'
  <2>1. CASE UNCHANGED estVars
    BY <1>1, <2>1 DEF estVars, EstInv, EstTypes, UpperRan, EstimateWasRun, Bracketed, EstimateLeast, Undisturbed
  <2> QED
    BY <1>1, <2>1, EstimateBegins, ProbeStep, EndStep, PendingStep, CancelStep DEF EstNext
<1> QED
  BY <1>1, EstInitially, PTL

\* An estimate that is returned is an allowance the call was run with and succeeded, though the
\* pending state changes between the probes.
THEOREM EstimatesWereRun == EstInit /\ [][EstNext]_estVars => []EstimateWasRun
<1>1. EstInv => EstimateWasRun
  BY DEF EstInv
<1> QED
  BY <1>1, EstInvariant, PTL

\* While the pending state and the request stay as they are the search finds the least allowance
\* that suffices, and fails only if the highest one does not.
THEOREM EstimatesAreLeast == EstInit /\ [][EstNext]_estVars => []EstimateLeast
<1>1. EstInv => EstimateLeast
  BY DEF EstInv
<1> QED
  BY <1>1, EstInvariant, PTL

-----------------------------------------------------------------------------
(* Answers put together from several reads.                                  *)

Flags == BOOLEAN
Places == {"pool", "chain"}
LookupPcs == {"idle", "first", "second", "done"}
Answers == {"none", "unknown"} \cup Places
Lookups == [pc : LookupPcs, answer : Answers, began : SUBSET Places, known : Flags]
\* A transaction on the chain stays there, so a request that began after its block looks no
\* further than the chain.
LookupOK ==
    /\ tx \in SUBSET Places
    /\ lookup \in Lookups
    /\ "chain" \in lookup.began => "chain" \in tx
    /\ lookup.pc = "second" => "chain" \notin lookup.began
    /\ lookup.pc # "done" => lookup.answer = "none"
    /\ MinedBeatsPending
ListPcs == {"idle", "run", "done", "crash"}
ListAnswers == {"none", "error", "timeout", "results"}
Positions == {j - From : j \in Listed}
Lists == [pc : ListPcs, receipts : Flags, todo : SUBSET Listed, answer : ListAnswers, results : [Positions -> Int]]
\* Every goroutine that is through has left the receipt of its transaction at its place.
ListOK ==
    /\ list.pc \in ListPcs
    /\ list.pc = "idle" => list.answer = "none"
    /\ list.answer = "results" => list.pc \in {"done", "crash"} /\ list.todo = {}
    /\ list.pc # "idle" =>
          /\ list \in Lists
          /\ \A i \in Listed \ list.todo : list.results[i - From] = i

\* A look at one place.
LEMMA LookStep ==
    ASSUME LookupOK, GetTransactionByHash
    PROVE  LookupOK'
<1>1. tx' = tx /\ tx \in SUBSET Places /\ lookup \in Lookups /\ lookup.answer = "none"
  BY DEF GetTransactionByHash, LookupOK
<1>2. CASE lookup.pc = "idle"
  <2>1. lookup' = [lookup EXCEPT !.pc = "first", !.began = tx] /\ "first" \in LookupPcs
    BY <1>2 DEF GetTransactionByHash, LookupPcs
  <2>2. lookup' \in Lookups /\ lookup'.pc = "first" /\ lookup'.answer = "none" /\ lookup'.began = tx
    BY <1>1, <2>1, Zenon DEF Lookups
  <2> QED
    BY <1>1, <2>2 DEF LookupOK, MinedBeatsPending
<1>3. CASE lookup.pc = "first"
  <2>1. LookIn("chain", "second")
    BY <1>3 DEF GetTransactionByHash, LookupOrder
  <2>2. CASE "chain" \in tx
    <3>1. lookup' = [lookup EXCEPT !.pc = "done", !.answer = "chain"] /\ "done" \in LookupPcs /\ "chain" \in Answers
      BY <2>1, <2>2 DEF LookIn, LookupPcs, Answers, Places
    <3>2. lookup' \in Lookups /\ lookup'.pc = "done" /\ lookup'.answer = "chain" /\ lookup'.began = lookup.began
      BY <1>1, <3>1, Zenon DEF Lookups
    <3> QED
      BY <1>1, <2>2, <3>2 DEF LookupOK, MinedBeatsPending
  <2>3. CASE "chain" \notin tx
    <3>1. lookup' = [lookup EXCEPT !.pc = "second", !.answer = "none"] /\ "second" \in LookupPcs /\ "none" \in Answers
      BY <1>1, <2>1, <2>3 DEF LookIn, LookupPcs, Answers
    <3>2. lookup' \in Lookups /\ lookup'.pc = "second" /\ lookup'.answer = "none" /\ lookup'.began = lookup.began
      BY <1>1, <3>1, Zenon DEF Lookups
    <3> QED
      BY <1>1, <2>3, <3>2 DEF LookupOK, MinedBeatsPending
  <2> QED
    BY <2>2, <2>3
<1>4. CASE lookup.pc = "second"
  <2>1. LookIn("pool", "done")
    BY <1>4 DEF GetTransactionByHash, LookupOrder
  <2>2. PICK found \in {"pool", "unknown"} : lookup' = [lookup EXCEPT !.pc = "done", !.answer = found]
    BY <2>1 DEF LookIn
  <2>3. "done" \in LookupPcs /\ found \in Answers
    BY <2>2 DEF LookupPcs, Answers, Places
  <2>4. lookup' \in Lookups /\ lookup'.pc = "done" /\ lookup'.answer = found /\ lookup'.began = lookup.began
    BY <1>1, <2>2, <2>3, Zenon DEF Lookups
  <2> QED
    BY <1>1, <1>4, <2>4 DEF LookupOK, MinedBeatsPending
<1> QED
  BY <1>2, <1>3, <1>4 DEF GetTransactionByHash

\* A goroutine of a list puts the receipt at the place of its transaction, or ends the process.
LEMMA ListOneStep ==
    ASSUME ListOK, NEW i \in Listed, ListOne(i)
    PROVE  ListOK'
<1>1. /\ list.pc \in {"run", "done"} /\ i \in list.todo /\ list \in Lists /\ list.answer # "results"
      /\ \A j \in Listed \ list.todo : list.results[j - From] = j
  BY DEF ListOne, ListOK
<1>2. \/ list' = [list EXCEPT !.pc = "crash"]
      \/ list' = [list EXCEPT !.pc = "crash", !.answer = "error"]
      \/ list' = [list EXCEPT !.todo = list.todo \ {i}, !.results[i - From] = i]
  BY DEF ListOne, ReceiptIndex
<1>3. From \in Int /\ \A j \in Listed : j \in Int /\ j - From \in Positions
  <2>1. From \in Int
    BY ReadAssumption
  <2>2. \A j \in Listed : j \in Int
    BY <2>1 DEF Listed
  <2>3. \A j \in Listed : j - From \in Positions
    BY Zenon DEF Positions
  <2> QED
    BY <2>1, <2>2, <2>3
<1>4. "crash" \in ListPcs /\ "error" \in ListAnswers
  BY DEF ListPcs, ListAnswers
<1>5. CASE list' = [list EXCEPT !.pc = "crash"]
  <2>1. list' \in Lists /\ list'.pc = "crash" /\ list'.answer = list.answer /\ list'.todo = list.todo
        /\ list'.results = list.results
    BY <1>1, <1>4, <1>5, Zenon DEF Lists
  <2> QED
    BY <1>1, <1>4, <2>1 DEF ListOK
<1>6. CASE list' = [list EXCEPT !.pc = "crash", !.answer = "error"]
  <2>1. list' \in Lists /\ list'.pc = "crash" /\ list'.answer = "error" /\ list'.todo = list.todo
        /\ list'.results = list.results
    BY <1>1, <1>4, <1>6, Zenon DEF Lists
  <2> QED
    BY <1>1, <1>4, <2>1 DEF ListOK
<1>7. CASE list' = [list EXCEPT !.todo = list.todo \ {i}, !.results[i - From] = i]
  <2>1. PICK todo, results : todo = list.todo \ {i} /\ results = [list.results EXCEPT ![i - From] = i]
    OBVIOUS
  <2>2. list.results \in [Positions -> Int] /\ list.todo \in SUBSET Listed
    BY <1>1 DEF Lists
  <2>3. todo \in SUBSET Listed /\ results \in [Positions -> Int]
    BY <1>3, <2>1, <2>2
  <2>4. list' = [list EXCEPT !.todo = todo, !.results = results]
    BY <1>7, <2>1
  <2>5. list' \in Lists /\ list'.pc = list.pc /\ list'.answer = list.answer /\ list'.todo = todo /\ list'.results = results
    BY <1>1, <2>3, <2>4, Zenon DEF Lists
  <2>6. ASSUME NEW j \in Listed \ list'.todo PROVE list'.results[j - From] = j
    <3>1. CASE j = i
      BY <1>3, <2>1, <2>2, <2>5, <3>1
    <3>2. CASE j # i
      <4>1. j - From # i - From
        BY <1>3, <3>2
      <4>2. list.results[j - From] = j
        BY <1>1, <2>1, <2>5, <2>6, <3>2
      <4> QED
        BY <1>3, <2>1, <2>2, <2>5, <4>1, <4>2
    <3> QED
      BY <3>1, <3>2
  <2> QED
    BY <1>1, <2>5, <2>6 DEF ListOK, ListPcs
<1> QED
  BY <1>2, <1>5, <1>6, <1>7

\* A request begins a list, or returns what there is.
LEMMA ListEnds == ASSUME ListOK, ListTransactions \/ ListReturns PROVE ListOK'
<1>1. CASE ListTransactions
  <2>1. PICK r \in BOOLEAN : list' = [pc |-> "run", receipts |-> r, todo |-> Listed, answer |-> "none",
                                      results |-> [k \in Positions |-> -1]]
    BY <1>1 DEF ListTransactions, Positions
  <2>2. [k \in Positions |-> -1] \in [Positions -> Int] /\ Listed \in SUBSET Listed
    OBVIOUS
  <2>3. list' \in Lists /\ list'.pc = "run" /\ list'.answer = "none" /\ list'.todo = Listed
    BY <2>1, <2>2 DEF Lists, ListPcs, ListAnswers, Flags
  <2> QED
    BY <2>3 DEF ListOK, ListPcs
<1>2. CASE ListReturns
  <2>1. PICK a \in {"results", "timeout"} :
           list' = [list EXCEPT !.pc = "done", !.answer = a] /\ (a = "results" => list.todo = {})
    BY <1>2 DEF ListReturns
  <2>2. /\ list \in Lists /\ "done" \in ListPcs /\ a \in ListAnswers
        /\ \A j \in Listed \ list.todo : list.results[j - From] = j
    BY <1>2, <2>1 DEF ListReturns, ListOK, ListPcs, ListAnswers
  <2>3. /\ list' \in Lists /\ list'.pc = "done" /\ list'.answer = a /\ list'.todo = list.todo
        /\ list'.results = list.results
    BY <2>1, <2>2, Zenon DEF Lists
  <2> QED
    BY <2>1, <2>2, <2>3 DEF ListOK
<1> QED
  BY <1>1, <1>2

\* Division with a remainder.
LEMMA Division ==
    ASSUME NEW n \in Nat, NEW m \in Nat \ {0}
    PROVE  \E q \in Nat, r \in 0 .. m - 1 : q = n \div m /\ r = n % m /\ n = m * q + r
<1>1. PICK q, r : q = n \div m /\ r = n % m
  OBVIOUS
<1>2. q \in Int /\ r \in 0 .. m - 1
  BY <1>1
<1>3. n = m * q + r
  BY <1>1, Z3T(10)
<1>4. ASSUME q <= -1 PROVE FALSE
  <2>1. m * q <= m * (-1)
    BY <1>2, <1>4
  <2> QED
    BY <1>2, <1>3, <2>1
<1> QED
  BY <1>1, <1>2, <1>3, <1>4

\* The quotient and the remainder are determined.
LEMMA DivisionUnique ==
    ASSUME NEW n \in Nat, NEW m \in Nat \ {0}, NEW q \in Int, NEW r \in 0 .. m - 1, n = m * q + r
    PROVE  q = n \div m /\ r = n % m
<1>1. PICK a \in Nat, b \in 0 .. m - 1 : a = n \div m /\ b = n % m /\ n = m * a + b
  BY Division
<1>2. ASSUME a < q PROVE FALSE
  <2>1. m * q >= m * (a + 1)
    BY <1>2
  <2> QED
    BY <1>1, <2>1
<1>3. ASSUME q < a PROVE FALSE
  <2>1. m * a >= m * (q + 1)
    BY <1>3
  <2> QED
    BY <1>1, <2>1
<1> QED
  BY <1>1, <1>2, <1>3

\* Division is monotone.
LEMMA DivisionMonotone ==
    ASSUME NEW m \in Nat \ {0}, NEW n \in Nat, NEW k \in Nat, n <= k
    PROVE  n \div m <= k \div m
<1>1. PICK a \in Nat, r \in 0 .. m - 1 : a = n \div m /\ n = m * a + r
  BY Division
<1>2. PICK b \in Nat, s \in 0 .. m - 1 : b = k \div m /\ k = m * b + s
  BY Division
<1>3. ASSUME a > b PROVE FALSE
  <2>1. m * a >= m * (b + 1)
    BY <1>3
  <2> QED
    BY <1>1, <1>2, <2>1
<1> QED
  BY <1>1, <1>2, <1>3

\* The term of a number, and its view within the term, from its view overall.
LEMMA TermAndView ==
    ASSUME NEW V \in Nat \ {0}, NEW T \in Nat \ {0}, NEW n \in Nat
    PROVE  /\ n \div (V * T) = (n \div V) \div T
           /\ (n % (V * T)) \div V = (n \div V) % T
<1>1. PICK m \in Nat \ {0} : m = V * T
  OBVIOUS
<1>2. PICK q \in Nat, r \in 0 .. V - 1 : q = n \div V /\ n = V * q + r
  BY Division
<1>3. PICK a \in Nat, s \in 0 .. T - 1 : a = q \div T /\ s = q % T /\ q = T * a + s
  BY Division
<1>4. V * q = m * a + V * s
  <2>1. PICK x \in Nat : x = T * a /\ V * x = m * a
    BY <1>1
  <2>2. V * (x + s) = V * x + V * s
    BY <2>1
  <2> QED
    BY <1>3, <2>1, <2>2
<1>5. PICK t \in Nat : t = V * s + r /\ t < m
  <2>1. V * s <= V * (T - 1)
    OBVIOUS
  <2> QED
    BY <1>1, <2>1
<1>6. n = m * a + t
  <2>1. PICK y, z, w : y = V * q /\ z = m * a /\ w = V * s
    OBVIOUS
  <2>2. y \in Int /\ z \in Int /\ w \in Int
    BY <2>1
  <2>3. n = y + r /\ y = z + w /\ t = w + r
    BY <1>2, <1>4, <1>5, <2>1
  <2>4. n = z + t
    BY <1>5, <2>2, <2>3
  <2> QED
    BY <2>1, <2>4
<1>7. n \div m = a /\ n % m = t
  <2>1. t \in 0 .. m - 1 /\ a \in Int
    BY <1>5
  <2> QED
    BY <1>6, <2>1, DivisionUnique, Zenon
<1>8. t \div V = s
  BY <1>5, DivisionUnique
<1> QED
  BY <1>1, <1>2, <1>3, <1>7, <1>8
\* The term and the view that are read at height h.
TermRead(h) == (h - 1) \div (ViewLen * TermLen)
ViewRead(h) == ((h - 1) % (ViewLen * TermLen)) \div ViewLen
Infos == [step : 0 .. 3, term : Int, view : Int, number : Nat, from : Nat]
\* The three reads of GetBlockGenerationInfo are of heights in their order; the first is kept.
InfoOK ==
    /\ height \in Nat /\ info \in Infos
    /\ info.from <= height
    /\ info.step >= 1 /\ info.from > 0 => info.term = TermRead(info.from)
    /\ info.step >= 2 /\ info.from > 0 =>
          \E h \in info.from .. height : info.view = ViewRead(h) /\ (info.step = 3 => h <= info.number)

\* What is read at a height is a number.
LEMMA ReadsAreNumbers ==
    ASSUME height \in Nat
    PROVE  CurrentTerm \in Int /\ CurrentView \in Int
<1>1. 2 ^ Width \in Nat /\ 2 ^ Width >= 1
  BY EstimateAssumption
<1>2. PICK n \in Nat : n = Pred(height)
  BY <1>1 DEF Pred
<1>3. PICK m \in Nat \ {0} : m = ViewLen * TermLen
  BY ReadAssumption
<1>4. n \div m \in Int /\ n % m \in Nat
  BY <1>2, <1>3
<1>5. (n % m) \div ViewLen \in Int
  BY <1>4, ReadAssumption
<1> QED
  BY <1>2, <1>3, <1>4, <1>5 DEF CurrentTerm, CurrentView

\* One read.
LEMMA InfoStep ==
    ASSUME InfoOK, GetBlockGenerationInfo
    PROVE  InfoOK'
<1>1. /\ height \in Nat /\ height' = height /\ info \in Infos /\ info.step \in {0, 1, 2} /\ info.from <= height
      /\ info' = [InfoRead(info) EXCEPT !.step = @ + 1, !.from = IF info.step = 0 THEN height ELSE @]
  BY DEF InfoOK, GetBlockGenerationInfo, Infos
<1>2. CurrentTerm \in Int /\ CurrentView \in Int
  BY <1>1, ReadsAreNumbers
<1>3. height > 0 => Pred(height) = height - 1
  BY <1>1 DEF Pred
<1>4. CASE info.step = 0
  <2>1. PICK i : i = [info EXCEPT !.term = CurrentTerm]
    OBVIOUS
  <2>2. PICK k : k = i.step + 1
    OBVIOUS
  <2>3. PICK f : f = IF info.step = 0 THEN height ELSE i.from
    OBVIOUS
  <2>4. InfoRead(info) = i
    BY <1>4, <2>1 DEF InfoRead
  <2>5. info' = [i EXCEPT !.step = k, !.from = f]
    BY <1>1, <2>1, <2>2, <2>3, <2>4, Zenon
  <2>6. i \in Infos /\ i.step = info.step /\ i.from = info.from /\ i.term = CurrentTerm
    BY <1>1, <1>2, <2>1, Zenon DEF Infos
  <2>7. k = 1 /\ k \in 0 .. 3 /\ f = height /\ f \in Nat
    BY <1>1, <1>4, <2>2, <2>3, <2>6 DEF Infos
  <2>8. info' \in Infos /\ info'.step = 1 /\ info'.from = height /\ info'.term = CurrentTerm
    BY <2>5, <2>6, <2>7, Zenon DEF Infos
  <2>9. height > 0 => CurrentTerm = TermRead(height)
    BY <1>3 DEF CurrentTerm, TermRead
  <2> QED
    BY <1>1, <2>8, <2>9 DEF InfoOK
<1>5. CASE info.step = 1
  <2>1. PICK i : i = [info EXCEPT !.view = CurrentView]
    OBVIOUS
  <2>2. PICK k : k = i.step + 1
    OBVIOUS
  <2>3. PICK f : f = IF info.step = 0 THEN height ELSE i.from
    OBVIOUS
  <2>4. InfoRead(info) = i
    BY <1>5, <2>1 DEF InfoRead
  <2>5. info' = [i EXCEPT !.step = k, !.from = f]
    BY <1>1, <2>1, <2>2, <2>3, <2>4, Zenon
  <2>6. i \in Infos /\ i.step = info.step /\ i.from = info.from /\ i.view = CurrentView /\ i.term = info.term
    BY <1>1, <1>2, <2>1, Zenon DEF Infos
  <2>7. k = 2 /\ k \in 0 .. 3 /\ f = info.from /\ f \in Nat
    BY <1>1, <1>5, <2>2, <2>3, <2>6 DEF Infos
  <2>8. /\ info' \in Infos /\ info'.step = 2 /\ info'.from = info.from /\ info'.term = info.term
        /\ info'.view = CurrentView
    BY <2>5, <2>6, <2>7, Zenon DEF Infos
  <2>9. height > 0 => CurrentView = ViewRead(height)
    BY <1>3 DEF CurrentView, ViewRead
  <2>10. info.from > 0 => height > 0 /\ height \in info.from .. height
    BY <1>1 DEF Infos
  <2>11. info.from > 0 => info.term = TermRead(info.from)
    BY <1>5 DEF InfoOK
  <2> QED
    BY <1>1, <2>8, <2>9, <2>10, <2>11 DEF InfoOK
<1>6. CASE info.step = 2
  <2>1. PICK i : i = [info EXCEPT !.number = height]
    OBVIOUS
  <2>2. PICK k : k = i.step + 1
    OBVIOUS
  <2>3. PICK f : f = IF info.step = 0 THEN height ELSE i.from
    OBVIOUS
  <2>4. InfoRead(info) = i
    BY <1>6, <2>1 DEF InfoRead
  <2>5. info' = [i EXCEPT !.step = k, !.from = f]
    BY <1>1, <2>1, <2>2, <2>3, <2>4, Zenon
  <2>6. i \in Infos /\ i.step = info.step /\ i.from = info.from /\ i.number = height /\ i.term = info.term /\ i.view = info.view
    BY <1>1, <1>2, <2>1, Zenon DEF Infos
  <2>7. k = 3 /\ k \in 0 .. 3 /\ f = info.from /\ f \in Nat
    BY <1>1, <1>6, <2>2, <2>3, <2>6 DEF Infos
  <2>8. /\ info' \in Infos /\ info'.step = 3 /\ info'.from = info.from /\ info'.term = info.term
        /\ info'.view = info.view /\ info'.number = height
    BY <2>5, <2>6, <2>7, Zenon DEF Infos
  <2>9. info.from > 0 => info.term = TermRead(info.from)
    BY <1>6 DEF InfoOK
  <2>10. info.from > 0 => \E h \in info.from .. height : info.view = ViewRead(h)
    BY <1>6 DEF InfoOK
  <2>11. info.from > 0 =>
           \E h \in info.from .. height : info.view = ViewRead(h) /\ h <= height
    BY <2>10
  <2> QED
    BY <1>1, <2>8, <2>9, <2>11 DEF InfoOK
<1> QED
  BY <1>1, <1>4, <1>5, <1>6

\* A chain that grows keeps what was read.
LEMMA InfoKept ==
    ASSUME InfoOK, info' = info, height' \in Nat, height' >= height
    PROVE  InfoOK'
<1>1. info.from <= height'
  BY DEF InfoOK, Infos
<1>2. \A h \in info.from .. height : h \in info.from .. height'
  BY DEF InfoOK, Infos
<1> QED
  BY <1>1, <1>2 DEF InfoOK

\* What is reported is not ahead of its number, from the three heights that were read.
LEMMA InfoInOrder == InfoOK => InfoNotAhead
<1> SUFFICES ASSUME InfoOK, info.step = 3, info.from > 0
             PROVE  LET term == (info.number - 1) \div (ViewLen * TermLen)
                        view == ((info.number - 1) \div ViewLen) % TermLen
                    IN info.term <= term /\ (info.term = term => info.view <= view)
  BY DEF InfoNotAhead
<1>1. PICK h \in info.from .. height :
        info.view = ViewRead(h) /\ h <= info.number
  BY DEF InfoOK
<1>2. PICK a \in Nat, b \in Nat, c \in Nat :
        a = info.from - 1 /\ b = h - 1 /\ c = info.number - 1 /\ a <= b /\ b <= c
  BY <1>1 DEF InfoOK, Infos
<1>3. PICK m \in Nat \ {0} : m = ViewLen * TermLen
  BY ReadAssumption
<1>4. info.term = a \div m /\ info.view = (b % m) \div ViewLen
  BY <1>1, <1>2, <1>3 DEF InfoOK, TermRead, ViewRead
<1>5. a \div m <= b \div m /\ b \div m <= c \div m /\ a \div m \in Int /\ b \div m \in Int /\ c \div m \in Int
  <2>1. a \div m <= b \div m /\ b \div m <= c \div m
    BY <1>2, DivisionMonotone
  <2> QED
    BY <2>1
<1>6. PICK p \in Nat, q \in Nat : p = b \div ViewLen /\ q = c \div ViewLen /\ p <= q
  <2>1. b \div ViewLen <= c \div ViewLen
    BY <1>2, ReadAssumption, DivisionMonotone
  <2>2. b \div ViewLen \in Nat /\ c \div ViewLen \in Nat
    BY ReadAssumption, Division
  <2> QED
    BY <2>1, <2>2
<1>7. b \div m = p \div TermLen /\ (b % m) \div ViewLen = p % TermLen /\ c \div m = q \div TermLen
  <2>1. ViewLen \in Nat \ {0} /\ TermLen \in Nat \ {0}
    BY ReadAssumption
  <2>2. \A n \in Nat : n \div m = (n \div ViewLen) \div TermLen /\ (n % m) \div ViewLen = (n \div ViewLen) % TermLen
    <3>1. \A n \in Nat : /\ n \div (ViewLen * TermLen) = (n \div ViewLen) \div TermLen
                         /\ (n % (ViewLen * TermLen)) \div ViewLen = (n \div ViewLen) % TermLen
      BY <2>1, TermAndView, Zenon
    <3> QED
      BY <1>3, <3>1, Zenon
  <2> QED
    BY <1>6, <2>2
<1>8. ASSUME a \div m = c \div m PROVE p % TermLen <= q % TermLen
  <2>1. p \div TermLen = q \div TermLen
    BY <1>5, <1>7, <1>8
  <2>2. PICK x \in Nat, r \in 0 .. TermLen - 1 : x = p \div TermLen /\ r = p % TermLen /\ p = TermLen * x + r
    BY ReadAssumption, Division
  <2>3. PICK y \in Nat, s \in 0 .. TermLen - 1 : y = q \div TermLen /\ s = q % TermLen /\ q = TermLen * y + s
    BY ReadAssumption, Division
  <2>4. PICK z \in Int : z = TermLen * x
    BY ReadAssumption
  <2>5. p = z + r /\ q = z + s
    BY <2>1, <2>2, <2>3, <2>4
  <2>6. r <= s
    BY <1>6, <2>4, <2>5
  <2> QED
    BY <2>2, <2>3, <2>6
<1>9. info.term <= c \div m
  BY <1>4, <1>5
<1>10. info.term = c \div m => info.view <= q % TermLen
  BY <1>4, <1>7, <1>8
<1> QED
  BY <1>2, <1>3, <1>6, <1>9, <1>10

ReadInv == LookupOK /\ ListOK /\ InfoOK

\* Before the first request nothing was answered.
LEMMA ReadInitially == ReadInit => ReadInv
<1> SUFFICES ASSUME ReadInit PROVE ReadInv
  OBVIOUS
<1>1. lookup \in Lookups /\ lookup.pc = "idle" /\ lookup.answer = "none" /\ lookup.began = {}
  BY DEF ReadInit, Lookups, LookupPcs, Answers, Flags
<1>2. LookupOK
  BY <1>1 DEF ReadInit, LookupOK, Places, MinedBeatsPending
<1>3. ListOK
  BY DEF ReadInit, ListOK, ListPcs
<1>4. InfoOK
  <2>1. height = 0 /\ info = [step |-> 0, term |-> 0, view |-> 0, number |-> 0, from |-> 0]
    BY DEF ReadInit
  <2>2. info \in Infos /\ info.step = 0 /\ info.from = 0
    BY <2>1 DEF Infos
  <2> QED
    BY <2>1, <2>2 DEF InfoOK
<1> QED
  BY <1>2, <1>3, <1>4 DEF ReadInv

\* The inductive invariant of the reads.
THEOREM ReadInvariant == ReadInit /\ [][ReadNext]_readVars => []ReadInv
<1>1. ASSUME ReadInv, [ReadNext]_readVars PROVE ReadInv'
  <2>1. LookupOK'
    <3>1. CASE GetTransactionByHash
      BY <1>1, <3>1, LookStep DEF ReadInv
    <3>2. CASE ~GetTransactionByHash
      <4>1. lookup' = lookup /\ tx' \in SUBSET Places /\ ("chain" \in tx => "chain" \in tx')
        BY <1>1, <3>2 DEF ReadNext, InsertBlock, PoolReset, GetBlockGenerationInfo, ListTransactions, ListReturns,
           ListOne, readVars, ReadInv, LookupOK, Places
      <4> QED
        BY <1>1, <4>1 DEF ReadInv, LookupOK, MinedBeatsPending
    <3> QED
      BY <3>1, <3>2
  <2>2. ListOK'
    <3>1. CASE ListTransactions \/ ListReturns
      BY <1>1, <3>1, ListEnds DEF ReadInv
    <3>2. ASSUME NEW i \in Listed, ListOne(i) PROVE ListOK'
      BY <1>1, <3>2, ListOneStep DEF ReadInv
    <3>3. CASE InsertBlock \/ PoolReset \/ GetTransactionByHash \/ GetBlockGenerationInfo \/ UNCHANGED readVars
      <4>1. list' = list
        BY <3>3 DEF InsertBlock, PoolReset, GetTransactionByHash, GetBlockGenerationInfo, readVars
      <4> QED
        BY <1>1, <4>1 DEF ReadInv, ListOK
    <3> QED
      BY <1>1, <3>1, <3>2, <3>3 DEF ReadNext
  <2>3. InfoOK'
    <3>1. CASE GetBlockGenerationInfo
      BY <1>1, <3>1, InfoStep DEF ReadInv
    <3>2. CASE ~GetBlockGenerationInfo
      <4>1. info' = info /\ (height' = height \/ height' = height + 1) /\ height \in Nat
        BY <1>1, <3>2 DEF ReadNext, InsertBlock, PoolReset, GetTransactionByHash, ListTransactions, ListReturns,
           ListOne, readVars, ReadInv, InfoOK
      <4>2. height' \in Nat /\ height' >= height
        BY <4>1
      <4> QED
        BY <1>1, <4>1, <4>2, InfoKept DEF ReadInv
    <3> QED
      BY <3>1, <3>2
  <2> QED
    BY <2>1, <2>2, <2>3 DEF ReadInv
<1> QED
  BY <1>1, ReadInitially, PTL

\* GetTransactionByHash never calls a transaction pending whose block was inserted before the
\* request began, although the pool may still hold it.
THEOREM MinedNotPending == ReadInit /\ [][ReadNext]_readVars => []MinedBeatsPending
<1>1. ReadInv => MinedBeatsPending
  BY DEF ReadInv, LookupOK
<1> QED
  BY <1>1, ReadInvariant, PTL

\* A list of a block's transactions that is returned as complete has the receipt of each.
THEOREM ListsComplete == ReadInit /\ [][ReadNext]_readVars => []ListComplete
<1>1. ReadInv => ListComplete
  BY DEF ReadInv, ListOK, ListComplete
<1> QED
  BY <1>1, ReadInvariant, PTL

\* The term and the view that GetBlockGenerationInfo reports are never ahead of the block number
\* reported with them, though the chain grows between the reads.
THEOREM InfosNotAhead == ReadInit /\ [][ReadNext]_readVars => []InfoNotAhead
<1>1. ReadInv => InfoNotAhead
  BY InfoInOrder DEF ReadInv
<1> QED
  BY <1>1, ReadInvariant, PTL
=============================================================================
