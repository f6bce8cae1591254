----------------------------- MODULE ChainTypes -----------------------------
(***************************************************************************)
(* The structures transactions and blocks are kept in, below the pool, the *)
(* miner and the consensus: the list of an account's transactions with its *)
(* heap of nonces, sorted cache and caps (core/tx_list.go), the order in   *)
(* which the miner takes them (types/transaction.go), signing and the      *)
(* cached sender (types/transaction_signing.go), the threads that recover  *)
(* senders (core/tx_cacher.go), and blocks whose headers are shared,       *)
(* copied and written in place (types/block.go).  The five are             *)
(* independent state machines.                                            *)
(*                                                                         *)
(* A heap is the array container/heap works on, of records ordered by      *)
(* their key; positions count from 1.  A Go map is ranged over in any      *)
(* order.  A pointer or cache that may be nil is a set, empty when it is.  *)
(* A hash is the value hashed; recovering a signature from another hash    *)
(* than the one signed gives some other address, Stranger.                 *)
(***************************************************************************)
EXTENDS Integers, Sequences, FiniteSets, SequencesExt

CONSTANTS
  ListNonces,     \* nonces of the account whose list is modelled
  Offers,         \* transactions that arrive: sets of [price, cost, gas]
  Limits,         \* balances and gas limits that Filter is called with
  ListPriceBump,      \* the percentage a replacement pays more
  MaxListCalls    \* calls made on the list

CONSTANTS
  Senders,        \* accounts with pending transactions
  Pays,           \* gas prices
  WorkGas,       \* header.GasLimit, in units of configs.TxGas
  TxGases,        \* gas limits of transactions
  MaxRun,         \* the most transactions of an account
  ChainIds, KeyOwners, Stranger,
  WordSize,           \* 2^64 in the code
  MaxTxCalls,     \* calls made on a signed transaction
  Threads,        \* txSenderCacher.threads
  Lengths,        \* sizes of the batches given to recover
  Recoverers,     \* goroutines that call it
  Committee, Me,  \* the validators of the height, and the one modelled
  CommitteeQuorum,\* signatures that make a certificate
  MaxHeaders      \* header objects allocated

VARIABLES
  lst,            \* a txList: strict, items, index, cache, costcap, gascap
  listCalls,
  set,            \* TransactionsByPriceAndNonce: txs and heads
  runOf,          \* the transactions it was made from, as prices by nonce
  handed,         \* how many of each account the miner took
  popped,         \* accounts the miner gave up
  work,           \* the Work it commits them to: gas left, nonces of the state, and accounts with a
                  \* transaction that was not applied although it was not stale
  txn,            \* a transaction: data and the caches hash and from
  signedAs,       \* who signed it, and for which chain
  answer,         \* what Sender returned last, and for which chain
  txCalls,
  jobs,           \* what each caller of recover still has to send
  chan,           \* txSenderCacher.tasks
  threads,        \* the task each thread works on
  recovered,      \* how often each transaction's sender was recovered
  headers,            \* headers, and the timestamps and signature slices they point to
  blocks,         \* Block objects: the header they point to and their cached hash
  known,          \* the signatures of the block in the caches, by phase
  out             \* headers and blocks handed to broadcasting goroutines

listVars == <<lst, listCalls>>
orderVars == <<set, runOf, handed, popped, work>>
signVars == <<txn, signedAs, answer, txCalls>>
cacherVars == <<jobs, chan, threads, recovered>>
blockVars == <<headers, blocks, known, out>>

(***************************************************************************)
(* container/heap.                                                         *)
(***************************************************************************)
Swap(h, i, j) == [h EXCEPT ![i] = h[j], ![j] = h[i]]

RECURSIVE HeapUp(_, _)
HeapUp(h, j) ==
  LET i == j \div 2 IN
  IF j > 1 /\ h[j].key < h[i].key THEN HeapUp(Swap(h, i, j), i) ELSE h

\* down(i) within the first n elements.
RECURSIVE Down(_, _, _)
Down(h, i, n) ==
  LET l == 2 * i
      j == IF l + 1 <= n /\ h[l + 1].key < h[l].key THEN l + 1 ELSE l
  IN IF l <= n /\ h[j].key < h[i].key THEN Down(Swap(h, i, j), j, n) ELSE h

RECURSIVE InitFrom(_, _)
InitFrom(h, i) == IF i = 0 THEN h ELSE InitFrom(Down(h, i, Len(h)), i - 1)
HeapInit(h) == InitFrom(h, Len(h) \div 2)

HeapPush(h, x) == HeapUp(Append(h, x), Len(h) + 1)
HeapPop(h) == Front(Down(Swap(h, 1, Len(h)), 1, Len(h) - 1))
\* heap.Remove: the last element takes the place, then goes down, or else up.
HeapRemove(h, i) ==
  LET n == Len(h)
      s == Swap(h, i, n)
      d == Down(s, i, n - 1)
  IN IF i = n THEN Front(h) ELSE Front(IF d # s THEN d ELSE HeapUp(s, i))

HeapOrdered(h) == \A i \in 2 .. Len(h) : h[i \div 2].key <= h[i].key
Orders(S) == {f \in [1 .. Cardinality(S) -> S] : \A i, j \in DOMAIN f : f[i] = f[j] => i = j}

(***************************************************************************)
(* txSortedMap and txList.  items is a partial function from nonces to     *)
(* transactions.                                                           *)
(***************************************************************************)
Nil == {}
Nonce(n) == [key |-> n]
HeldBy(l) == DOMAIN l.items
Keep(l, S) == [n \in HeldBy(l) \cap S |-> l.items[n]]
RECURSIVE Ascending(_)
Ascending(S) ==
  IF S = {} THEN <<>>
  ELSE LET n == CHOOSE x \in S : \A y \in S : x <= y IN <<n>> \o Ascending(S \ {n})
Sorted(items) == LET a == Ascending(DOMAIN items) IN [i \in DOMAIN a |-> items[a[i]]]

\* txSortedMap.Put
PutOffer(l, n, tx) ==
  [l EXCEPT !.items = [m \in HeldBy(l) \cup {n} |-> IF m = n THEN tx ELSE l.items[m]],
            !.index = IF n \in HeldBy(l) THEN l.index ELSE HeapPush(l.index, Nonce(n)),
            !.cache = Nil]

\* The price below which txList.Add refuses to replace a transaction.
Threshold(old) == (old.price * (100 + ListPriceBump)) \div 100
RefusedOffer(l, n, tx) == n \in HeldBy(l) /\ (l.items[n].price >= tx.price \/ Threshold(l.items[n]) > tx.price)

\* The caps txList.Add leaves.
Raised(l, n, tx) ==
  [l EXCEPT !.costcap = IF @ < tx.cost THEN tx.cost ELSE @,
            !.gascap = IF @ < tx.gas THEN tx.gas ELSE @]

\* txList.Add
ListAdd(n, tx) ==
  IF RefusedOffer(lst, n, tx) THEN UNCHANGED lst ELSE lst' = PutOffer(Raised(lst, n, tx), n, tx)

RECURSIVE PopBelow(_, _)
PopBelow(h, t) == IF h # <<>> /\ h[1].key < t THEN PopBelow(HeapPop(h), t) ELSE h

\* The cache without its first k transactions.
Shifted(l, k) == {SubSeq(c, k + 1, Len(c)) : c \in l.cache}

\* Forward
ListForward(t) ==
  LET gone == {n \in HeldBy(lst) : n < t} IN
  lst' = [lst EXCEPT !.items = Keep(lst, HeldBy(lst) \ gone),
                     !.index = PopBelow(lst.index, t),
                     !.cache = Shifted(lst, Cardinality(gone))]

\* The index txSortedMap.Filter rebuilds from the map, in the order it ranges over it.
Rebuilt(order) == HeapInit([i \in DOMAIN order |-> Nonce(order[i])])

\* txSortedMap.Filter: the transactions with nonces in S go, those left are ranged over in the given order.
Filtered(l, S, order) ==
  IF S = {} THEN l
  ELSE [l EXCEPT !.items = Keep(l, HeldBy(l) \ S), !.index = Rebuilt(order), !.cache = Nil]

\* txList.Filter; in a strict list everything above the lowest nonce removed goes too.
ListFilter(costLimit, gasLimit) ==
  LET over == {n \in HeldBy(lst) : lst.items[n].cost > costLimit \/ lst.items[n].gas > gasLimit}
      above == {n \in HeldBy(lst) \ over : lst.strict /\ {m \in over : m < n} # {}}
      lowered == [lst EXCEPT !.costcap = costLimit, !.gascap = gasLimit]
  IN IF lst.costcap <= costLimit /\ lst.gascap <= gasLimit
     THEN UNCHANGED lst
     ELSE \E order \in Orders(HeldBy(lst) \ (over \cup above)) : lst' = Filtered(lowered, over \cup above, order)

\* Cap: the index is sorted, cut and made a heap, which it already is.
ListCap(t) ==
  LET keep == SubSeq(Ascending(HeldBy(lst)), 1, t) IN
  IF Cardinality(HeldBy(lst)) <= t THEN UNCHANGED lst
  ELSE lst' = [lst EXCEPT !.items = Keep(lst, {keep[i] : i \in DOMAIN keep}),
                          !.index = Rebuilt(keep),
                          !.cache = {SubSeq(c, 1, t) : c \in @}]

\* txSortedMap.Remove, then in a strict list the Filter of what lies above.
ListRemove(n) ==
  LET at == CHOOSE i \in DOMAIN lst.index : lst.index[i].key = n
      without == [lst EXCEPT !.items = Keep(lst, HeldBy(lst) \ {n}), !.index = HeapRemove(@, at), !.cache = Nil]
      above == {m \in HeldBy(lst) : lst.strict /\ m > n}
  IN IF n \notin HeldBy(lst) THEN UNCHANGED lst
     ELSE \E order \in Orders(HeldBy(without) \ above) : lst' = Filtered(without, above, order)

\* The nonces Ready returns: from the lowest one on, up to the first gap.
Consecutive(l) == {n \in HeldBy(l) : l.index[1].key .. n \subseteq HeldBy(l)}
RECURSIVE PopAll(_, _)
PopAll(h, k) == IF k = 0 THEN h ELSE PopAll(HeapPop(h), k - 1)

\* Ready
ListReady(start) ==
  IF lst.index = <<>> THEN UNCHANGED lst
  ELSE IF lst.index[1].key > start THEN UNCHANGED lst
  ELSE LET ready == Consecutive(lst) IN
       lst' = [lst EXCEPT !.items = Keep(lst, HeldBy(lst) \ ready),
                          !.index = PopAll(@, Cardinality(ready)), !.cache = Nil]

\* Flatten
ListFlatten == lst' = [lst EXCEPT !.cache = IF @ = Nil THEN {Sorted(lst.items)} ELSE @]

newTxList(strict) == [strict |-> strict, items |-> <<>>, index |-> <<>>, cache |-> Nil, costcap |-> 0, gascap |-> 0]
ListInit == lst = newTxList(FALSE) /\ listCalls = 0

ListNext ==
  /\ listCalls < MaxListCalls /\ listCalls' = listCalls + 1
  /\ \/ listCalls = 0 /\ lst' = newTxList(TRUE)
     \/ \E n \in ListNonces, tx \in Offers : ListAdd(n, tx)
     \/ \E n \in ListNonces : ListForward(n) \/ ListRemove(n) \/ ListReady(n) \/ ListCap(n)
     \/ \E c, g \in Limits : ListFilter(c, g)
     \/ ListFlatten

(***************************************************************************)
(* TransactionsByPriceAndNonce.  A head is its account and nonce with the  *)
(* key minus its price, so that the heap gives the highest price first.    *)
(***************************************************************************)
Head1(a, n) == [key |-> 0 - runOf[a][n], acc |-> a, nonce |-> n]
HeadOf(prices, a) == [key |-> 0 - prices[a][1], acc |-> a, nonce |-> 1]

\* NewTransactionsByPriceAndNonce, given the pending transactions of the pool.
NewOrder(prices) ==
  LET some == {a \in Senders : prices[a] # <<>>} IN
  /\ set.heads = <<>> /\ runOf = [a \in Senders |-> <<>>]
  /\ runOf' = prices
  /\ \E order \in Orders(some) :
       set' = [txs |-> [a \in Senders |-> IF a \in some THEN 2 .. Len(prices[a]) ELSE {}],
               heads |-> HeapInit([i \in DOMAIN order |-> HeadOf(prices, order[i])])]
  /\ UNCHANGED <<handed, popped>>

\* makeCurrentWork on the state of the parent, which may be older or newer than the one the pool's
\* transactions were checked against.
makeCurrentWork(a, nonce) == work' = [gas |-> WorkGas, nonces |-> [[b \in Senders |-> 1] EXCEPT ![a] = nonce], refused |-> {}]

\* heap.Fix(heads, 0)
Fixed(h) == Down(h, 1, Len(h))

LeastOffer(S) == CHOOSE x \in S : \A y \in S : x <= y

\* Shift, which the miner calls when it is done with the transaction.
Shift ==
  /\ set.heads # <<>>
  /\ LET a == set.heads[1].acc
         rest == set.txs[a]
     IN /\ set' = IF rest # {}
                  THEN [txs |-> [set.txs EXCEPT ![a] = rest \ {LeastOffer(rest)}],
                        heads |-> Fixed([set.heads EXCEPT ![1] = Head1(a, LeastOffer(rest))])]
                  ELSE [set EXCEPT !.heads = HeapPop(set.heads)]
        /\ handed' = [handed EXCEPT ![a] = @ + 1]
  /\ UNCHANGED <<runOf, popped>>

\* Pop, which it calls when the account's transactions cannot be executed now.
PopAccount ==
  /\ set.heads # <<>>
  /\ popped' = popped \cup {set.heads[1].acc}
  /\ set' = [set EXCEPT !.heads = HeapPop(set.heads)]
  /\ UNCHANGED <<runOf, handed>>

\* ErrNonceTooLow: the head moved on since the pool was asked.
SkipStale == Shift /\ UNCHANGED work

\* A turn of commitTransactions: ApplyTransaction compares the nonce, then takes the transaction's gas
\* g from the pool and gives back what is not used; what fails after that is not given back.
commitTransaction ==
  /\ set.heads # <<>> /\ work.gas >= 1
  /\ LET h == set.heads[1]
         refuse == [work EXCEPT !.refused = @ \cup {h.acc}]
     IN \/ h.nonce < work.nonces[h.acc] /\ SkipStale
        \/ h.nonce > work.nonces[h.acc] /\ PopAccount /\ work' = refuse
        \/ /\ h.nonce = work.nonces[h.acc]
           /\ \E g \in TxGases :
                \/ g > work.gas /\ PopAccount /\ work' = refuse
                \/ /\ g <= work.gas /\ Shift
                   /\ \/ \E used \in 1 .. g : work' = [work EXCEPT !.gas = @ - used, !.nonces[h.acc] = @ + 1]
                      \/ \E lost \in {0, g} : work' = [refuse EXCEPT !.gas = @ - lost]

OrderInit ==
  /\ set = [txs |-> [a \in Senders |-> {}], heads |-> <<>>]
  /\ runOf = [a \in Senders |-> <<>>] /\ handed = [a \in Senders |-> 0] /\ popped = {}
  /\ work = [gas |-> 0, nonces |-> [a \in Senders |-> 1], refused |-> {}]

Runs == UNION {[1 .. n -> Pays] : n \in 0 .. MaxRun}
OrderNext ==
  \/ \E prices \in [Senders -> Runs], a \in Senders, n \in 0 .. 2 : NewOrder(prices) /\ makeCurrentWork(a, n)
  \/ commitTransaction

(***************************************************************************)
(* Signing.  The data of a transaction is its type, V and the signature:   *)
(* what was hashed and by whose key, or NoSig for R = S = 0.               *)
(***************************************************************************)
NoSig == [by |-> "nobody", over |-> <<"nothing">>]
\* FrontierSigner.Hash and Cep1Signer.Hash: only the latter covers the type and the chain.
PlainHash(d) == <<"plain">>
ChainHash(d, c) == <<"chain", d.private, c>>

isProtectedV(v) == v # 27 /\ v # 28
deriveChainId(v) == IF isProtectedV(v) THEN ((v - 35) % WordSize) \div 2 ELSE 0

Recovered(sig, hash) == IF sig.over = hash THEN sig.by ELSE Stranger
\* recoverPlain: an error for a V of more than a byte, or that is not 0 or 1 less 27, or for R = S = 0.
recoverPlain(hash, sig, v) ==
  IF v \in 0 .. 255 /\ (v - 27) % 256 \in {0, 1} /\ sig # NoSig THEN Recovered(sig, hash) ELSE "invalid"

\* Cep1Signer.Sender
Cep1Sender(d, c) ==
  CASE ~isProtectedV(d.v) -> recoverPlain(PlainHash(d), d.sig, d.v)
    [] isProtectedV(d.v) /\ deriveChainId(d.v) # c -> "wrong chain"
    [] OTHER -> recoverPlain(ChainHash(d, c), d.sig, d.v - 2 * c - 8)

\* Cep1Signer.SignatureValues, for a signature whose last byte is v.
SignatureV(c, v) == IF c = 0 THEN v + 27 ELSE v + 35 + 2 * c

\* Transaction.WithSignature
WithSignature(tx, c, sig, v) ==
  [data |-> [tx.data EXCEPT !.sig = sig, !.v = SignatureV(c, v)], hash |-> Nil, from |-> Nil]

\* newTransaction
NewTx == [data |-> [private |-> FALSE, v |-> 0, sig |-> NoSig], hash |-> Nil, from |-> Nil]

\* SetPrivate, on the transaction a request was made into, before it is hashed or signed.
SetPrivate(b) ==
  /\ signedAs = Nil /\ txn.hash = Nil
  /\ txn' = [txn EXCEPT !.data.private = b]
  /\ UNCHANGED <<signedAs, answer>>

\* SignTx by the signer of chain c: a private key gives a last byte of 0 or 1.
SignTx(c, k, v) ==
  /\ signedAs = Nil
  /\ txn' = WithSignature(txn, c, [by |-> k, over |-> ChainHash(txn.data, c)], v)
  /\ signedAs' = {<<k, c>>} /\ answer' = Nil

\* Transaction.Hash
TxHash == txn' = [txn EXCEPT !.hash = IF @ = Nil THEN {txn.data} ELSE @] /\ UNCHANGED <<signedAs, answer>>

\* Cep1Signer.Equal
SameSigner(c, d) == c = d

\* What sigCache holds for the signer of chain c.
Cached(c) == {f[2] : f \in {x \in txn.from : SameSigner(x[1], c)}}
\* Sender, and AsMessage, which calls it.
Sender(c) ==
  LET a == IF Cached(c) # Nil THEN CHOOSE x \in Cached(c) : TRUE ELSE Cep1Sender(txn.data, c) IN
  /\ answer' = {<<c, a>>}
  /\ txn' = IF a \in {"invalid", "wrong chain"} THEN txn ELSE [txn EXCEPT !.from = {<<c, a>>}]
  /\ UNCHANGED signedAs

\* EncodeRLP and DecodeRLP: a transaction with the same data and nothing cached but its size.
CopyRLP == txn' = [data |-> txn.data, hash |-> Nil, from |-> Nil] /\ UNCHANGED <<signedAs, answer>>

\* The last byte UnmarshalJSON validates.
LastByte(v) == (IF isProtectedV(v) THEN v - 35 - 2 * deriveChainId(v) ELSE v - 27) % 256
\* MarshalJSON, which caches the hash, and UnmarshalJSON, which refuses some signatures.
CopyJSON ==
  /\ txn' = IF LastByte(txn.data.v) \in {0, 1} /\ txn.data.sig # NoSig
            THEN [data |-> txn.data, hash |-> Nil, from |-> Nil]
            ELSE [txn EXCEPT !.hash = IF @ = Nil THEN {txn.data} ELSE @]
  /\ UNCHANGED <<signedAs, answer>>

SignInit == txn = NewTx /\ signedAs = Nil /\ answer = Nil /\ txCalls = 0

SignNext ==
  /\ txCalls < MaxTxCalls /\ txCalls' = txCalls + 1
  /\ \/ \E b \in BOOLEAN : SetPrivate(b)
     \/ \E c \in ChainIds, k \in KeyOwners, v \in {0, 1} : SignTx(c, k, v)
     \/ \E c \in ChainIds : Sender(c)
     \/ TxHash \/ CopyRLP \/ CopyJSON

(***************************************************************************)
(* The sender cacher.  A task is the transactions of its caller's batch    *)
(* from first on, every inc-th of them; next is the one to recover.        *)
(***************************************************************************)
\* The number of tasks a batch of n transactions is split into.
TasksFor(n) == IF n < Threads * 4 THEN (n + 3) \div 4 ELSE Threads

NoTask == [of |-> "none", next |-> 0, inc |-> 0]
NotCalled == [len |-> 0, tasks |-> 0, sent |-> 0, called |-> FALSE]

\* recover, and recoverFromBlocks with the transactions of its blocks.
Recover(r, n) ==
  /\ ~jobs[r].called
  /\ jobs' = [jobs EXCEPT ![r] = [len |-> n, tasks |-> TasksFor(n), sent |-> 0, called |-> TRUE]]
  /\ recovered' = [recovered EXCEPT ![r] = [i \in 0 .. (n - 1) |-> 0]]
  /\ UNCHANGED <<chan, threads>>

\* The tasks channel is buffered for as many tasks as there are threads.
RoomInList == Len(chan) < Threads
\* recover sends its next task; it waits while the channel is full.
SendTask(r) ==
  LET j == jobs[r] IN
  /\ j.sent < j.tasks /\ RoomInList
  /\ chan' = Append(chan, [of |-> r, next |-> j.sent, inc |-> j.tasks])
  /\ jobs' = [jobs EXCEPT ![r].sent = @ + 1]
  /\ UNCHANGED <<threads, recovered>>

\* cache: a thread takes a task,
TakeTask(t) ==
  /\ threads[t] = NoTask /\ chan # <<>>
  /\ threads' = [threads EXCEPT ![t] = Head(chan)] /\ chan' = Tail(chan)
  /\ UNCHANGED <<jobs, recovered>>

\* and recovers the senders of its transactions one by one.
RecoverOne(t) ==
  LET k == threads[t] IN
  /\ k # NoTask
  /\ IF k.next < jobs[k.of].len
     THEN /\ recovered' = [recovered EXCEPT ![k.of][k.next] = @ + 1]
          /\ threads' = [threads EXCEPT ![t].next = @ + k.inc]
     ELSE threads' = [threads EXCEPT ![t] = NoTask] /\ UNCHANGED recovered
  /\ UNCHANGED <<jobs, chan>>

CacherInit ==
  /\ jobs = [r \in Recoverers |-> NotCalled] /\ chan = <<>>
  /\ threads = [t \in 1 .. Threads |-> NoTask] /\ recovered = [r \in Recoverers |-> <<>>]

CacherNext ==
  \/ \E r \in Recoverers : SendTask(r) \/ \E n \in Lengths : Recover(r, n)
  \/ \E t \in 1 .. Threads : TakeTask(t) \/ RecoverOne(t)

(***************************************************************************)
(* Blocks and headers.  A Go pointer is the position of its object.  Each  *)
(* entry of a signature slice is the phase it signs, or "" when empty.     *)
(***************************************************************************)
Phases == {"prepare", "commit"}
TimeOf(m, h) == m.times[m.hdrs[h].time]
SigsOf(m, h) == m.arrays[m.hdrs[h].sigs]
NewHeader(m, time, sigs) ==
  [hdrs |-> Append(m.hdrs, [time |-> Len(m.times) + 1, sigs |-> Len(m.arrays) + 1]),
   times |-> Append(m.times, time), arrays |-> Append(m.arrays, sigs)]
Newest(m) == Len(m.hdrs)
Unsigned == [v \in Committee |-> ""]

\* CopyHeader, with CopyDporSnap
CopyHeader(m, h) == NewHeader(m, TimeOf(m, h), SigsOf(m, h))

\* Header.SetTimestamp writes the timestamp in place.
SetTimestamp(m, h, t) == [m EXCEPT !.times[m.hdrs[h].time] = t]

\* sigHash leaves out the seal and the signatures.
HeaderHash(m, h) == <<TimeOf(m, h)>>

\* signHeader and refreshSignatures: a new slice with every signature known of the phase.
signHeaderOf(m, h, phase, signers) ==
  [m EXCEPT !.arrays = Append(@, [v \in Committee |-> IF v \in signers THEN phase ELSE ""]),
            !.hdrs[h].sigs = Len(m.arrays) + 1]

\* Block.WithSeal: a copy of the header structure, sharing what it points to.
WithSeal(m, h) == [m EXCEPT !.hdrs = Append(@, m.hdrs[h])]

(***************************************************************************)
(* oncePrepareCertificateSatisfied, given the prepare header h: the commit *)
(* header is a copy, and with a commit certificate a validate block with   *)
(* its signatures is sent in place of both.                                *)
(***************************************************************************)
SignsCommit(m, h, k) ==
  LET c == k.commit \cup {Me}
      m1 == CopyHeader(CopyHeader(m, h), Newest(m) + 1)
      m2 == signHeaderOf(m1, Newest(m1), "commit", c)
      m3 == WithSeal(m2, Newest(m2))
  IN /\ known' = [k EXCEPT !.commit = c]
     /\ IF Cardinality(c) >= CommitteeQuorum
        THEN headers' = m3 /\ out' = out \cup {<<"commit", Newest(m3)>>}
        ELSE headers' = m2 /\ out' = out \cup {<<"prepare", h>>, <<"commit", Newest(m2)>>}

\* handlePreprepareMsg with a block just decoded, whose hash is taken to cache it: composePrepareMsg
\* then signs the block's own header.
HandleProposal ==
  LET m1 == NewHeader(headers, 1, Unsigned)
      h == Newest(m1)
      p == known.prepare \cup {Me}
      m2 == signHeaderOf(m1, h, "prepare", p)
  IN /\ blocks' = Append(blocks, [hdr |-> h, hash |-> {HeaderHash(m1, h)}, at |-> 1])
     /\ IF Cardinality(p) >= CommitteeQuorum
        THEN SignsCommit(m2, h, [known EXCEPT !.prepare = p])
        ELSE headers' = m2 /\ out' = out \cup {<<"prepare", h>>} /\ known' = [known EXCEPT !.prepare = p]

\* handlePrepareMsg with the header of validator v.
HandlePrepareOf(v) ==
  LET p == known.prepare \cup {v}
      m1 == NewHeader(headers, 1, [w \in Committee |-> IF w \in p THEN "prepare" ELSE ""])
      k == [known EXCEPT !.prepare = p]
  IN /\ IF Cardinality(p) >= CommitteeQuorum
        THEN SignsCommit(m1, Newest(m1), k)
        ELSE headers' = headers /\ known' = k /\ UNCHANGED out
     /\ UNCHANGED blocks

\* handleCommitMsg: the header it came with makes the validate block.
HandleCommitOf(v) ==
  LET c == known.commit \cup {v}
      m1 == NewHeader(headers, 1, [w \in Committee |-> IF w \in c THEN "commit" ELSE ""])
      m2 == WithSeal(m1, Newest(m1))
  IN /\ known' = [known EXCEPT !.commit = c]
     /\ IF Cardinality(c) >= CommitteeQuorum
        THEN headers' = m2 /\ out' = out \cup {<<"commit", Newest(m2)>>}
        ELSE UNCHANGED <<headers, out>>
     /\ UNCHANGED blocks

\* CreateFailbackImpeachBlocks: two blocks made from one header, each with its own timestamp.
CreateFailbackBlocks ==
  LET m0 == NewHeader(headers, 1, Unsigned)
      made == Newest(m0)
      m1 == CopyHeader(m0, made)
      m2 == SetTimestamp(m1, Newest(m1), 2)
      m3 == CopyHeader(m2, made)
      m4 == SetTimestamp(m3, Newest(m3), 3)
  IN /\ headers' = m4
     /\ blocks' = blocks \o << [hdr |-> made, hash |-> Nil, at |-> 1], [hdr |-> Newest(m1), hash |-> Nil, at |-> 2],
                               [hdr |-> Newest(m3), hash |-> Nil, at |-> 3] >>
     /\ UNCHANGED <<known, out>>

\* Block.Hash
BlockHash(b) ==
  /\ blocks[b].hash = Nil
  /\ blocks' = [blocks EXCEPT ![b].hash = {HeaderHash(headers, blocks[b].hdr)}]
  /\ UNCHANGED <<headers, known, out>>

BlockInit ==
  /\ headers = [hdrs |-> <<>>, times |-> <<>>, arrays |-> <<>>]
  /\ blocks = <<>> /\ known = [p \in Phases |-> {}] /\ out = {}

BlockNext ==
  \/ /\ Len(headers.hdrs) < MaxHeaders
     /\ \/ HandleProposal \/ CreateFailbackBlocks
        \/ \E v \in Committee \ {Me} : HandlePrepareOf(v) \/ HandleCommitOf(v)
  \/ \E b \in DOMAIN blocks : BlockHash(b)

(***************************************************************************)
(* Properties.                                                             *)
(***************************************************************************)
\* The variables keep their types: in particular a list's index holds nonces, the tasks waiting
\* fit the channel, and a transaction's V is a natural number.
TypesTypeOK ==
  /\ \A i \in DOMAIN lst.index : lst.index[i].key \in ListNonces
  /\ HeldBy(lst) \subseteq ListNonces /\ Cardinality(lst.cache) <= 1
  /\ \A a \in Senders : set.txs[a] \subseteq 1 .. Len(runOf[a])
  /\ popped \subseteq Senders
  /\ txn.data.v \in Nat /\ Cardinality(txn.from) <= 1 /\ Cardinality(txn.hash) <= 1
  /\ Len(chan) <= Threads
  /\ \A t \in 1 .. Threads : threads[t].of \in Recoverers \cup {"none"}

\* txSortedMap: after any calls the index is a heap, so that its first element is the lowest
\* nonce, which Forward and Ready rely on, and it holds the nonce of every item once.
IndexIsHeapOfItems ==
  /\ HeapOrdered(lst.index)
  /\ {lst.index[i].key : i \in DOMAIN lst.index} = HeldBy(lst)
  /\ Len(lst.index) = Cardinality(HeldBy(lst))

\* txSortedMap: the cached order that Flatten returns, kept over Forward and Cap, is that of the items.
CacheIsSortedItems == \A c \in lst.cache : c = Sorted(lst.items)

\* txList: no transaction costs or spends more than the caps, so that Filter's short circuit never
\* keeps one that the account cannot pay for or that no block can hold.
CapsCoverItems == \A n \in HeldBy(lst) : lst.items[n].cost <= lst.costcap /\ lst.items[n].gas <= lst.gascap

\* What the miner would be handed next from account a.
NextOf(a) == handed[a] + 1
Active == {a \in Senders \ popped : NextOf(a) <= Len(runOf[a])}
\* TransactionsByPriceAndNonce: the miner is always handed, of the accounts it has not given up, the
\* first transaction not handed yet that pays most, until none is left.
BestNextFirst ==
  /\ (set.heads = <<>>) = (Active = {})
  /\ set.heads # <<>> =>
       LET h == set.heads[1] IN
       /\ h.acc \in Active /\ h.nonce = NextOf(h.acc)
       /\ \A a \in Active : runOf[a][NextOf(a)] <= runOf[h.acc][h.nonce]

\* commitTransactions: when the set is exhausted, the state has taken every transaction of an account
\* that it could, unless one was refused: none is left behind because of a stale or a foreign one.
NothingLeftBehind ==
  set.heads = <<>> => \A a \in Senders \ work.refused : work.nonces[a] \notin DOMAIN runOf[a]

\* Sender: a transaction signed for a chain (other than 0, whose V says nothing of it) is its
\* signer's for that chain and refused for every other, whatever was asked and cached before.
OnlyItsChain ==
  \A s \in signedAs, a \in answer :
    s[2] # 0 => a[2] = IF a[1] = s[2] THEN s[1] ELSE "wrong chain"

\* The cached hash and sender are the ones the transaction's data gives.
CachesFresh ==
  /\ \A h \in txn.hash : h = txn.data
  /\ \A f \in txn.from : f[2] = Cep1Sender(txn.data, f[1])

Busy(r) == {t \in 1 .. Threads : threads[t].of = r} \cup {i \in DOMAIN chan : chan[i].of = r}
\* recover: every transaction of a batch is recovered by one thread, once, however batches are split
\* and mixed; when the tasks are done none is left out.
RecoveredOnce ==
  \A r \in Recoverers : \A i \in DOMAIN recovered[r] :
    /\ recovered[r][i] <= 1
    /\ jobs[r].called /\ jobs[r].sent = jobs[r].tasks /\ Busy(r) = {} => recovered[r][i] = 1

\* A header or block being broadcast holds the signatures of its own phase alone, although goroutines
\* encode it while later messages sign copies of it: LBFT2 signs a fresh slice, of a copy.
PhasesApart ==
  \A o \in out : \A v \in Committee : SigsOf(headers, o[2])[v] \in {"", o[1]}

\* A block's cached hash stays the hash of its header, whose signatures are written in place.
HashStays == \A i \in DOMAIN blocks : \A h \in blocks[i].hash : h = HeaderHash(headers, blocks[i].hdr)

\* Each failback impeach block keeps its timestamp when that of another made from the same header
\* is set in place.
TimesKept == \A i \in DOMAIN blocks : TimeOf(headers, blocks[i].hdr) = blocks[i].at

=============================================================================
