------------------------------- MODULE CpcApi -------------------------------
(* The interface a node offers to its users: internal/cpcapi (api.go,       *)
(* addrlock.go, limiter.go), the backend behind it                          *)
(* (protocols/cpc/api_backend.go), the gas price oracle                     *)
(* (protocols/cpc/gasprice) and the sealing of private payloads (private/). *)
(* Requests run concurrently, with each other and with the growth of the    *)
(* chain.  Four groups of operations that share no variable: sending        *)
(* transactions, estimating gas, suggesting a price, and answers that are   *)
(* put together from several reads.                                         *)
EXTENDS Integers, FiniteSets, FiniteSetsExt, Sequences, TLC

----------------------------------------------------------------------------
\* Sending transactions.
CONSTANTS Clients,          \* concurrent requests
          Senders,          \* addresses whose keys the node manages
          Requests,         \* [api, from, nonce, private, price]: what a client may ask for
          MaxNonce,         \* bound: nonces of an account
          MaxClock,         \* bound: readings of the wall clock, in seconds
          MaxClockSteps,         \* bound: times that the clock is set
          Rate, BucketSize    \* the token bucket of SendTransaction
\* A raw transaction is signed and so has its nonce; Resend refuses a request without one.
ASSUME SendAssumption ==
    /\ "nobody" \notin Clients
    /\ Requests \subseteq [api : {"public", "personal", "raw", "resend"}, from : Senders, nonce : Int,
                           private : BOOLEAN, price : Nat]
    /\ \A r \in Requests : r.api \in {"raw", "resend"} => r.nonce # -1
    /\ MaxNonce \in Nat /\ MaxClock \in Nat /\ Rate \in Nat /\ BucketSize \in Nat

VARIABLES call,             \* [Clients -> [pc, req, nonce]]
          holder,           \* AddrLocker: who holds the mutex of an address
          pool,             \* [Senders -> [nonce -> transaction]]
          minedTxs,            \* [Senders -> first nonce that no block holds]
          remote,           \* payloads in the remote database, with the nonce they are sealed for
          bucket,           \* TokenBucket
          sendHist          \* the clock, its bound, and the requests let through
sendVars == <<call, holder, pool, minedTxs, remote, bucket, sendHist>>

NoNonce == -1
NoTx == [by |-> "nobody", auto |-> FALSE, private |-> FALSE, price |-> 0]
NoReq == [api |-> "none", from |-> "none", nonce |-> NoNonce, private |-> FALSE, price |-> 0]
SendInit ==
    /\ call = [c \in Clients |-> [pc |-> "idle", req |-> NoReq, nonce |-> NoNonce]]
    /\ holder = [a \in Senders |-> "nobody"]
    /\ pool = [a \in Senders |-> [n \in 0 .. MaxNonce |-> NoTx]]
    /\ minedTxs = [a \in Senders |-> 0]
    /\ remote = {}
    /\ bucket = [tokens |-> 0, lastTokenSec |-> 0]
    /\ sendHist = [clock |-> 0, top |-> 0, steps |-> 0, allowed |-> 0]

Automatic(r) == r.nonce = NoNonce
Refill(b, now) == [tokens |-> Min({BucketSize, b.tokens + (now - b.lastTokenSec) * Rate}), lastTokenSec |-> now]
Allow(b, now) == LET f == Refill(b, now) IN IF f.tokens > 0 THEN [f EXCEPT !.tokens = @ - 1] ELSE f
Allowed(b, now) == Refill(b, now).tokens > 0

\* The wall clock moves, in either direction.
SetClock ==
    /\ sendHist.steps < MaxClockSteps
    /\ \E t \in 0 .. MaxClock : sendHist' = [sendHist EXCEPT !.clock = t, !.top = Max({@, t}), !.steps = @ + 1]
    /\ UNCHANGED <<call, holder, pool, minedTxs, remote, bucket>>

Goto(c, pc) == call' = [call EXCEPT ![c].pc = pc]
\* The deferred UnlockAddr.
Unlocked(c, to) == [a \in Senders |-> IF holder[a] = c THEN "nobody" ELSE holder[a]]
Return(c, to) == Goto(c, to) /\ holder' = Unlocked(c, to)

\* The checks before the lock.  Only SendTransaction of the public interface counts against
\* the rate; a raw transaction is signed by its sender and goes to the pool as it is.
Enter(r) == IF r.api = "raw" THEN "submit" ELSE IF Automatic(r) THEN "lock" ELSE "fill"
Begin(c, r) ==
    /\ call[c].pc = "idle"
    /\ IF r.api = "public"
       THEN /\ bucket' = Allow(bucket, sendHist.clock)
            /\ sendHist' = [sendHist EXCEPT !.allowed = @ + (IF Allowed(bucket, sendHist.clock) THEN 1 ELSE 0)]
       ELSE UNCHANGED <<bucket, sendHist>>
    /\ \E ok \in BOOLEAN :    \* the node supports private transactions and knows the account
         LET pass == ok /\ (r.api = "public" => Allowed(bucket, sendHist.clock)) IN
         /\ r.api = "raw" => ok
         /\ call' = [call EXCEPT ![c] = [pc |-> IF pass THEN Enter(r) ELSE "error", req |-> r, nonce |-> r.nonce]]
    /\ UNCHANGED <<holder, pool, minedTxs, remote>>

\* Faulty variant: the mutex is of no use.
AnyoneMayLock(c) == TRUE
MayLock(c) == holder[call[c].req.from] = "nobody"
LockAddr(c) ==
    /\ call[c].pc = "lock" /\ MayLock(c)
    /\ holder' = [holder EXCEPT ![call[c].req.from] = c]
    /\ Goto(c, "fill")
    /\ UNCHANGED <<pool, minedTxs, remote, bucket, sendHist>>

GetPoolNonce(a) == Min({n \in minedTxs[a] .. MaxNonce + 1 : n > MaxNonce \/ pool[a][n] = NoTx})
Seals(r) == r.api = "public" /\ r.private
\* setDefaults: gas, price, value and nonce, and the checks of the payload.
setDefaults(c) ==
    LET r == call[c].req IN
    /\ call[c].pc = "fill"
    /\ \/ Return(c, "error")
       \/ /\ call' = [call EXCEPT ![c].nonce = IF Automatic(r) THEN GetPoolNonce(r.from) ELSE r.nonce,
                                  ![c].pc = IF r.api = "resend" THEN "match" ELSE IF Seals(r) THEN "seal" ELSE "sign"]
          /\ UNCHANGED holder
    /\ UNCHANGED <<pool, minedTxs, remote, bucket, sendHist>>

\* Resend: the transaction it is about must be pending, with the same contents.
Match(c) ==
    LET r == call[c].req IN
    /\ call[c].pc = "match"
    /\ LET found == r.nonce < GetPoolNonce(r.from) /\ pool[r.from][r.nonce] # NoTx IN
       \/ found /\ Goto(c, "sign") /\ UNCHANGED holder
       \/ Return(c, "error")
    /\ UNCHANGED <<pool, minedTxs, remote, bucket, sendHist>>

Sealed(c) == [by |-> c, nonce |-> call[c].nonce]
\* SealPrivatePayload: encrypted for the nonce of the transaction, and put in the remote database.
SealPrivatePayload(c) ==
    /\ call[c].pc = "seal"
    /\ \/ remote' = remote \cup {Sealed(c)} /\ Goto(c, "sign") /\ UNCHANGED holder
       \/ UNCHANGED remote /\ Return(c, "error")    \* no participants, no payload, or the put fails
    /\ UNCHANGED <<pool, minedTxs, bucket, sendHist>>

SignTx(c) ==
    /\ call[c].pc = "sign"
    /\ \/ Goto(c, "submit") /\ UNCHANGED holder
       \/ Return(c, "error")
    /\ UNCHANGED <<pool, minedTxs, remote, bucket, sendHist>>

\* The pool takes a transaction for a free nonce, or one that pays more (external here;
\* modelled in TxPool).
Takes(a, n, price) == n \in minedTxs[a] .. MaxNonce /\ price > pool[a][n].price
submitTransaction(c) ==
    LET r == call[c].req IN
    /\ call[c].pc = "submit"
    /\ \/ /\ Takes(r.from, call[c].nonce, r.price)
          /\ pool' = [pool EXCEPT ![r.from][call[c].nonce] =
                        [by |-> c, auto |-> Automatic(r), private |-> Seals(r), price |-> r.price]]
          /\ Return(c, "done")
       \/ UNCHANGED pool /\ Return(c, "error")
    /\ UNCHANGED <<minedTxs, remote, bucket, sendHist>>

\* A block with the first transaction of an account, and a transaction the pool drops.
Mine(a) ==
    /\ minedTxs[a] <= MaxNonce /\ pool[a][minedTxs[a]] # NoTx
    /\ minedTxs' = [minedTxs EXCEPT ![a] = @ + 1]
    /\ pool' = [pool EXCEPT ![a][minedTxs[a]] = NoTx]
    /\ UNCHANGED <<call, holder, remote, bucket, sendHist>>
Drop(a, n) ==
    /\ pool[a][n] # NoTx
    /\ pool' = [pool EXCEPT ![a][n] = NoTx]
    /\ UNCHANGED <<call, holder, minedTxs, remote, bucket, sendHist>>

SendNext ==
    \/ \E c \in Clients : \/ \E r \in Requests : Begin(c, r)
                          \/ LockAddr(c) \/ setDefaults(c) \/ Match(c)
                          \/ SealPrivatePayload(c) \/ SignTx(c) \/ submitTransaction(c)
    \/ SetClock
    \/ \E a \in Senders : Mine(a) \/ \E n \in 0 .. MaxNonce : Drop(a, n)

\* Requests that left the nonce to the node never meet on one: while one of them has read
\* the pool's nonce and is not yet submitted, no other such request has it, and the pool
\* holds no transaction of such a request under it ("prevent concurrent assignment of the
\* same nonce").
AutoNoncesDistinct ==
    \A c \in Clients :
        LET r == call[c].req IN
        (call[c].pc \in {"seal", "sign", "submit"} /\ Automatic(r)) =>
            /\ call[c].nonce <= MaxNonce => ~pool[r.from][call[c].nonce].auto
            /\ \A d \in Clients \ {c} : ~(/\ call[d].pc \in {"seal", "sign", "submit"} /\ Automatic(call[d].req)
                                          /\ call[d].req.from = r.from /\ call[d].nonce = call[c].nonce)
\* The mutex of an address is held only by a request that is between LockAddr and its return,
\* whatever step that request fails at: a failed request never shuts the account out.
HeldByRunning ==
    \A a \in Senders : holder[a] # "nobody" => call[holder[a]].pc \in {"fill", "seal", "sign", "submit"}
\* A private transaction that SendTransaction put in the pool has its payload in the remote
\* database, sealed for the nonce it carries: the participants decrypt it with that nonce.
PrivateStored ==
    \A a \in Senders, n \in 0 .. MaxNonce :
        pool[a][n].private => [by |-> pool[a][n].by, nonce |-> n] \in remote
\* The bucket never lets more requests through than the rate allows for the time the clock
\* has shown to have passed, however the clock is set back and forth.
RateBound == sendHist.allowed <= sendHist.top * Rate

----------------------------------------------------------------------------
\* EstimateGas: a binary search that runs the call against the pending state at each probe.
CONSTANTS Width,            \* bits of a gas value
          TxGas,            \* what every transaction costs
          BlockGasLimit,    \* of the pending block
          Needs             \* what the call may need, as the pending state changes

ASSUME EstimateAssumption ==
    /\ 2 ^ (Width - 1) \in Nat /\ 2 ^ Width = 2 * 2 ^ (Width - 1)
    /\ TxGas \in 1 .. 2 ^ Width - 1
    /\ BlockGasLimit \in Nat \ {0}
    /\ Needs # {} /\ Needs \subseteq Nat /\ \A n \in Needs : n >= TxGas

VARIABLES est,              \* [pc, args, lo, hi, cap]
          need,             \* what the call needs in the pending state
          estHist           \* whether it has changed, the request was cancelled, values seen to succeed
estVars == <<est, need, estHist>>

Gases == 0 .. 2 ^ Width - 1
Wrap(n) == n % 2 ^ Width
EstInit ==
    /\ est = [pc |-> "idle", args |-> 0, lo |-> 0, hi |-> 0, cap |-> 0]
    /\ need = Min(Needs)
    /\ estHist = [changed |-> FALSE, cancelled |-> FALSE, ran |-> {}]

Lowest == TxGas - 1
EstimateGas(gas) ==
    LET hi == IF gas >= TxGas THEN gas ELSE BlockGasLimit IN
    /\ est.pc = "idle"
    /\ est' = [pc |-> "loop", args |-> gas, lo |-> Lowest, hi |-> hi, cap |-> hi]
    /\ UNCHANGED <<need, estHist>>

\* doCall: no gas stands for half of the range.  An execution that is cancelled ends without
\* an error, and so counts as a success.
GasOf(gas) == IF gas = 0 THEN (2 ^ Width - 1) \div 2 ELSE gas
Executable(gas) == GasOf(gas) >= need \/ estHist.cancelled
Narrow(e, mid, ok) == IF ok THEN [e EXCEPT !.hi = mid] ELSE [e EXCEPT !.lo = mid]
Ran(gas) == estHist' = [estHist EXCEPT !.ran = IF Executable(gas) THEN @ \cup {gas} ELSE @]
Probe ==
    LET mid == Wrap(est.hi + est.lo) \div 2 IN
    /\ est.pc = "loop" /\ Wrap(est.lo + 1) < est.hi
    /\ est' = Narrow(est, mid, Executable(mid))
    /\ Ran(mid)
    /\ UNCHANGED need
Verdict(e, ok) == IF e.hi = e.cap /\ ~ok THEN "error" ELSE "done"
EndSearch ==
    /\ est.pc = "loop" /\ Wrap(est.lo + 1) >= est.hi
    /\ est' = [est EXCEPT !.pc = Verdict(est, Executable(est.hi))]
    /\ IF est.hi = est.cap THEN Ran(est.hi) ELSE UNCHANGED estHist
    /\ UNCHANGED need
PendingChanges ==
    /\ est.pc \in {"idle", "loop"}
    /\ \E n \in Needs \ {need} : need' = n
    /\ estHist' = [estHist EXCEPT !.changed = (est.pc = "loop")]
    /\ UNCHANGED est
CancelRequest ==
    /\ est.pc = "loop" /\ ~estHist.cancelled
    /\ estHist' = [estHist EXCEPT !.cancelled = TRUE]
    /\ UNCHANGED <<est, need>>
EstNext == (\E g \in Gases : EstimateGas(g)) \/ Probe \/ EndSearch \/ PendingChanges \/ CancelRequest

\* An estimate that is returned is an allowance the call was run with and succeeded, also
\* when the pending state changes between the probes.
EstimateWasRun == est.pc = "done" => est.hi \in estHist.ran
\* While the pending state and the request stay as they are, the search finds the least
\* allowance that suffices, and fails only if the highest one does not; for a limit whose
\* double fits the width of a gas value.
EstimateLeast ==
    (est.pc \in {"done", "error"} /\ ~estHist.changed /\ ~estHist.cancelled /\ est.cap < 2 ^ (Width - 1)) =>
        IF need <= est.cap THEN est.pc = "done" /\ est.hi = need ELSE est.pc = "error"

----------------------------------------------------------------------------
\* The gas price oracle.
CONSTANTS Askers,           \* concurrent calls of SuggestPrice
          BlockFees,        \* [1 .. top -> lowest price in the block, 0 if it has none]
          FirstHead,        \* the height when the node starts
          CheckBlocks, Percentile, DefaultPrice, MaxPrice

VARIABLES head,             \* height of the chain
          cache,            \* lastHead and lastPrice
          fetchLock,
          ask               \* [Askers -> a call of SuggestPrice]
priceVars == <<head, cache, fetchLock, ask>>

maxEmpty == CheckBlocks \div 2
maxBlocks == CheckBlocks * 5
NewAsk == [pc |-> "idle", head |-> 0, last |-> 0, next |-> 0, sent |-> 0, out |-> {}, empty |-> 0, prices |-> <<>>,
           price |-> 0]
PriceInit ==
    /\ head = FirstHead
    /\ cache = [head |-> 0, price |-> DefaultPrice]
    /\ fetchLock = "nobody"
    /\ ask = [a \in Askers |-> NewAsk]
Grow ==
    /\ head < Len(BlockFees) /\ head' = head + 1
    /\ UNCHANGED <<cache, fetchLock, ask>>

\* The head is read after the cache.
SuggestPrice(a) ==
    /\ ask[a].pc = "idle"
    /\ ask' = [ask EXCEPT ![a] = [NewAsk EXCEPT !.pc = "head", !.last = cache.head, !.price = cache.price]]
    /\ UNCHANGED <<head, cache, fetchLock>>
ReadHead(a) ==
    /\ ask[a].pc = "head"
    /\ ask' = [ask EXCEPT ![a].head = head, ![a].pc = IF ask[a].last = head THEN "done" ELSE "lock"]
    /\ UNCHANGED <<head, cache, fetchLock>>
Sample(h) == Max({1, h - CheckBlocks + 1}) .. h
\* The second look at the cache; then a goroutine for each block of the sample.
FetchLock(a) ==
    LET h == ask[a].head out == IF h = 0 THEN {} ELSE Sample(h) IN
    /\ ask[a].pc = "lock" /\ fetchLock = "nobody"
    /\ IF cache.head = h
       THEN /\ ask' = [ask EXCEPT ![a].pc = "done", ![a].price = cache.price]
            /\ UNCHANGED fetchLock
       ELSE /\ ask' = [ask EXCEPT ![a].pc = "fetch", ![a].last = cache.price, ![a].out = out,
                                  ![a].sent = Cardinality(out), ![a].next = h - Cardinality(out), ![a].empty = maxEmpty]
            /\ fetchLock' = a
    /\ UNCHANGED <<head, cache>>

\* One more block is asked for when a block beyond the tolerated ones has no price.
Extra(k) == IF k.empty = 0 /\ k.next > 0 /\ k.sent < maxBlocks THEN {k.next} ELSE {}
\* The results arrive in any order.
Answer(k, b) ==
    IF BlockFees[b] > 0 THEN [k EXCEPT !.out = @ \ {b}, !.prices = Append(@, BlockFees[b])]
    ELSE [k EXCEPT !.out = (@ \ {b}) \cup Extra(k), !.empty = Max({0, @ - 1}),
                   !.sent = @ + Cardinality(Extra(k)), !.next = @ - Cardinality(Extra(k))]
Result(a, b) ==
    /\ ask[a].pc = "fetch" /\ b \in ask[a].out
    /\ ask' = [ask EXCEPT ![a] = Answer(ask[a], b)]
    /\ UNCHANGED <<head, cache, fetchLock>>
\* A block could not be read: the call ends with the old price, its goroutines go on.
ResultFails(a) ==
    /\ ask[a].pc = "fetch" /\ ask[a].out # {}
    /\ ask' = [ask EXCEPT ![a].pc = "failed", ![a].price = ask[a].last]
    /\ fetchLock' = "nobody"
    /\ UNCHANGED <<head, cache>>
Ranked(prices) == SortSeq(prices, <)
Chosen(prices, last) ==
    Min({MaxPrice, IF prices = <<>> THEN last ELSE Ranked(prices)[((Len(prices) - 1) * Percentile) \div 100 + 1]})
CachedFor(k) == k.head
Settle(a) ==
    LET p == Chosen(ask[a].prices, ask[a].last) IN
    /\ ask[a].pc = "fetch" /\ ask[a].out = {}
    /\ cache' = [head |-> CachedFor(ask[a]), price |-> p]
    /\ ask' = [ask EXCEPT ![a].pc = "done", ![a].price = p]
    /\ fetchLock' = "nobody"
    /\ UNCHANGED head
PriceNext ==
    \/ Grow
    \/ \E a \in Askers : \/ SuggestPrice(a) \/ ReadHead(a) \/ FetchLock(a) \/ ResultFails(a) \/ Settle(a)
                         \/ \E b \in 1 .. Len(BlockFees) : Result(a, b)

\* The price of a head, from the blocks alone: going down from the head, as many blocks as
\* the sample has, and one more for every empty one beyond the tolerated number.
Empties(h, n) == Cardinality({b \in h - n + 1 .. h : BlockFees[b] = 0})
SampleSize(h) ==
    Min({n \in Min({h, CheckBlocks}) .. Min({h, maxBlocks}) :
            n = Min({h, maxBlocks}) \/ n >= CheckBlocks + Max({0, Empties(h, n) - maxEmpty})})
PricesOf(h) == SelectSeq([i \in 1 .. SampleSize(h) |-> BlockFees[h - i + 1]], LAMBDA p : p > 0)
\* The cache never pairs a head with a price of another: whatever calls overlap, whatever the
\* order in which the blocks are read, and however far the chain has grown meanwhile.
PriceOfItsHead ==
    (cache.head > 0 /\ PricesOf(cache.head) # <<>>) => cache.price = Chosen(PricesOf(cache.head), 0)
\* No goroutine of a call, abandoned ones included, waits to deliver its result: there are
\* never more of them than the channel has room for.
ResultsFit == \A a \in Askers : Cardinality(ask[a].out) <= CheckBlocks

----------------------------------------------------------------------------
\* Answers put together from several reads while the chain grows.
CONSTANTS ViewLen, TermLen, MaxHeight,
          BlockTxs,         \* [index -> "plain" | "create" | "private"]: a block that is listed
          From, To          \* the part of it that is asked for

ASSUME ReadAssumption == From \in Nat /\ ViewLen \in Nat \ {0} /\ TermLen \in Nat \ {0}

VARIABLES height,           \* of the head
          tx,               \* where a transaction is: the pool, the chain, both
          lookup,           \* GetTransactionByHash
          info,             \* GetBlockGenerationInfo
          list              \* GetAllTransactionsByBlockNumberAndIndex
readVars == <<height, tx, lookup, info, list>>

ReadInit ==
    /\ height = 0
    /\ tx = {"pool"}
    /\ lookup = [pc |-> "idle", answer |-> "none", began |-> {}, known |-> FALSE]
    /\ info = [step |-> 0, term |-> 0, view |-> 0, number |-> 0, from |-> 0]
    /\ list = [pc |-> "idle", receipts |-> FALSE, todo |-> {}, results |-> <<>>, answer |-> "none"]

\* A block is inserted, perhaps with the transaction; the pool follows it later.
InsertBlock ==
    /\ height < MaxHeight /\ height' = height + 1
    /\ \E t \in SUBSET {"chain"} : tx' = tx \cup t
    /\ UNCHANGED <<lookup, info, list>>
PoolReset ==
    /\ "chain" \in tx /\ tx' = {"chain"}
    /\ UNCHANGED <<height, lookup, info, list>>

LookupOrder == <<"chain", "pool">>
LookIn(place, next) ==
    lookup' = IF place \in tx THEN [lookup EXCEPT !.pc = "done", !.answer = place]
              ELSE [lookup EXCEPT !.pc = next, !.answer = IF next = "done" THEN "unknown" ELSE @]
GetTransactionByHash ==
    /\ \/ lookup.pc = "idle" /\ lookup' = [lookup EXCEPT !.pc = "first", !.began = tx]
       \/ lookup.pc = "first" /\ LookIn(LookupOrder[1], "second")
       \/ lookup.pc = "second" /\ LookIn(LookupOrder[2], "done")
    /\ UNCHANGED <<height, tx, info, list>>

\* The number of a block is unsigned: the one before the genesis block is the largest there is.
Pred(n) == IF n = 0 THEN 2 ^ Width - 1 ELSE n - 1
CurrentTerm == Pred(height) \div (ViewLen * TermLen)
CurrentView == (Pred(height) % (ViewLen * TermLen)) \div ViewLen
InfoRead(i) == CASE i.step = 0 -> [i EXCEPT !.term = CurrentTerm]
                 [] i.step = 1 -> [i EXCEPT !.view = CurrentView]
                 [] i.step = 2 -> [i EXCEPT !.number = height]
GetBlockGenerationInfo ==
    /\ info.step < 3
    /\ info' = [InfoRead(info) EXCEPT !.step = @ + 1, !.from = IF info.step = 0 THEN height ELSE @]
    /\ UNCHANGED <<height, tx, lookup, list>>

\* Listing a block: one goroutine reads the receipts and starts one for every transaction,
\* the request waits for the first of a result, an error or ten seconds.
Listed == From .. Min({To, Len(BlockTxs)}) - 1
ListTransactions ==
    /\ list.pc = "idle" /\ From <= Min({To, Len(BlockTxs)})
    /\ \E r \in BOOLEAN : list' = [pc |-> "run", receipts |-> r, todo |-> Listed, answer |-> "none",
                                   results |-> [i \in {j - From : j \in Listed} |-> -1]]
    /\ UNCHANGED <<height, tx, lookup, info>>
ReceiptIndex(i) == i
\* One goroutine: without its receipt it ends the process.  Without the state that a created
\* contract is read from, it first reports the error, which nobody hears after the request
\* has returned, and then ends the process too.
HasReceipt(i, found) == IF BlockTxs[i + 1] = "private" THEN found ELSE list.receipts
ListOne(i) ==
    /\ list.pc \in {"run", "done"} /\ i \in list.todo
    /\ \E found \in BOOLEAN, state \in (IF BlockTxs[i + 1] = "create" THEN BOOLEAN ELSE {TRUE}) :
         CASE ~HasReceipt(i, found) -> list' = [list EXCEPT !.pc = "crash"]
           [] HasReceipt(i, found) /\ state -> list' = [list EXCEPT !.todo = @ \ {i}, !.results[i - From] = ReceiptIndex(i)]
           [] HasReceipt(i, found) /\ ~state -> list.pc = "run" /\ list' = [list EXCEPT !.pc = "crash", !.answer = "error"]
    /\ UNCHANGED <<height, tx, lookup, info>>
ListReturns ==
    /\ list.pc = "run"
    /\ \/ list.todo = {} /\ list' = [list EXCEPT !.pc = "done", !.answer = "results"]
       \/ list' = [list EXCEPT !.pc = "done", !.answer = "timeout"]
    /\ UNCHANGED <<height, tx, lookup, info>>
ReadNext ==
    \/ InsertBlock \/ PoolReset \/ GetTransactionByHash \/ GetBlockGenerationInfo \/ ListTransactions \/ ListReturns
    \/ \E i \in Listed : ListOne(i)

\* A transaction is never reported as pending once a request begins after its block was
\* inserted, though it may still be in the pool then.
MinedBeatsPending == lookup.answer = "pool" => "chain" \notin lookup.began
\* The term and the view that are reported with a block number are never ahead of it, though
\* the chain grows between the reads; unless the node is still at the genesis block.
InfoNotAhead ==
    (info.step = 3 /\ info.from > 0) =>
        LET term == (info.number - 1) \div (ViewLen * TermLen)
            view == ((info.number - 1) \div ViewLen) % TermLen
        IN info.term <= term /\ (info.term = term => info.view <= view)
\* A list that is returned as complete has, for every transaction asked for, the receipt of
\* that transaction.
ListComplete == list.answer = "results" => \A i \in Listed : list.results[i - From] = i

----------------------------------------------------------------------------
\* Types.
ApiTypeOK ==
    /\ \A c \in Clients : /\ call[c].pc \in {"idle", "lock", "fill", "match", "seal", "sign", "submit", "done", "error"}
                          /\ call[c].nonce \in NoNonce .. MaxNonce + 1
    /\ holder \in [Senders -> Clients \cup {"nobody"}]
    /\ minedTxs \in [Senders -> 0 .. MaxNonce + 1]
    /\ bucket.tokens \in -(MaxClockSteps * MaxClock * Rate) .. BucketSize
    /\ est.lo \in Gases /\ est.hi \in Gases
    /\ fetchLock \in Askers \cup {"nobody"}
    /\ \A a \in Askers : fetchLock = a <=> ask[a].pc = "fetch"
    /\ tx \in SUBSET {"pool", "chain"} /\ tx # {}
    /\ info.term \in Gases /\ info.view \in 0 .. TermLen - 1
=============================================================================
