------------------------------- MODULE TxPool -------------------------------
(* The transaction pool (core/tx_pool.go) with its lists (core/tx_list.go) and
   the journal of local transactions (core/tx_journal.go).  Every public method
   holds pool.mu, so each is one action; what it does inside is a composition
   of the functions below, which take the pool and return it changed.

   A transaction is a record of its sender, nonce, gas price and cost; the cost
   stands for everything Filter compares with the account (value, gas).  A list
   of an account is the set of its transactions and the cap that lets Filter
   return early; an account without a list has the empty one. *)
EXTENDS Integers, Sequences, FiniteSets, Bags, SequencesExt

CONSTANTS
    Owners,
    Txs,            \* the transactions: [from, nonce, price, cost]
    Heads,          \* the blocks the chain may have as head
    HeadParent, Mined,      \* of a head: its parent, and the transactions of the block
    Balance,        \* of a head: what each account has in its state
    PoolGenesis,
    PriceBump, AccountSlots, GlobalSlots, AccountQueue, GlobalQueue,
    Prices,         \* values for SetGasPrice
    TieBreak        \* a sequence of the accounts: the order of equal heartbeats

VARIABLES
    chain,      \* the head the pool was last reset to
    pooled,       \* the TxPool
    journal,    \* what the journal file holds
    promised    \* history: transactions accepted from an account that was local

poolVars == <<chain, pooled, journal, promised>>

MaxPrice == 1000
EmptyList == [txs |-> {}, cap |-> 0]
Branches ==
    LET chainOf[b \in Heads] == {b} \cup IF b = PoolGenesis THEN {} ELSE chainOf[HeadParent[b]]
    IN  chainOf
Branch(h) == Branches[h]
Nonces ==
    [h \in Heads |-> [a \in Owners |->
        Cardinality({t \in UNION {Mined[b] : b \in Branch(h)} : t.from = a})]]
NonceAt(h, a) == Nonces[h][a]

Last1(s) == s[Len(s)]
Without(s, a) == SelectSeq(s, LAMBDA x : x # a)
ByNonce(ts) == SetToSortSeq(ts, LAMBDA t, u : t.nonce < u.nonce)

\* The lists added up, as stats does.
PendingCount(p) == Cardinality(UNION {p.pending[a].txs : a \in Owners})
QueuedCount(p) == Cardinality(UNION {p.queue[a].txs : a \in Owners})
-----------------------------------------------------------------------------
\* txList.Add: the transaction at the nonce gives way only to a price that is
\* higher by PriceBump percent.
SameNonce(l, t) == {u \in l.txs : u.nonce = t.nonce}
Beats(t, old) ==
    old.price < t.price /\ (old.price * (100 + PriceBump)) \div 100 <= t.price
Accepts(l, t) == \A old \in SameNonce(l, t) : Beats(t, old)
Add(l, t) ==
    [txs |-> (l.txs \ SameNonce(l, t)) \cup {t},
     cap |-> IF l.cap < t.cost THEN t.cost ELSE l.cap]

\* txList.Filter: what costs more than the limit, nothing if the cap says that
\* there can be no such transaction.
Costly(l, limit) == IF l.cap <= limit THEN {} ELSE {t \in l.txs : t.cost > limit}
FilteredTxs(l, limit) ==
    [txs |-> l.txs \ Costly(l, limit), cap |-> IF l.cap <= limit THEN l.cap ELSE limit]

\* txSortedMap.Ready: the run of consecutive nonces the list begins with, if it
\* begins at start or below.
Ready(l, start) ==
    IF l.txs = {} THEN {}
    ELSE LET first == CHOOSE n \in {t.nonce : t \in l.txs} : \A t \in l.txs : n <= t.nonce
         IN  IF first > start THEN {}
             ELSE {t \in l.txs : \A n \in first .. t.nonce : SameNonce(l, [nonce |-> n]) # {}}

\* A list that became empty is deleted, its cap with it.
Trim(l) == IF l.txs = {} THEN EmptyList ELSE l
-----------------------------------------------------------------------------

\* txPricedList.Removed: count a stale entry of the price heap, and rebuild the
\* heap from the known transactions when a quarter of it may be stale.
Removed(p) ==
    IF p.stales + 1 <= BagCardinality(p.items) \div 4
    THEN [p EXCEPT !.stales = @ + 1]
    ELSE [p EXCEPT !.stales = 0, !.items = SetToBag(p.all)]

\* pool.all.Remove followed by pool.priced.Removed, for each of a sequence.
Gone(p, ts) ==
    FoldLeft(LAMBDA q, t : Removed([q EXCEPT !.all = @ \ {t}]), p, ts)

Known(p, t) ==
    IF t \in p.all THEN p
    ELSE [p EXCEPT !.all = @ \cup {t}, !.items = @ (+) SetToBag({t})]

enqueueTx(p, t) ==
    LET l == p.queue[t.from]
    IN  IF ~Accepts(l, t) THEN p
        ELSE Known(Gone([p EXCEPT !.queue[t.from] = Add(l, t)], SetToSeq(SameNonce(l, t))), t)

\* pool.beats[addr] = time.Now().
Beat(beats, a) == Append(Without(beats, a), a)

promoteTx(p, t) ==
    LET l == p.pending[t.from]
    IN  IF ~Accepts(l, t) THEN Gone(p, <<t>>)
        ELSE LET q == Known(Gone([p EXCEPT !.pending[t.from] = Add(l, t)],
                                 SetToSeq(SameNonce(l, t))), t)
             IN  [q EXCEPT !.beats = Beat(@, t.from),
                           !.nonce[t.from] = t.nonce + 1]

Postponed(l, t) == {u \in l.txs : u.nonce > t.nonce}

\* removeTx: what follows the transaction in the pending list goes back to the
\* queue, and the account's next nonce falls to the one removed.
removeTx(p, t, outofbound) ==
    LET a == t.from
        l == p.pending[a]
        q == IF outofbound THEN Gone(p, <<t>>) ELSE [p EXCEPT !.all = @ \ {t}]
        left == Trim([l EXCEPT !.txs = @ \ (SameNonce(l, t) \cup Postponed(l, t))])
    IN  IF t \notin p.all THEN p
        ELSE IF SameNonce(l, t) = {}
        THEN [q EXCEPT !.queue[a] = Trim([@ EXCEPT !.txs = @ \ SameNonce(p.queue[a], t)])]
        ELSE LET r == FoldLeft(enqueueTx,
                               [q EXCEPT !.pending[a] = left,
                                         !.beats = IF left.txs = {} THEN Without(@, a) ELSE @],
                               ByNonce(Postponed(l, t)))
             IN  [r EXCEPT !.nonce[a] = IF @ > t.nonce THEN t.nonce ELSE @]
-----------------------------------------------------------------------------
\* The heap order of the prices: the cheapest first, of equal ones the one with
\* the highest nonce.
Cheaper(t, u) == t.price < u.price \/ (t.price = u.price /\ t.nonce > u.nonce)
Cheapest(ts) == CHOOSE t \in ts : \A u \in ts : ~Cheaper(u, t)

\* txPricedList.Discard (count given, no price limit) and Cap (a price limit, no
\* count): entries are popped, stale ones counted off, those of local accounts
\* pushed back at the end.
RECURSIVE Popped(_, _, _, _, _)
Popped(p, count, limit, drops, saves) ==
    LET t == Cheapest(BagToSet(p.items))
        q == [p EXCEPT !.items = @ (-) SetToBag({t})]
        done(s) == [pool |-> [p EXCEPT !.items = @ (+) SetToBag(s)], drops |-> drops]
    IN  IF p.items = EmptyBag \/ count = 0 THEN done(saves)
        ELSE IF t \notin p.all
        THEN Popped([q EXCEPT !.stales = @ - 1], count, limit, drops, saves)
        ELSE IF t.price >= limit THEN done(saves)
        ELSE IF t.from \in p.locals THEN Popped(q, count, limit, drops, saves \cup {t})
        ELSE Popped(q, count - 1, limit, Append(drops, t), saves)

DropPopped(r) == FoldLeft(LAMBDA q, t : removeTx(q, t, FALSE), r.pool, r.drops)

\* txPricedList.Underpriced: pops the stale entries at the head of the heap and
\* compares with the cheapest transaction left.
Fresh(p) ==
    LET stale == {t \in BagToSet(p.items) \ p.all :
                    \A u \in BagToSet(p.items) \cap p.all : Cheaper(t, u)}
        kept == [t \in BagToSet(p.items) \ stale |-> p.items[t]]
    IN  [p EXCEPT !.items = kept, !.stales = @ - (BagCardinality(p.items) - BagCardinality(kept))]
Underpriced(p, t) ==
    p.items # EmptyBag /\ Cheapest(BagToSet(p.items)).price >= t.price
-----------------------------------------------------------------------------
\* The pending transactions over GlobalSlots: the accounts with more than
\* AccountSlots are levelled, the largest first, none of them a local one.
DropHighest(p, a) ==
    LET t == Last1(ByNonce(p.pending[a].txs))
        q == Gone([p EXCEPT !.pending[a].txs = @ \ {t}], <<t>>)
    IN  [q EXCEPT !.nonce[a] = IF @ > t.nonce THEN t.nonce ELSE @]

RECURSIVE Shaved(_, _, _)
Shaved(p, offenders, floor) ==
    IF PendingCount(p) > GlobalSlots /\ Cardinality(p.pending[Last1(offenders)].txs) > floor
    THEN Shaved(FoldLeft(DropHighest, p, offenders), offenders, floor)
    ELSE p

RECURSIVE Levelled(_, _, _)
Levelled(p, offenders, spammers) ==
    IF PendingCount(p) <= GlobalSlots \/ spammers = <<>>
    THEN IF offenders = <<>> THEN p ELSE Shaved(p, offenders, AccountSlots)
    ELSE Levelled(IF offenders = <<>> THEN p
                  ELSE Shaved(p, offenders, Cardinality(p.pending[Head(spammers)].txs)),
                  Append(offenders, Head(spammers)), Tail(spammers))

Spammers(p) ==
    SortSeq(SelectSeq(TieBreak, LAMBDA a : a \notin p.locals /\ Cardinality(p.pending[a].txs) > AccountSlots),
            LAMBDA a, b : Cardinality(p.pending[a].txs) > Cardinality(p.pending[b].txs))

\* The queued transactions over GlobalQueue: accounts are taken from the latest
\* heartbeat on, each from its highest nonce down.
QueueDrops(p) ==
    LET silent == SelectSeq(TieBreak, LAMBDA a : a \notin Range(p.beats))
        order == SelectSeq(Reverse(silent \o p.beats), LAMBDA a : a \notin p.locals)
        candidates == FlattenSeq([i \in DOMAIN order |-> Reverse(ByNonce(p.queue[order[i]].txs))])
        over == QueuedCount(p) - GlobalQueue
    IN  SubSeq(candidates, 1, IF over < Len(candidates) THEN over ELSE Len(candidates))

\* The queue of an account that is not local, cut to AccountQueue.
CapAccount(p, a) ==
    LET rest == ByNonce(p.queue[a].txs)
        over == IF a \in p.locals \/ Len(rest) <= AccountQueue THEN <<>>
                ELSE SubSeq(rest, AccountQueue + 1, Len(rest))
    IN  Gone([p EXCEPT !.queue[a] = Trim([@ EXCEPT !.txs = @ \ Range(over)])], Reverse(over))

\* promoteExecutables for one account of its argument.
Promoted(p, a, h) ==
    LET q0 == p.queue[a]
        old == {t \in q0.txs : t.nonce < NonceAt(h, a)}
        q1 == [q0 EXCEPT !.txs = @ \ old]
        drops == Costly(q1, Balance[h][a])
        q2 == FilteredTxs(q1, Balance[h][a])
        ready == Ready(q2, p.nonce[a])
    IN  IF q0.txs = {} THEN p
        ELSE CapAccount(FoldLeft(promoteTx,
                                 Gone([p EXCEPT !.queue[a] = [q2 EXCEPT !.txs = @ \ ready]],
                                      ByNonce(old) \o SetToSeq(drops)),
                                 ByNonce(ready)), a)

CapPending(p) == Levelled(p, <<>>, Spammers(p))
CapQueue(p) ==
    IF QueuedCount(p) <= GlobalQueue THEN p
    ELSE FoldLeft(LAMBDA r, t : removeTx(r, t, TRUE), p, QueueDrops(p))

promoteExecutables(p, accounts, h) ==
    CapQueue(CapPending(FoldLeft(LAMBDA r, a : Promoted(r, a, h), p, SetToSeq(accounts))))

\* Faulty variant: the transactions behind an unaffordable one stay pending.
BehindKept(l, limit) == {}
Behind(l, limit) ==
    {t \in l.txs \ Costly(l, limit) : \E c \in Costly(l, limit) : c.nonce < t.nonce}

\* demoteUnexecutables for one account.
Demoted(p, a, h) ==
    LET l0 == p.pending[a]
        old == {t \in l0.txs : t.nonce < NonceAt(h, a)}
        l1 == [l0 EXCEPT !.txs = @ \ old]
        invalids == Behind(l1, Balance[h][a])
        l2 == [FilteredTxs(l1, Balance[h][a]) EXCEPT !.txs = @ \ invalids]
        gap == IF SameNonce(l2, [nonce |-> NonceAt(h, a)]) = {} THEN l2.txs ELSE {}
        left == Trim([l2 EXCEPT !.txs = @ \ gap])
        q == FoldLeft(enqueueTx,
                      Gone([p EXCEPT !.pending[a] = left],
                           ByNonce(old) \o SetToSeq(Costly(l1, Balance[h][a]))),
                      ByNonce(invalids) \o Reverse(ByNonce(gap)))
    IN  IF l0.txs = {} THEN p
        ELSE [q EXCEPT !.beats = IF left.txs = {} THEN Without(@, a) ELSE @]
-----------------------------------------------------------------------------
\* validateTx, with the sender's standing as local.
validateTx(p, t, local, h) ==
    /\ local \/ t.from \in p.locals \/ p.price <= t.price
    /\ NonceAt(h, t.from) <= t.nonce
    /\ t.cost <= Balance[h][t.from]

Full(p) == Cardinality(p.all) >= GlobalSlots + GlobalQueue

\* The rest of add, once there is room in pool q: the transaction replaces a
\* pending one, which leaves locals as it is, or is queued.
Replace(q, l, t) ==
    [pool |-> IF Accepts(l, t)
              THEN Known(Gone([q EXCEPT !.pending[t.from] = Add(l, t)], SetToSeq(SameNonce(l, t))), t)
              ELSE q,
     ok |-> Accepts(l, t), replace |-> TRUE]
Enqueue(q, l, t, local) ==
    [pool |-> [enqueueTx(q, t) EXCEPT !.locals = @ \cup IF Accepts(l, t) /\ local THEN {t.from} ELSE {}],
     ok |-> Accepts(l, t), replace |-> SameNonce(l, t) # {}]
Place(q, t, local) ==
    IF SameNonce(q.pending[t.from], t) # {} THEN Replace(q, q.pending[t.from], t)
    ELSE Enqueue(q, q.queue[t.from], t, local)

\* Room is made in a full pool before the transaction has a place.
MakeRoom(p) ==
    IF Full(p)
    THEN DropPopped(Popped(p, Cardinality(p.all) - (GlobalSlots + GlobalQueue - 1), MaxPrice, <<>>, {}))
    ELSE p

TurnedDown(p) == [pool |-> p, ok |-> FALSE, replace |-> FALSE]
PlaceUnlessUnderpriced(p, t) ==
    IF Underpriced(p, t) THEN TurnedDown(p) ELSE Place(MakeRoom(p), t, FALSE)
add(p, t, local, h) ==
    IF t \in p.all \/ ~validateTx(p, t, local, h) THEN TurnedDown(p)
    ELSE IF Full(p) /\ ~local /\ t.from \notin p.locals THEN PlaceUnlessUnderpriced(Fresh(p), t)
    ELSE Place(MakeRoom(p), t, local)

\* addTxsLocked: the batch is added, then the accounts with something new are
\* promoted.  acc carries the pool, those accounts and what was accepted.
Accounted(acc, t, r) ==
    [pool |-> r.pool,
     dirty |-> acc.dirty \cup IF r.ok /\ ~r.replace THEN {t.from} ELSE {},
     accepted |-> acc.accepted \cup IF r.ok /\ t.from \in r.pool.locals THEN {t} ELSE {}]
PromoteDirty(acc, h) ==
    IF acc.dirty = {} THEN acc ELSE [acc EXCEPT !.pool = promoteExecutables(@, acc.dirty, h)]
addTxsLocked(p, ts, local, h) ==
    PromoteDirty(FoldLeft(LAMBDA acc, t : Accounted(acc, t, add(acc.pool, t, local, h)),
                          [pool |-> p, dirty |-> {}, accepted |-> {}], ts), h)

\* reset: the transactions of abandoned blocks come back, pending lists are cut
\* to what the new state can execute, the next nonces follow the lists.
Reinjected(old, new) ==
    ByNonce((UNION {Mined[b] : b \in Branch(old) \ Branch(new)})
             \ UNION {Mined[b] : b \in Branch(new) \ Branch(old)})

NextNonces(p) ==
    [a \in Owners |-> IF p.pending[a].txs = {} THEN p.nonce[a]
                        ELSE Last1(ByNonce(p.pending[a].txs)).nonce + 1]

FollowLists(p) == [p EXCEPT !.nonce = NextNonces(p)]
Settled(acc, h) ==
    [acc EXCEPT !.pool =
        promoteExecutables(FollowLists(FoldLeft(LAMBDA q, a : Demoted(q, a, h), @, TieBreak)), Owners, h)]
reset(p, old, new) ==
    Settled(addTxsLocked([p EXCEPT !.nonce = [a \in Owners |-> NonceAt(new, a)]],
                         Reinjected(old, new), FALSE, new), new)

EmptyPool(h) ==
    [pending |-> [a \in Owners |-> EmptyList], queue |-> [a \in Owners |-> EmptyList],
     all |-> {}, items |-> EmptyBag, stales |-> 0, locals |-> {}, beats |-> <<>>,
     nonce |-> [a \in Owners |-> NonceAt(h, a)], price |-> 1]
-----------------------------------------------------------------------------
PoolInit ==
    /\ chain = PoolGenesis /\ pooled = EmptyPool(PoolGenesis)
    /\ journal = {} /\ promised = {}

\* Local transactions the pool still has.
StillPooled(p, ts) == ts \cap p.all

\* AddLocal, AddRemote (and the batches of one transaction): journalTx writes
\* what was accepted from an account that is local by then.
AddTx(t, local) ==
    \E r \in {addTxsLocked(pooled, <<t>>, local, chain)} :
        /\ pooled' = r.pool
        /\ journal' = journal \cup r.accepted
        /\ promised' = StillPooled(r.pool, promised \cup r.accepted)
        /\ UNCHANGED chain

\* The loop's chain head event.
NewHead(h) ==
    \E r \in {reset(pooled, chain, h)} :
        /\ h # chain
        /\ chain' = h
        /\ pooled' = r.pool
        /\ journal' = journal \cup r.accepted
        /\ promised' = StillPooled(r.pool, promised \cup r.accepted)

SetGasPrice(g) ==
    /\ g # pooled.price
    /\ pooled' = DropPopped(Popped([pooled EXCEPT !.price = g], -1, g, <<>>, {}))
    /\ promised' = StillPooled(pooled', promised)
    /\ UNCHANGED <<chain, journal>>

\* The loop's eviction tick, when a's last heartbeat is older than Lifetime.
Evict(a) ==
    /\ a \notin pooled.locals /\ pooled.queue[a].txs # {}
    /\ pooled' = FoldLeft(LAMBDA q, t : removeTx(q, t, TRUE), pooled, ByNonce(pooled.queue[a].txs))
    /\ promised' = StillPooled(pooled', promised)
    /\ UNCHANGED <<chain, journal>>

\* local: the transactions the journal is rewritten with.
Locals(p) == UNION {p.pending[a].txs \cup p.queue[a].txs : a \in p.locals}

\* The loop's journal tick.  The file is written beside the old one and renamed,
\* so a crash leaves one or the other.
rotate ==
    /\ journal' = Locals(pooled)
    /\ UNCHANGED <<chain, pooled, promised>>

\* A crash at any point, then NewTxPool: the journal is loaded as local
\* transactions and rewritten with those the pool took.
Reloaded ==
    addTxsLocked(EmptyPool(chain), SetToSortSeq(journal, LAMBDA t, u : Cheaper(t, u)), TRUE, chain).pool
Reload ==
    /\ pooled' = Reloaded
    /\ journal' = Locals(pooled')
    /\ promised' = StillPooled(pooled', promised)
    /\ UNCHANGED chain

PoolNext ==
    \/ \E t \in Txs, local \in BOOLEAN : AddTx(t, local)
    \/ \E h \in Heads : NewHead(h)
    \/ \E g \in Prices : SetGasPrice(g)
    \/ \E a \in Owners : Evict(a)
    \/ rotate
    \/ Reload

PoolSpec == PoolInit /\ [][PoolNext]_poolVars
-----------------------------------------------------------------------------
\* The types of the pool: known transactions only, one heartbeat for each account.
PoolTypeOK ==
    /\ chain \in Heads
    /\ pooled.all \subseteq Txs /\ journal \subseteq Txs /\ promised \subseteq Txs
    /\ pooled.locals \subseteq Owners /\ IsInjective(pooled.beats)
    /\ BagToSet(pooled.items) \subseteq Txs /\ pooled.stales \in Int
    /\ \A a \in Owners : pooled.pending[a].txs \cup pooled.queue[a].txs \subseteq {t \in Txs : t.from = a}

\* Every transaction the pool knows is in exactly one list, every listed one is
\* known, and the price heap can find each of them.
PoolAccounted ==
    /\ pooled.all = UNION {pooled.pending[a].txs \cup pooled.queue[a].txs : a \in Owners}
    /\ \A a \in Owners : \A t \in pooled.pending[a].txs, u \in pooled.queue[a].txs : t.nonce # u.nonce
    /\ pooled.all \subseteq BagToSet(pooled.items)

\* What the pool offers to the miner can be executed in the head's state: from
\* the account's nonce on without a gap, each within the balance; and the nonce
\* it gives out next is the one after them.
PendingExecutable ==
    \A a \in Owners :
      LET l == pooled.pending[a].txs
      IN  /\ {t.nonce : t \in l} = NonceAt(chain, a) .. pooled.nonce[a] - 1
          /\ \A t \in l : t.cost <= Balance[chain][a]

\* The transactions of accounts that are not local never exceed the two limits.
RemoteBound ==
    Cardinality({t \in pooled.all : t.from \notin pooled.locals}) <= GlobalSlots + GlobalQueue

\* Whenever the node crashes, every accepted local transaction that is still
\* valid is back in the pool it starts with, or the same nonce is taken by one
\* that pays more.
RestartKeepsLocals ==
    \A t \in promised : validateTx(pooled, t, TRUE, chain) =>
        \E u \in Reloaded.all : u.from = t.from /\ u.nonce = t.nonce /\ u.price >= t.price
=============================================================================
