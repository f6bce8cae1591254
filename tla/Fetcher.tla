------------------------------- MODULE Fetcher -------------------------------
(* The block fetcher (protocols/cpc/fetcher): peers announce hashes, or push   *)
(* blocks; the loop asks an announcer for the header, then for the body, and  *)
(* hands complete blocks, in order of their number, to goroutines that insert *)
(* them.  Every action is one event of the loop together with the top of the  *)
(* next iteration; times are abstracted to "old enough or not yet".           *)
EXTENDS Integers, FiniteSets, SequencesExt, FiniteSetsExt, Functions

CONSTANTS FPeers, FBlocks, Genesis, FNumber, FParent, Body, EmptyBody,
          Notices,            \* the announcements peers make: <<peer, block, number>>
          Pushes,             \* the blocks peers push: <<peer, block>>
          Batches,            \* the deliveries of headers: sequences of blocks
          hashLimit, blockLimit, maxUncleDist, maxQueueDist,
          MaxHeld, MaxDrift   \* bounds: announcements of a block, counters below zero

VARIABLES ft,       \* the maps, counters, queue and timers of the loop
          known,    \* the blocks of the local chain
          imports,  \* block -> "run" or "done": the insertion goroutines
          fetcherQuit
fetcherVars == <<ft, known, imports, fetcherQuit>>

getBlock(h) == h \in known
chainHeight == Max({FNumber[h] : h \in known})
NoMap == [h \in {} |-> 0]
Without(m, h) == Restrict(m, DOMAIN m \ {h})
With(m, h, v) == [x \in DOMAIN m \cup {h} |-> IF x = h THEN v ELSE m[x]]
List(m, h) == IF h \in DOMAIN m THEN m[h] ELSE <<>>
Entry(m, h) == IF h \in DOMAIN m THEN <<m[h]>> ELSE <<>>

FetcherInit ==
    /\ ft = [announces |-> [p \in FPeers |-> 0], announced |-> NoMap, fetching |-> NoMap,
             fetched |-> NoMap, completing |-> NoMap, queue |-> {}, queued |-> NoMap,
             queues |-> [p \in FPeers |-> 0], fetchTimer |-> TRUE, completeTimer |-> TRUE]
    /\ known = {Genesis}
    /\ imports = NoMap
    /\ fetcherQuit = FALSE

\* Every announcement of the hash, in whatever stage, is forgotten and counted off.
forgetHash(f, h) ==
    LET off == List(f.announced, h) \o Entry(f.fetching, h) \o List(f.fetched, h) \o Entry(f.completing, h)
    IN  [f EXCEPT !.announced = Without(@, h), !.fetching = Without(@, h),
                  !.fetched = Without(@, h), !.completing = Without(@, h),
                  !.announces = FoldLeft(LAMBDA c, a : [c EXCEPT ![a.origin] = @ - 1], @, off)]

\* Faulty variant: the peer's place in the queue is not given back.
forgetBlockKept(f, h) == [f EXCEPT !.queued = Without(@, h)]
forgetBlock(f, h) ==
    IF h \notin DOMAIN f.queued THEN f
    ELSE [f EXCEPT !.queues[f.queued[h]] = @ - 1, !.queued = Without(@, h)]

TooFar(n) == n - chainHeight < -maxUncleDist \/ n - chainHeight > maxQueueDist

OverLimit(f, p) == f.queues[p] + 1 > blockLimit

enqueue(f, p, h) ==
    IF OverLimit(f, p) \/ TooFar(FNumber[h]) THEN forgetHash(f, h)
    ELSE IF h \notin DOMAIN f.queued
    THEN [f EXCEPT !.queues[p] = @ + 1, !.queued = With(@, h, p), !.queue = @ \cup {h}]
    ELSE f

rescheduleFetch(f) == [f EXCEPT !.fetchTimer = @ \/ DOMAIN f.announced # {}]
rescheduleComplete(f) == [f EXCEPT !.completeTimer = @ \/ DOMAIN f.fetched # {}]

\* The top of the loop: fetches that take too long are forgotten, and the queued
\* blocks up to the next height are inserted, or forgotten when old or known.
Due(f) == {h \in f.queue : FNumber[h] <= chainHeight + 1}
Useless(h) == FNumber[h] + maxUncleDist < chainHeight \/ getBlock(h)
Top(f, old) ==
    LET g == FoldLeft(forgetHash, f, SetToSeq(old))
        k == FoldLeft(forgetBlock, g, SetToSeq({h \in Due(g) : Useless(h)}))
    IN  [k EXCEPT !.queue = @ \ Due(g)]
Iterate(f) ==
    \E old \in SUBSET DOMAIN f.fetching :
        /\ ft' = Top(f, old)
        /\ imports' = [h \in DOMAIN imports \cup {x \in Due(f) : ~Useless(x)} |->
                          IF h \in DOMAIN imports THEN imports[h] ELSE "run"]
-----------------------------------------------------------------------------
FirstAnnounce(f) == Cardinality(DOMAIN f.announced) = 1

Wanted(h) == h \notin DOMAIN ft.fetching \cup DOMAIN ft.completing

Notify(p, h, n) ==
    /\ ~fetcherQuit /\ Len(List(ft.announced, h)) < MaxHeld /\ ft.announces[p] >= -MaxDrift
    /\ UNCHANGED <<known, fetcherQuit>>
    /\ LET ok == ft.announces[p] + 1 <= hashLimit /\ ~(n > 0 /\ TooFar(n)) /\ Wanted(h)
           f == [ft EXCEPT !.announces[p] = @ + 1,
                           !.announced = With(@, h, Append(List(@, h), [origin |-> p, number |-> n]))]
       IN  Iterate(IF ~ok THEN ft ELSE IF FirstAnnounce(f) THEN rescheduleFetch(f) ELSE f)

Inject(p, h) ==
    /\ ~fetcherQuit
    /\ Iterate(enqueue(ft, p, h))
    /\ UNCHANGED <<known, fetcherQuit>>

ImportDone(h) ==
    /\ ~fetcherQuit /\ h \in DOMAIN imports /\ imports[h] = "done"
    /\ \E old \in SUBSET DOMAIN ft.fetching :
          LET f == forgetBlock(forgetHash(ft, h), h)
              left == Without(imports, h)
          IN  /\ ft' = Top(f, old \ {h})
              /\ imports' = [x \in DOMAIN left \cup {y \in Due(f) : ~Useless(y)} |->
                                IF x \in DOMAIN left THEN left[x] ELSE "run"]
    /\ UNCHANGED <<known, fetcherQuit>>

\* One announcer of each hash is picked; the hash moves to the next stage unless
\* its block has arrived meanwhile.
Picks(lists, hs) == {k \in [hs -> 1 .. 2 * MaxHeld] : \A h \in hs : k[h] \in DOMAIN lists[h]}
Moved(f, lists, k, stage) ==
    LET step(g, h) ==
            IF getBlock(h) THEN forgetHash(g, h)
            ELSE [forgetHash(g, h) EXCEPT ![stage] = With(@, h, lists[h][k[h]])]
    IN  FoldLeft(step, f, SetToSeq(DOMAIN k))

FetchTimer ==
    /\ ~fetcherQuit /\ ft.fetchTimer
    /\ \E expired \in SUBSET DOMAIN ft.announced : \E k \in Picks(ft.announced, expired) :
          Iterate(rescheduleFetch(Moved([ft EXCEPT !.fetchTimer = FALSE], ft.announced, k, "fetching")))
    /\ UNCHANGED <<known, fetcherQuit>>

CompleteTimer ==
    /\ ~fetcherQuit /\ ft.completeTimer
    /\ \E k \in Picks(ft.fetched, DOMAIN ft.fetched) :
          Iterate(rescheduleComplete(Moved([ft EXCEPT !.completeTimer = FALSE], ft.fetched, k, "completing")))
    /\ UNCHANGED <<known, fetcherQuit>>

\* Headers arrive from a peer: the ones asked of it are taken.
Requested(f, p, h) ==
    /\ h \in DOMAIN f.fetching /\ f.fetching[h].origin = p
    /\ h \notin DOMAIN f.fetched \cup DOMAIN f.completing \cup DOMAIN f.queued
Mismatch(f, h) == FNumber[h] # f.fetching[h].number
FilterOne(p, s, h) ==
    IF ~Requested(s.f, p, h) THEN s
    ELSE IF Mismatch(s.f, h) \/ getBlock(h) THEN [s EXCEPT !.f = forgetHash(@, h)]
    ELSE IF Body[h] = EmptyBody
    THEN [s EXCEPT !.f.completing = With(@, h, s.f.fetching[h]), !.complete = Append(@, h)]
    ELSE [s EXCEPT !.incomplete = Append(@, <<h, s.f.fetching[h]>>)]
ToFetched(f, e) ==
    IF e[1] \in DOMAIN f.completing THEN f
    ELSE LET g == [f EXCEPT !.fetched = With(@, e[1], Append(List(@, e[1]), e[2]))]
         IN  IF Cardinality(DOMAIN g.fetched) = 1 THEN rescheduleComplete(g) ELSE g
ToQueue(f, h) == IF h \in DOMAIN f.completing THEN enqueue(f, f.completing[h].origin, h) ELSE f
FilterHeaders(p, batch) ==
    /\ ~fetcherQuit
    /\ LET s == FoldLeft(LAMBDA t, h : FilterOne(p, t, h),
                         [f |-> ft, complete |-> <<>>, incomplete |-> <<>>], batch)
       IN  Iterate(FoldLeft(ToQueue, FoldLeft(ToFetched, s.f, s.incomplete), s.complete))
    /\ UNCHANGED <<known, fetcherQuit>>

\* A body arrives from a peer: it completes every block asked of that peer it fits.
FilterBodies(p, body) ==
    /\ ~fetcherQuit
    /\ LET fits == {h \in DOMAIN ft.completing \ DOMAIN ft.queued :
                       Body[h] = body /\ ft.completing[h].origin = p}
           f == FoldLeft(forgetHash, ft, SetToSeq(fits \cap known))
       IN  \E order \in SetToSeqs(fits \ known) : Iterate(FoldLeft(ToQueue, f, order))
    /\ UNCHANGED <<known, fetcherQuit>>

\* The goroutine of insert: with an unknown parent, a header that does not verify
\* (which drops the peer) or a failing InsertChain, the chain stays as it is.
Insert(h) ==
    /\ h \in DOMAIN imports /\ imports[h] = "run"
    /\ imports' = [imports EXCEPT ![h] = "done"]
    /\ known' \in {known} \cup {known \cup {x} : x \in {y \in {h} : FParent[y] \in known}}
    /\ UNCHANGED <<ft, fetcherQuit>>

\* The chain grows by other means (the consensus, the syncer).
ChainGrows(h) ==
    /\ h \notin known /\ FParent[h] \in known
    /\ known' = known \cup {h}
    /\ UNCHANGED <<ft, imports, fetcherQuit>>

StopFetcher == ~fetcherQuit /\ fetcherQuit' = TRUE /\ UNCHANGED <<ft, known, imports>>

FetcherNext ==
    \/ \E n \in Notices : Notify(n[1], n[2], n[3])
    \/ \E i \in Pushes : Inject(i[1], i[2])
    \/ \E p \in FPeers, b \in Batches : FilterHeaders(p, b)
    \/ \E p \in FPeers, h \in FBlocks : FilterBodies(p, Body[h])
    \/ \E h \in FBlocks : ImportDone(h) \/ Insert(h) \/ ChainGrows(h)
    \/ FetchTimer \/ CompleteTimer \/ StopFetcher
FetcherSpec == FetcherInit /\ [][FetcherNext]_fetcherVars

-----------------------------------------------------------------------------
Announces == [origin : FPeers, number : Nat]
\* The types of the fetcher's maps: no empty list of announcements is left in one.
FetcherTypeOK ==
    /\ \A h \in DOMAIN ft.announced : ft.announced[h] \in Seq(Announces) \ {<<>>}
    /\ \A h \in DOMAIN ft.fetched : ft.fetched[h] \in Seq(Announces) \ {<<>>}
    /\ ft.fetching \in [DOMAIN ft.fetching -> Announces]
    /\ ft.completing \in [DOMAIN ft.completing -> Announces]
    /\ ft.queues \in [FPeers -> 0 .. blockLimit]
    /\ ft.queue \subseteq DOMAIN ft.queued

\* A hash is in one stage at a time: announced, or asked for (with or without its
\* header), or waiting for its body, so it is never asked for twice at once.
OneStage ==
    /\ DOMAIN ft.announced \cap (DOMAIN ft.fetching \cup DOMAIN ft.completing) = {}
    /\ DOMAIN ft.fetched \subseteq DOMAIN ft.fetching \ DOMAIN ft.completing

\* The limit on a peer's blocks counts exactly its blocks that wait or are being
\* inserted, and no block is inserted by two goroutines or left without one.
QueueAccounted ==
    /\ \A p \in FPeers : ft.queues[p] = Cardinality({h \in DOMAIN ft.queued : ft.queued[h] = p})
    /\ ft.queue \cap DOMAIN imports = {}
    /\ DOMAIN ft.queued = ft.queue \cup DOMAIN imports

\* No wakeup is lost: while hashes or headers wait for their timer, it is set.
TimersArmed ==
    /\ DOMAIN ft.announced # {} => ft.fetchTimer
    /\ DOMAIN ft.fetched # {} => ft.completeTimer

==============================================================================
