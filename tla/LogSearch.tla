------------------------------ MODULE LogSearch ------------------------------
(* The index of log blooms and the searches that use it: core/chain_indexer.go  *)
(* with the backend of protocols/cpc/bloombits.go follows the canonical chain   *)
(* section by section, and protocols/cpc/filters/filter.go searches a range of  *)
(* blocks, the indexed part through core/bloombits, the rest block by block.    *)
(* A block is <<number, branch>>; branch "b" leaves "a" after block Fork.       *)
EXTENDS Integers, Sequences, FiniteSets

CONSTANTS Fork, MaxHead, MaxReorgs, MaxHeadEvents, MaxRestarts, MaxSearches,
          sectionSize, confirmsReq, Byte,
          Hits,        \* the blocks whose bloom has the bits the filter looks for
          Matching,    \* those that really hold a matching log
          Ranges       \* the ranges [begin, end] asked for, -1 for the latest block
ASSUME LogSearchAssumption == sectionSize % Byte = 0 /\ Matching \subseteq Hits

VARIABLES canon,    \* the chain: [branch, head, reorgs]
          events,   \* ChainEvents not yet taken by the event loop
          idx,      \* the indexer: [known, stored, update, prev]
          disk,     \* the index database: section heads, and the committed bit vectors
          task,     \* the section that updateLoop processes without the lock
          search, faults
logVars == <<canon, events, idx, disk, task, search, faults>>

NoHash == <<>>
Hash(n, branch) == <<n, IF n <= Fork THEN "a" ELSE branch>>
ReadCanonicalHash(n) == IF n <= canon.head THEN Hash(n, canon.branch) ELSE NoHash
ParentHash(h) == IF h[1] = 0 THEN NoHash ELSE Hash(h[1] - 1, h[2])
SectionHead(s) == IF s \in DOMAIN disk.heads THEN disk.heads[s] ELSE NoHash
Idle == [pc |-> "idle"]
Start(head) == [known |-> 0, stored |-> 0, update |-> FALSE, prev |-> head]

\* newHead: what the indexer knows after a reorganisation or a longer chain.
CommonAncestor(a, b) ==
    CHOOSE n \in 0 .. MaxHead :
        /\ n <= a[1] /\ n <= b[1] /\ Hash(n, a[2]) = Hash(n, b[2])
        /\ \A k \in (n + 1) .. MaxHead : ~(k <= a[1] /\ k <= b[1] /\ Hash(k, a[2]) = Hash(k, b[2]))
Lesser(a, b) == IF a < b THEN a ELSE b
Changed(n) == n \div sectionSize
Reorged(x, n) == [x EXCEPT !.known = Lesser(@, Changed(n)), !.stored = Lesser(@, Changed(n))]
Longer(x, head) ==
    LET sections == (head + 1 - confirmsReq) \div sectionSize
    IN IF head >= confirmsReq /\ sections > x.known THEN [x EXCEPT !.known = sections, !.update = TRUE] ELSE x
NewHead(x, h) ==
    [Longer(IF ParentHash(h) # x.prev THEN Reorged(x, CommonAncestor(x.prev, h)) ELSE x, h[1]) EXCEPT !.prev = h]
\* setValidSections removes the heads of the sections that are no longer valid.
Kept(heads, stored) == [s \in DOMAIN heads \cap 0 .. (stored - 1) |-> heads[s]]

Genesis == <<0, "a">>
LogInit ==
    /\ canon = [branch |-> "a", head |-> 0, reorgs |-> 0]
    /\ events = <<>> /\ task = Idle /\ search = Idle
    /\ idx = Start(Genesis)
    /\ disk = [heads |-> [s \in {} |-> NoHash], bits |-> {}]
    /\ faults = [restarts |-> 0, searches |-> 0, slipped |-> FALSE]
-----------------------------------------------------------------------------
\* The chain grows, or a longer branch replaces it: one ChainEvent for its head.
Extend ==
    /\ canon.head < MaxHead /\ Len(events) < MaxHeadEvents
    /\ canon' = [canon EXCEPT !.head = @ + 1]
    /\ events' = Append(events, Hash(canon.head + 1, canon.branch))
    /\ UNCHANGED <<idx, disk, task, search, faults>>
Reorg ==
    /\ canon.head \in (Fork + 1) .. (MaxHead - 1) /\ canon.reorgs < MaxReorgs /\ Len(events) < MaxHeadEvents
    /\ LET other == IF canon.branch = "a" THEN "b" ELSE "a" IN
       /\ canon' = [canon EXCEPT !.branch = other, !.head = @ + 1, !.reorgs = @ + 1]
       /\ events' = Append(events, Hash(canon.head + 1, other))
    /\ search' = IF search.pc = "idle" THEN search ELSE [search EXCEPT !.reorg = TRUE]
    /\ UNCHANGED <<idx, disk, task, faults>>

\* eventLoop: one event.
EventLoop ==
    /\ events # <<>>
    /\ LET new == NewHead(idx, Head(events)) IN
       /\ idx' = new
       /\ disk' = [disk EXCEPT !.heads = Kept(@, new.stored)]
       /\ faults' = IF task.pc = "process" /\ ParentHash(Head(events)) # idx.prev
                       /\ Changed(CommonAncestor(idx.prev, Head(events))) = task.section
                    THEN [faults EXCEPT !.slipped = TRUE] ELSE faults
    /\ events' = Tail(events)
    /\ UNCHANGED <<canon, task, search>>

\* updateLoop takes the next section under the lock and processes it without.
BeginSection ==
    /\ task.pc = "idle" /\ idx.update
    /\ IF idx.known > idx.stored
       THEN task' = [pc |-> "process", section |-> idx.stored, next |-> idx.stored * sectionSize,
                     old |-> SectionHead(idx.stored - 1), last |-> SectionHead(idx.stored - 1)]
       ELSE task' = task
    /\ idx' = [idx EXCEPT !.update = FALSE]
    /\ UNCHANGED <<canon, events, disk, search, faults>>
\* processSection: a header of the section, of the chain as it is then, on top of the last one.
Follows(h, last) == h # NoHash /\ ParentHash(h) = last
Process ==
    /\ task.pc = "process" /\ task.next < (task.section + 1) * sectionSize
    /\ LET h == ReadCanonicalHash(task.next)
       IN task' = IF Follows(h, task.last) THEN [task EXCEPT !.next = @ + 1, !.last = h]
                  ELSE [task EXCEPT !.pc = "failed"]
    /\ UNCHANGED <<canon, events, idx, disk, search, faults>>
\* The backend's Reset, Process and Commit: the rotated blooms of the section, under its last hash.
Committed(section, last) == disk.bits \cup {<<section, last>>}
\* Then under the lock the section is marked completed, or nothing is retried until told.
StillValid == task.old = SectionHead(task.section - 1)
LeftOver(known, stored) == known > stored
EndSection ==
    /\ task.pc = "failed" \/ (task.pc = "process" /\ task.next = (task.section + 1) * sectionSize)
    /\ LET done == task.pc = "process" /\ StillValid
           stored == IF done THEN task.section + 1 ELSE idx.stored
           known == IF done THEN idx.known ELSE idx.stored
       IN /\ idx' = [idx EXCEPT !.stored = stored, !.known = known, !.update = @ \/ LeftOver(known, stored)]
          /\ disk' = [heads |-> IF done THEN Kept([s \in DOMAIN disk.heads \cup {task.section} |->
                                                      IF s = task.section THEN task.last ELSE disk.heads[s]], stored)
                                ELSE disk.heads,
                      bits |-> IF task.pc = "process" THEN Committed(task.section, task.last) ELSE disk.bits]
    /\ task' = Idle
    /\ UNCHANGED <<canon, events, search, faults>>

\* A stop and a start: the valid sections are loaded, and the current header is the first new head.
Restart ==
    /\ faults.restarts < MaxRestarts /\ search.pc = "idle"
    /\ faults' = [faults EXCEPT !.restarts = @ + 1,
                                !.slipped = @ \/ \E i \in 1 .. Len(events) : events[i][2] # idx.prev[2]]
    /\ idx' = Longer([Start(ReadCanonicalHash(canon.head)) EXCEPT !.stored = idx.stored], canon.head)
    /\ events' = <<>> /\ task' = Idle
    /\ UNCHANGED <<canon, disk, search>>
-----------------------------------------------------------------------------
\* Filter.Logs: the limits of the range, and how much of it is indexed.
Logs(r) ==
    /\ search.pc = "idle" /\ faults.searches < MaxSearches
    /\ faults' = [faults EXCEPT !.searches = @ + 1]
    /\ LET begin == IF r[1] = -1 THEN canon.head ELSE r[1]
           end == IF r[2] = -1 THEN canon.head ELSE r[2]
       IN search' = [pc |-> "status", begin |-> begin, end |-> end, first |-> begin, head |-> canon.head,
                     last |-> -1, section |-> 0, queue |-> <<>>, logs |-> <<>>, err |-> FALSE, reorg |-> FALSE]
    /\ UNCHANGED <<canon, events, idx, disk, task>>
\* BloomStatus.
IndexedTo(indexed, end) == IF indexed > end THEN end ELSE indexed - 1
Status ==
    /\ search.pc = "status"
    /\ LET indexed == idx.stored * sectionSize IN
       search' = IF indexed > search.begin
                 THEN [search EXCEPT !.pc = "indexed", !.last = IndexedTo(indexed, search.end),
                                     !.section = search.begin \div sectionSize]
                 ELSE [search EXCEPT !.pc = "rest"]
    /\ UNCHANGED <<canon, events, idx, disk, task, faults>>
\* A service thread reads the vector of a section under the canonical hash of its last block;
\* Matcher.Start turns the bits set into block numbers, a byte at a time.
bloomFilter(h) == h \in Hits
VectorOf(s, head) == {n \in 0 .. (sectionSize - 1) : bloomFilter(Hash(s * sectionSize + n, head[2]))}
Scan(bits, s, first, last) ==
    LET start == s * sectionSize
        scan[i \in Nat] ==
            IF i > last THEN <<>>
            ELSE LET byte == (i - start) \div Byte
                     next == {n \in bits : n \div Byte = byte}
                 IN IF next = {} THEN scan[IF i % Byte = 0 THEN i + Byte ELSE i + 1]
                    ELSE IF i % Byte \in {n % Byte : n \in next} THEN <<i>> \o scan[i + 1] ELSE scan[i + 1]
    IN scan[first]
Greater(a, b) == IF a > b THEN a ELSE b
Retrieve ==
    /\ search.pc = "indexed" /\ ~search.err /\ search.section <= search.last \div sectionSize
    /\ LET s == search.section
           head == ReadCanonicalHash((s + 1) * sectionSize - 1)
       IN search' = IF <<s, head>> \in disk.bits
                    THEN [search EXCEPT !.section = s + 1,
                             !.queue = @ \o Scan(VectorOf(s, head), s, Greater(s * sectionSize, search.first),
                                                 Lesser((s + 1) * sectionSize - 1, search.last))]
                    ELSE [search EXCEPT !.err = TRUE]
    /\ UNCHANGED <<canon, events, idx, disk, task, faults>>
\* checkMatches on the header of that number now.
Found(n) == ReadCanonicalHash(n) # NoHash /\ ReadCanonicalHash(n) \in Matching
\* Faulty variant: the last indexed block is searched again.
RestFromLast(last) == last
RestFrom(last) == last + 1
TakeMatch ==
    /\ search.pc = "indexed"
    /\ IF search.queue # <<>>
       THEN LET n == Head(search.queue) IN
            search' = [search EXCEPT !.queue = Tail(@), !.begin = n + 1,
                                     !.logs = IF Found(n) THEN Append(@, n) ELSE @]
       ELSE /\ search.err \/ search.section > search.last \div sectionSize
            /\ search' = IF search.err THEN [search EXCEPT !.pc = "done"]
                         ELSE [search EXCEPT !.begin = RestFrom(search.last), !.pc = "rest"]
    /\ UNCHANGED <<canon, events, idx, disk, task, faults>>
\* unindexedLogs: one block.
Rest ==
    /\ search.pc = "rest"
    /\ search' = IF search.begin > search.end \/ ReadCanonicalHash(search.begin) = NoHash
                 THEN [search EXCEPT !.pc = "done"]
                 ELSE [search EXCEPT !.begin = @ + 1,
                          !.logs = IF bloomFilter(ReadCanonicalHash(search.begin)) /\ Found(search.begin)
                                   THEN Append(@, search.begin) ELSE @]
    /\ UNCHANGED <<canon, events, idx, disk, task, faults>>
Return ==
    /\ search.pc = "done" /\ search' = Idle
    /\ UNCHANGED <<canon, events, idx, disk, task, faults>>

LogNext == \/ Extend \/ Reorg \/ EventLoop \/ BeginSection \/ Process \/ EndSection \/ Restart
           \/ (\E r \in Ranges : Logs(r)) \/ Status \/ Retrieve \/ TakeMatch \/ Rest \/ Return
LogFairness == /\ WF_logVars(EventLoop) /\ WF_logVars(BeginSection) /\ WF_logVars(Process) /\ WF_logVars(EndSection)
LogSpec == LogInit /\ [][LogNext]_logVars /\ LogFairness
-----------------------------------------------------------------------------
Complete == {s \in 0 .. MaxHead : (s + 1) * sectionSize <= canon.head + 1 - confirmsReq}
\* The heads of the valid sections are one branch, and for each the bit vectors are there.
LogTypeOK ==
    /\ DOMAIN disk.heads = 0 .. (idx.stored - 1)
    /\ \A s \in DOMAIN disk.heads :
          /\ disk.heads[s][1] = (s + 1) * sectionSize - 1
          /\ <<s, disk.heads[s]>> \in disk.bits
          /\ s > 0 => disk.heads[s - 1] = Hash(s * sectionSize - 1, disk.heads[s][2])

\* Once the events are taken and nothing is processed, the index is of the canonical
\* chain, whatever reorganisations came while a section was processed without the lock;
\* unless the one came that invalidates the very section, or a restart lost its event.
IndexIsCanonical ==
    events = <<>> /\ task.pc = "idle" /\ ~faults.slipped =>
        \A s \in DOMAIN disk.heads : disk.heads[s] = ReadCanonicalHash((s + 1) * sectionSize - 1)

\* A search that ends without an error, on a chain that was not reorganised meanwhile,
\* returns each matching block of its range once and in order, whatever the index did.
SearchExact ==
    search.pc = "done" /\ ~search.err /\ ~search.reorg =>
        /\ \A i, j \in 1 .. Len(search.logs) : i < j => search.logs[i] < search.logs[j]
        /\ \A i \in 1 .. Len(search.logs) : search.logs[i] \in search.first .. search.end /\ Found(search.logs[i])
        /\ \A n \in search.first .. Lesser(search.end, search.head) :
              Found(n) => \E i \in 1 .. Len(search.logs) : search.logs[i] = n

\* When the chain has stopped growing, the index catches up with every complete section.
IndexCatchesUp ==
    canon.head = MaxHead ~> Complete = DOMAIN disk.heads \/ canon.reorgs > 0

------------------------------------------------------------------------------
(* core/bloombits: a session that matches the sections of a range against a     *)
(* filter.  The sections go through a chain of sub-matchers; the schedulers     *)
(* (scheduler.go) ask for each bit vector once; the distributor hands the       *)
(* requests to the retriever threads of api_backend.go's ServiceFilter; a       *)
(* failed retrieval, or the end of the search, closes the session.              *)
CONSTANTS Sections,      \* the number of sections of the range
          Bits, Clauses, \* Clauses[i]: the clauses of stage i, each the set of bits of its bloom
          Vectors,       \* Vectors[b][s]: the blocks of section s whose bloom has bit b
          Width,         \* the blocks of a section are 1 .. Width
          Threads, Batch, MaxErrors

VARIABLES fed,      \* sections given to the first sub-matcher
          stage,    \* of each sub-matcher: [asks, process, results]: bits to ask, sections on their way
          resp,     \* the schedulers' responses: "none", "asked", "cached"
          dist,     \* the distributor: [pc, queue, requests, unallocs, allocs]
          thread,   \* of each retriever: [pc, bit, sections, ok]
          session   \* [quit, kill, err, matches, closed]
matcherVars == <<fed, stage, resp, dist, thread, session>>

Stages == 1 .. Len(Clauses)
Section == 0 .. (Sections - 1)
Full == 1 .. Width
BitsOf(i) == UNION Clauses[i]
Free == [pc |-> "want", bit |-> "", sections |-> {}, ok |-> TRUE]

MatcherInit ==
    /\ fed = 0
    /\ stage = [i \in Stages |-> [asks |-> {}, process |-> <<>>, results |-> <<>>]]
    /\ resp = [b \in Bits |-> [s \in Section |-> "none"]]
    /\ dist = [pc |-> "run", queue |-> {}, requests |-> [b \in Bits |-> {}], unallocs |-> {}, allocs |-> 0]
    /\ thread = [t \in Threads |-> Free]
    /\ session = [quit |-> FALSE, kill |-> FALSE, err |-> FALSE, matches |-> <<>>, closed |-> FALSE, errors |-> 0]
-----------------------------------------------------------------------------
\* run feeds the sections; a sub-matcher starts the fetches of a section and keeps its place.
Asks(i, section) == UNION {{<<c, b, section>> : b \in c} : c \in Clauses[i]}
Take(i, section, bitset) ==
    stage' = [stage EXCEPT ![i].asks = @ \cup Asks(i, section), ![i].process = Append(@, <<section, bitset>>)]
Feed ==
    /\ ~session.quit /\ fed < Sections
    /\ Take(1, fed, Full) /\ fed' = fed + 1
    /\ UNCHANGED <<resp, dist, thread, session>>
Pass(i) ==
    /\ ~session.quit /\ i > 1 /\ stage[i - 1].results # <<>>
    /\ LET r == Head(stage[i - 1].results) IN
       stage' = [stage EXCEPT ![i - 1].results = Tail(@), ![i].asks = @ \cup Asks(i, r[1]),
                              ![i].process = Append(@, r)]
    /\ UNCHANGED <<fed, resp, dist, thread, session>>
\* scheduleRequests: only the first request of a vector goes to the distributor.
Unique(b, s) == resp[b][s] = "none"
Schedule(i, c, b, s) ==
    /\ ~session.quit /\ <<c, b, s>> \in stage[i].asks
    /\ \A r \in stage[i].asks : r[1] = c /\ r[2] = b => r[3] >= s
    /\ stage' = [stage EXCEPT ![i].asks = @ \ {<<c, b, s>>}]
    /\ IF Unique(b, s)
       THEN /\ resp' = [resp EXCEPT ![b][s] = "asked"]
            /\ dist' = [dist EXCEPT !.queue = @ \cup {<<b, s>>}]
       ELSE UNCHANGED <<resp, dist>>
    /\ UNCHANGED <<fed, thread, session>>
\* The second goroutine of subMatch: when all the vectors of the first section are there,
\* the clauses are AND-ed bit by bit and OR-ed together; an empty result goes no further.
Merged(i, section, bitset) ==
    {n \in bitset : \E c \in Clauses[i] : \A b \in c : n \in Vectors[b][section]}
\* scheduleDeliveries: a vector is passed on once its response is there.
Arrived(i, section) == /\ \A b \in BitsOf(i) : resp[b][section] = "cached"
                       /\ stage[i].asks \cap Asks(i, section) = {}
Merge(i) ==
    /\ ~session.quit /\ stage[i].process # <<>>
    /\ LET section == Head(stage[i].process)[1]
           found == Merged(i, section, Head(stage[i].process)[2])
       IN /\ Arrived(i, section)
          /\ stage' = [stage EXCEPT ![i].process = Tail(@),
                                    ![i].results = IF found = {} THEN @ ELSE Append(@, <<section, found>>)]
    /\ UNCHANGED <<fed, resp, dist, thread, session>>
\* The goroutine of Start: a result is delivered, or the sink is closed, or the session quits.
Drained == fed = Sections /\ \A i \in Stages : stage[i].process = <<>> /\ stage[i].results = <<>>
Deliver ==
    /\ ~session.quit /\ ~session.closed /\ stage[Len(Clauses)].results # <<>>
    /\ session' = [session EXCEPT !.matches = Append(@, Head(stage[Len(Clauses)].results))]
    /\ stage' = [stage EXCEPT ![Len(Clauses)].results = Tail(@)]
    /\ UNCHANGED <<fed, resp, dist, thread>>
CloseResults ==
    /\ ~session.closed /\ (Drained \/ session.quit)
    /\ session' = [session EXCEPT !.closed = TRUE]
    /\ UNCHANGED <<fed, stage, resp, dist, thread>>
-----------------------------------------------------------------------------
\* The distributor.  assign: to a retriever that waits, or on the list of bits without one.
Assign(d, b, next) ==
    \/ /\ dist' = [d EXCEPT !.unallocs = @ \cup {b}]
       /\ thread' = next
    \/ \E t \in {u \in Threads : next[u].pc = "want"} :
          /\ dist' = [d EXCEPT !.allocs = @ + 1]
          /\ thread' = [next EXCEPT ![t].pc = "bit", ![t].bit = b]
Running == dist.pc \in {"run", "drain"}
NewBit(queue) == queue = {}
Request(b, s) ==
    /\ Running /\ <<b, s>> \in dist.queue
    /\ LET d == [dist EXCEPT !.queue = @ \ {<<b, s>>}, !.requests[b] = @ \cup {s}] IN
       IF NewBit(dist.requests[b]) THEN Assign(d, b, thread) ELSE dist' = d /\ UNCHANGED thread
    /\ UNCHANGED <<fed, stage, resp, session>>
Lowest(S) == CHOOSE s \in S : \A u \in S : s <= u
Allocate(t, b) ==
    /\ Running /\ thread[t].pc = "want" /\ b \in dist.unallocs
    /\ \A c \in dist.unallocs : Lowest(dist.requests[b]) <= Lowest(dist.requests[c])
    /\ dist' = [dist EXCEPT !.unallocs = @ \ {b}, !.allocs = @ + 1]
    /\ thread' = [thread EXCEPT ![t].pc = "bit", ![t].bit = b]
    /\ UNCHANGED <<fed, stage, resp, session>>
\* AllocateSections: the lowest Batch sections; what is left is assigned again.  After the
\* quit it may return nothing.
UnprocessedTasks(S) == S # {}
Portion(S) == {s \in S : Cardinality({u \in S : u < s}) < Batch}
AllocateSections(t) ==
    /\ thread[t].pc = "bit"
    /\ \/ /\ Running
          /\ LET b == thread[t].bit
                 mine == Portion(dist.requests[b])
                 d == [dist EXCEPT !.requests[b] = @ \ mine]
                 next == [thread EXCEPT ![t].pc = "sections", ![t].sections = mine]
             IN IF UnprocessedTasks(d.requests[b]) THEN Assign(d, b, next) ELSE dist' = d /\ thread' = next
       \/ /\ session.quit
          /\ thread' = [thread EXCEPT ![t].pc = "sections", ![t].sections = {}]
          /\ UNCHANGED dist
    /\ UNCHANGED <<fed, stage, resp, session>>
\* A service thread answers; on an error the retriever stores it and closes the session,
\* waiting for its end before it delivers.
Service(t) ==
    /\ thread[t].pc = "sections"
    /\ \/ /\ thread' = [thread EXCEPT ![t].pc = "deliver"]
          /\ UNCHANGED session
       \/ /\ session.errors < MaxErrors
          /\ thread' = [thread EXCEPT ![t].pc = "closing", ![t].ok = FALSE]
          /\ session' = [session EXCEPT !.errors = @ + 1, !.err = TRUE, !.quit = TRUE]
       \/ /\ session.quit                  \* it does not even ask
          /\ thread' = [thread EXCEPT ![t].pc = "deliver", ![t].ok = FALSE]
          /\ UNCHANGED session
    /\ UNCHANGED <<fed, stage, resp, dist>>
Ended == dist.pc = "end" /\ session.closed
CloseReturned(t) ==
    /\ thread[t].pc = "closing" /\ Ended
    /\ thread' = [thread EXCEPT ![t].pc = "deliver"]
    /\ UNCHANGED <<fed, stage, resp, dist, session>>
\* DeliverSections: the scheduler caches what came; what is missing is queued again.  A
\* distributor that is shutting down ends with the last delivery.
AllocsAfter(t) == dist.allocs - 1
Delivered(b, sections) == [resp EXCEPT ![b] = [s \in Section |-> IF s \in sections THEN "cached" ELSE @[s]]]
DeliverSections(t) ==
    /\ thread[t].pc = "deliver"
    /\ \/ /\ Running
          /\ LET b == thread[t].bit
                 missing == IF thread[t].ok THEN {} ELSE thread[t].sections
                 queue == dist.requests[b] \cup missing
                 allocs == AllocsAfter(t)
                 d == [dist EXCEPT !.allocs = allocs, !.requests[b] = queue,
                                   !.pc = IF allocs = 0 /\ @ = "drain" THEN "end" ELSE @]
                 next == [thread EXCEPT ![t] = [Free EXCEPT !.pc = IF thread[t].ok THEN "want" ELSE "gone"]]
             IN /\ resp' = Delivered(b, thread[t].sections \ missing)
                /\ IF missing # {} /\ queue = missing THEN Assign(d, b, next) ELSE dist' = d /\ thread' = next
       \/ /\ session.kill
          /\ thread' = [thread EXCEPT ![t] = [Free EXCEPT !.pc = "gone"]]
          /\ UNCHANGED <<resp, dist>>
    /\ UNCHANGED <<fed, stage, session>>
\* AllocateRetrieval after the quit.
Gone(t) ==
    /\ thread[t].pc = "want" /\ session.quit
    /\ thread' = [thread EXCEPT ![t].pc = "gone"]
    /\ UNCHANGED <<fed, stage, resp, dist, session>>

\* MatcherSession.Close by the search, at its end or when its context is done; a second later, kill.
Close ==
    /\ ~session.quit /\ session' = [session EXCEPT !.quit = TRUE]
    /\ UNCHANGED <<fed, stage, resp, dist, thread>>
Kill ==
    /\ session.quit /\ ~session.kill /\ session' = [session EXCEPT !.kill = TRUE]
    /\ UNCHANGED <<fed, stage, resp, dist, thread>>
Shutdown ==
    /\ \/ session.quit /\ dist.pc = "run" /\ dist' = [dist EXCEPT !.pc = IF dist.allocs = 0 THEN "end" ELSE "drain"]
       \/ session.kill /\ Running /\ dist' = [dist EXCEPT !.pc = "end"]
    /\ UNCHANGED <<fed, stage, resp, thread, session>>

MatcherSteps == \/ Feed \/ Deliver \/ CloseResults \/ Shutdown
                \/ \E i \in Stages : \/ Pass(i) \/ Merge(i)
                                     \/ \E c \in Clauses[i] : \E b \in c, s \in Section : Schedule(i, c, b, s)
                \/ \E b \in Bits, s \in Section : Request(b, s)
                \/ \E t \in Threads : \/ AllocateSections(t) \/ CloseReturned(t) \/ DeliverSections(t) \/ Gone(t)
                                      \/ Service(t) \/ \E b \in Bits : Allocate(t, b)
MatcherNext == MatcherSteps \/ Close \/ Kill
MatcherSpec == MatcherInit /\ [][MatcherNext]_matcherVars /\ WF_matcherVars(MatcherSteps) /\ WF_matcherVars(Kill)
-----------------------------------------------------------------------------
Busy == {t \in Threads : thread[t].pc \in {"bit", "sections", "closing", "deliver"}}
\* The distributor counts the bits it has handed out, and a bit that waits for a
\* retriever has a request to start with.
MatcherTypeOK ==
    /\ Running /\ ~session.kill => dist.allocs = Cardinality(Busy)
    /\ \A b \in dist.unallocs : dist.requests[b] # {}

\* No vector is retrieved twice at the same time, and none that is asked for is forgotten:
\* until it is cached it is in one place on its way.
Places(b, s) == (IF <<b, s>> \in dist.queue THEN 1 ELSE 0) + (IF s \in dist.requests[b] THEN 1 ELSE 0)
                + Cardinality({t \in Threads : thread[t].bit = b /\ s \in thread[t].sections})
\* A vector the schedulers have asked for is in one place, any other in none.
OnePlace ==
    ~session.quit => \A b \in Bits, s \in Section : Places(b, s) = IF resp[b][s] = "asked" THEN 1 ELSE 0
\* A bit with requests, and no retriever to take them, waits on the list.
RequestsAssigned ==
    ~session.quit => \A b \in Bits : dist.requests[b] # {} =>
        b \in dist.unallocs \/ \E t \in Threads : thread[t].bit = b /\ thread[t].pc = "bit"

\* When the results end and the session was not closed, they are what the filter finds in
\* each section, in order; and a failed retrieval ends them only after its error is stored.
Expected(s) == {n \in Full : \A i \in Stages : \E c \in Clauses[i] : \A b \in c : n \in Vectors[b][s]}
\* The results a matcher session delivers are the expected ones.
ResultsExact ==
    /\ \A k \in 1 .. Len(session.matches) : session.matches[k][2] = Expected(session.matches[k][1])
    /\ session.closed /\ ~session.quit =>
          /\ {session.matches[k][1] : k \in 1 .. Len(session.matches)} = {s \in Section : Expected(s) # {}}
          /\ \A j, k \in 1 .. Len(session.matches) : j < k => session.matches[j][1] < session.matches[k][1]

\* A search whose sections are being fed to the matcher ends, by its results or by its closing.
SearchEnds == fed > 0 ~> session.closed
==============================================================================
