------------------------------- MODULE Filters -------------------------------
(* protocols/cpc/filters: the event loop that hands chain events to the         *)
(* installed subscriptions (filter_system.go), and the API above it (api.go):   *)
(* filters that are polled, with a goroutine each that collects events under    *)
(* filtersMu, subscriptions that push to a client, and the timeout loop.        *)
EXTENDS Integers, Sequences, FiniteSets

CONSTANTS Polled, Pushed,      \* filters of clients that poll, and of clients that are notified
          Queries(_),          \* the criteria each may be made with
          Events,              \* what the chain and the pool may post
          MaxEvents, MaxPolls

Filter == Polled \cup Pushed
Pending == -2
Latest == -1
Null == "null"
VARIABLES loop,     \* eventLoop: [pc, event, left, to]
          chan,     \* events waiting for the loop
          index,    \* installed subscriptions
          filt,     \* of each filter: [pc, crit, err, hand]: its goroutine, and the event it holds
          api,      \* api.filters: of each filter, what is collected, or Absent
          mu,       \* the filter that the timeout loop unsubscribes with filtersMu held, or free
          unsub,    \* the filters in Unsubscribe
          hist      \* of each filter: the events sent to it, and those its client got
filterVars == <<loop, chan, index, filt, api, mu, unsub, hist>>

Absent == [here |-> FALSE, buf |-> <<>>]
Waits == [pc |-> "loop", event |-> {}, left |-> {}, to |-> {}]
NoQuery == [kind |-> "none"]
FilterInit ==
    /\ loop = Waits /\ chan = <<>> /\ index = {} /\ mu = "free" /\ unsub = {}
    /\ filt = [f \in Filter |-> [pc |-> "none", crit |-> NoQuery, err |-> FALSE, hand |-> <<>>]]
    /\ api = [f \in Filter |-> Absent]
    /\ hist = [posted |-> 0, polls |-> 0, sent |-> [f \in Filter |-> <<>>], got |-> [f \in Filter |-> <<>>]]
-----------------------------------------------------------------------------
\* FilterCriteria.UnmarshalJSON: a position of the topics with a null matches everything.
Parsed(raw) == [i \in 1 .. Len(raw) |-> IF Null \in raw[i] THEN {} ELSE raw[i]]
\* SubscribeLogs: which logs a range of blocks is about.
SubscribeLogs(from, to) ==
    IF from = Pending /\ to = Pending THEN {"pending"}
    ELSE IF from = Latest /\ to = Latest THEN {"logs"}
    ELSE IF from >= 0 /\ to >= from THEN {"logs"}
    ELSE IF from >= Latest /\ to = Pending THEN {"logs", "pending"}
    ELSE IF from >= 0 /\ to = Latest THEN {"logs"} ELSE {}
\* filterLogs, of one log.
filterLogs(log, from, to, crit) ==
    /\ ~(from >= 0 /\ from > log.number) /\ ~(to >= 0 /\ to < log.number)
    /\ crit.addresses # {} => log.address \in crit.addresses
    /\ Len(crit.topics) <= Len(log.topics)
    /\ \A i \in 1 .. Len(crit.topics) : crit.topics[i] = {} \/ log.topics[i] \in crit.topics[i]
\* logBloomFilter: bloomFilter and the rules NewMatcher keeps, on the bloom of a block with that log.
Bloom(log) == {log.address} \cup {log.topics[i] : i \in 1 .. Len(log.topics)}
Included(rule, bloom) == rule = {} \/ rule \cap bloom # {}
logBloomFilter(bloom, crit) ==
    /\ crit.addresses # {} => crit.addresses \cap bloom # {}
    /\ \A i \in 1 .. Len(crit.topics) : Included(crit.topics[i], bloom)
Rules(crit) == {r \in {crit.addresses} \cup {crit.topics[i] : i \in 1 .. Len(crit.topics)} : r # {}}
\* broadcast: is the event for the subscription.
Wants(crit, e) ==
    /\ e.kind \in crit.kinds
    /\ e.kind \in {"logs", "pending"} =>
          filterLogs(e.log, IF e.kind = "pending" THEN Latest ELSE crit.from, crit.to, crit)
-----------------------------------------------------------------------------
Goes(f, pc) == filt' = [filt EXCEPT ![f].pc = pc]
\* NewFilter, NewBlockFilter, NewPendingTransactionFilter, NewHeads, Logs, NewPendingTransactions:
\* the loop installs the subscription.
Query(q) == IF q.kind = "logs"
            THEN [kinds |-> SubscribeLogs(q.from, q.to), from |-> q.from, to |-> q.to,
                  addresses |-> q.addresses, topics |-> Parsed(q.raw)]
            ELSE [kinds |-> {q.kind}, from |-> Latest, to |-> Latest, addresses |-> {}, topics |-> <<>>]
Install(f, q) ==
    /\ filt[f].pc = "none" /\ loop.pc = "loop" /\ Query(q).kinds # {}
    /\ index' = index \cup {f}
    /\ filt' = [filt EXCEPT ![f].crit = Query(q), ![f].pc = IF f \in Polled THEN "create" ELSE "recv"]
    /\ UNCHANGED <<loop, chan, api, mu, unsub, hist>>
\* Then the filter is registered under the lock, and its goroutine started.
Register(f) ==
    /\ filt[f].pc = "create" /\ mu = "free"
    /\ api' = [api EXCEPT ![f] = [here |-> TRUE, buf |-> <<>>]]
    /\ Goes(f, "recv")
    /\ UNCHANGED <<loop, chan, index, mu, unsub, hist>>

Post(e) ==
    /\ hist.posted < MaxEvents /\ loop.pc # "stopped"
    /\ chan' = Append(chan, [kind |-> e.kind, log |-> e.log, id |-> hist.posted])
    /\ hist' = [hist EXCEPT !.posted = @ + 1]
    /\ UNCHANGED <<loop, index, filt, api, mu, unsub>>
\* The loop takes an event, and sends it to the subscriptions one after the other.
Broadcast ==
    /\ loop.pc = "loop" /\ chan # <<>>
    /\ LET to == {f \in index : Wants(filt[f].crit, Head(chan))}
       IN loop' = IF to = {} THEN loop ELSE [pc |-> "send", event |-> {Head(chan)}, left |-> to, to |-> {}]
    /\ chan' = Tail(chan)
    /\ UNCHANGED <<index, filt, api, mu, unsub, hist>>
Turn(f) ==
    /\ loop.pc = "send" /\ loop.to = {} /\ f \in loop.left
    /\ loop' = [loop EXCEPT !.to = {f}, !.left = @ \ {f}]
    /\ UNCHANGED <<chan, index, filt, api, mu, unsub, hist>>
Handed == IF loop.left = {} THEN Waits ELSE [loop EXCEPT !.to = {}]
Event == CHOOSE e \in loop.event : TRUE
\* The goroutine of the filter receives: a polled one then needs the lock, the other notifies.
Receive(f) ==
    /\ loop.pc = "send" /\ loop.to = {f} /\ filt[f].pc = "recv"
    /\ loop' = Handed
    /\ filt' = IF f \in Polled THEN [filt EXCEPT ![f].pc = "lock", ![f].hand = <<Event.id>>] ELSE filt
    /\ hist' = [hist EXCEPT !.sent[f] = Append(@, Event.id),
                            !.got[f] = IF f \in Pushed THEN Append(@, Event.id) ELSE @]
    /\ UNCHANGED <<chan, index, api, mu, unsub>>
Collect(f) ==
    /\ filt[f].pc = "lock" /\ mu = "free"
    /\ api' = IF api[f].here THEN [api EXCEPT ![f].buf = @ \o filt[f].hand] ELSE api
    /\ filt' = [filt EXCEPT ![f].pc = "recv", ![f].hand = <<>>]
    /\ UNCHANGED <<loop, chan, index, mu, unsub, hist>>

\* GetFilterChanges: what was collected (and the deadline is set again).
AfterPoll(buf) == <<>>
GetFilterChanges(f) ==
    /\ mu = "free" /\ api[f].here /\ hist.polls < MaxPolls
    /\ api' = [api EXCEPT ![f].buf = AfterPoll(@)]
    /\ hist' = [hist EXCEPT !.got[f] = @ \o api[f].buf, !.polls = @ + 1]
    /\ UNCHANGED <<loop, chan, index, filt, mu, unsub>>
\* UninstallFilter; a client of a pushed one unsubscribes, or is gone.
UninstallFilter(f) ==
    /\ mu = "free" /\ api[f].here
    /\ api' = [api EXCEPT ![f] = Absent] /\ unsub' = unsub \cup {f}
    /\ UNCHANGED <<loop, chan, index, filt, mu, hist>>
ClientGone(f) ==
    /\ f \in Pushed /\ filt[f].pc = "recv" /\ f \notin unsub
    /\ Goes(f, "leaving") /\ unsub' = unsub \cup {f}
    /\ UNCHANGED <<loop, chan, index, api, mu, hist>>
\* timeoutLoop: holding the lock, it unsubscribes the filters whose deadline has passed.
TimeoutBegin(f) ==
    /\ mu = "free" /\ api[f].here
    /\ mu' = f /\ unsub' = unsub \cup {f}
    /\ UNCHANGED <<loop, chan, index, filt, api, hist>>
TimeoutNext(f, g) ==
    /\ mu = f /\ f \notin unsub /\ g # f /\ api[g].here
    /\ api' = [api EXCEPT ![f] = Absent] /\ mu' = g /\ unsub' = unsub \cup {g}
    /\ UNCHANGED <<loop, chan, index, filt, hist>>
TimeoutEnd(f) ==
    /\ mu = f /\ f \notin unsub
    /\ api' = [api EXCEPT ![f] = Absent] /\ mu' = "free"
    /\ UNCHANGED <<loop, chan, index, filt, unsub, hist>>

\* Unsubscribe: it offers the uninstall, and takes what the loop is sending to the filter.
Drains(f) == loop.pc = "send" /\ loop.to = {f}
Drain(f) ==
    /\ f \in unsub /\ Drains(f) /\ loop' = Handed
    /\ UNCHANGED <<chan, index, filt, api, mu, unsub, hist>>
IndexWithout(f) == index \ {f}
Uninstall(f) ==
    /\ f \in unsub /\ loop.pc = "loop" /\ f \in index
    /\ index' = IndexWithout(f)
    /\ unsub' = unsub \ {f}
    /\ filt' = [filt EXCEPT ![f].err = TRUE, ![f].pc = IF @ = "leaving" THEN "end" ELSE @]
    /\ UNCHANGED <<loop, chan, api, mu, hist>>
\* The goroutine of a polled filter sees that it is uninstalled.
Removed(f) ==
    /\ f \in Polled /\ filt[f].pc = "recv" /\ filt[f].err /\ mu = "free"
    /\ api' = [api EXCEPT ![f] = Absent] /\ Goes(f, "end")
    /\ UNCHANGED <<loop, chan, index, mu, unsub, hist>>
\* The subscriptions of the event system are closed.
StopEvents ==
    /\ loop.pc = "loop" /\ loop' = [Waits EXCEPT !.pc = "stopped"]
    /\ UNCHANGED <<chan, index, filt, api, mu, unsub, hist>>

FilterSteps(f) == \/ Register(f) \/ Turn(f) \/ Receive(f) \/ Collect(f) \/ TimeoutEnd(f)
                  \/ Drain(f) \/ Uninstall(f) \/ Removed(f)
FilterNext == \/ \E f \in Filter : \/ \E q \in Queries(f) : Install(f, q)
                                   \/ FilterSteps(f) \/ GetFilterChanges(f)
                                   \/ UninstallFilter(f) \/ ClientGone(f) \/ TimeoutBegin(f)
                                   \/ \E g \in Polled : TimeoutNext(f, g)
              \/ (\E e \in Events : Post(e)) \/ Broadcast \/ StopEvents
FilterFairness == WF_filterVars(Broadcast \/ \E f \in Filter : FilterSteps(f))
FilterSpec == FilterInit /\ [][FilterNext]_filterVars /\ FilterFairness
-----------------------------------------------------------------------------
\* A subscription is installed until its err channel is closed, the loop sends only to
\* installed ones, and a filter that is registered belongs to a goroutine that still runs.
FilterTypeOK ==
    /\ \A f \in Filter : f \in index <=> filt[f].pc # "none" /\ ~filt[f].err
    /\ loop.left \cup loop.to \subseteq index
    /\ \A f \in Filter : api[f].here => filt[f].pc \in {"recv", "lock"}
    /\ mu # "free" => api[mu].here

\* A client that polls gets every event of its filter once and in order.
PolledOnce ==
    \A f \in Filter : api[f].here /\ index = index \cup {f} /\ f \notin unsub =>
        hist.got[f] \o api[f].buf \o filt[f].hand = hist.sent[f]

\* The bloom of a block never excludes a log that the criteria match, neither in
\* bloomFilter nor by the rules the matcher works with.
BloomNeverMisses ==
    \A f \in index, e \in Events :
        e.kind = "logs" /\ "logs" \in filt[f].crit.kinds /\ Wants(filt[f].crit, e) =>
            /\ logBloomFilter(Bloom(e.log), filt[f].crit)
            /\ \A r \in Rules(filt[f].crit) : r \cap Bloom(e.log) # {}

\* A filter waits for the lock with an event, or to be registered.
WaitsForLock(f) == filt[f].pc \in {"lock", "create"}
\* Unsubscribe returns, unless the timeout loop is in it with the lock held while another
\* filter needs that lock to take its events, or the event system has been stopped.
UnsubscribeReturns ==
    \A f \in Filter : f \in unsub ~> \/ f \notin unsub \/ loop.pc = "stopped"
                                     \/ mu # "free" /\ \E g \in Polled \ {mu} : WaitsForLock(g)

==============================================================================
