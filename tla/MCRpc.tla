-------------------------------- MODULE MCRpc --------------------------------
(* Instances of the modules of the remote interface: the server and the       *)
(* client, the log index and the matcher it searches with, and event filters. *)
(* The parts share no state; a behaviour is one of the part it starts with.   *)
EXTENDS Rpc, LogSearch, Filters

CONSTANTS Parts
VARIABLE part

\* Rpc: an HTTP connection that sends rubbish, and a socket that subscribes, calls and unsubscribes,
\* and then sends rubbish while these may still be running.
RpcM(s, n, e, x, i, o) == [service |-> s, name |-> n, exported |-> e, ctx |-> x, ins |-> i, outs |-> o]
MCMethods == {RpcM("cpc", "get", TRUE, TRUE, <<"value", "pointer">>, <<"value", "error">>),
              RpcM("cpc", "heads", TRUE, TRUE, <<>>, <<"subscription", "error">>),
              RpcM("cpc", "twisted", TRUE, FALSE, <<>>, <<"error", "value">>),
              RpcM("admin", "stop", TRUE, FALSE, <<>>, <<>>)}
RpcR(i, s, n, p, a, u) == [id |-> i, service |-> s, name |-> n, pubsub |-> p, args |-> a, sub |-> u]
MCInputs(c) ==
    IF c = "http" THEN <<[parses |-> FALSE, reqs |-> <<>>]>>
    ELSE <<[parses |-> TRUE, reqs |-> <<RpcR(1, "cpc", "heads", TRUE, 0, 0)>>],
           [parses |-> TRUE, reqs |-> <<RpcR(2, "cpc", "get", FALSE, 1, 0), RpcR(3, "cpc", "unsubscribe", FALSE, 1, 1)>>],
           [parses |-> FALSE, reqs |-> <<>>]>>

\* LogSearch: logs on both sides of a fork, one of which only the bloom filter matches.
MCHits == {<<1, "a">>, <<2, "a">>, <<3, "a">>, <<4, "b">>, <<5, "b">>}
MCMatching == MCHits \ {<<2, "a">>}
MCRanges == {<<1, -1>>}
MCClauses == <<{{"x"}}, {{"x", "y"}, {"y"}}>>
MCVectors == [x |-> [s \in 0 .. 1 |-> IF s = 0 THEN {1, 2} ELSE {}], y |-> [s \in 0 .. 1 |-> {2}]]

\* Filters: one log, and criteria that it meets and that it does not.
MCEvents == {[kind |-> "logs", log |-> [number |-> 3, address |-> "A", topics |-> <<"s", "t">>]]}
LogQuery(from, to, addresses, raw) ==
    [kind |-> "logs", from |-> from, to |-> to, addresses |-> addresses, raw |-> raw]
MCQueries(f) ==
    IF f \in Pushed THEN {LogQuery(-1, -1, {}, <<{"null", "q"}, {"t"}>>), LogQuery(0, 2, {"A"}, <<>>),
                          LogQuery(1, -2, {}, <<{"s"}, {"t"}, {}>>)}
    ELSE {LogQuery(-1, -1, {"A"}, <<{"s", "q"}>>)}

vars == <<part, rpcVars, clientVars, logVars, matcherVars, filterVars>>

Init ==
    /\ part \in Parts
    /\ RpcInit /\ ClientInit
    /\ LogInit /\ MatcherInit /\ FilterInit

Next ==
    \/ part = "server" /\ RpcNext
       /\ UNCHANGED <<part, clientVars, logVars, matcherVars, filterVars>>
    \/ part = "client" /\ ClientNext
       /\ UNCHANGED <<part, rpcVars, logVars, matcherVars, filterVars>>
    \/ part = "index" /\ LogNext
       /\ UNCHANGED <<part, rpcVars, clientVars, matcherVars, filterVars>>
    \/ part = "matcher" /\ MatcherNext
       /\ UNCHANGED <<part, rpcVars, clientVars, logVars, filterVars>>
    \/ part = "filters" /\ FilterNext
       /\ UNCHANGED <<part, rpcVars, clientVars, logVars, matcherVars>>

Spec == Init /\ [][Next]_vars

\* The fairness of each part, as its own module states it.
Fairness ==
    /\ \A c \in Conns : WF_rpcVars(part = "server" /\ RpcServing(c))
    /\ WF_rpcVars(part = "server" /\ RpcExecuting) /\ WF_rpcVars(part = "server" /\ StopClose)
    /\ \A k \in Ops : WF_clientVars(part = "client" /\ (Write(k) \/ Reconnect(k))) /\ WF_clientVars(part = "client" /\ ReturnCall(k))
    /\ WF_clientVars(part = "client" /\ (AwaitReadErr \/ SendDone \/ DispatchMessage \/ DispatchError))
    /\ WF_clientVars(part = "client" /\ ReadError) /\ WF_clientVars(part = "client" /\ DispatchClose)
    /\ WF_logVars(part = "index" /\ EventLoop) /\ WF_logVars(part = "index" /\ BeginSection)
    /\ WF_logVars(part = "index" /\ Process) /\ WF_logVars(part = "index" /\ EndSection)
    /\ WF_matcherVars(part = "matcher" /\ MatcherSteps) /\ WF_matcherVars(part = "matcher" /\ Kill)
    /\ WF_filterVars(part = "filters" /\ (Broadcast \/ \E f \in Filter : FilterSteps(f)))
FairSpec == Spec /\ Fairness

\* What each part keeps besides the invariants that have a name of their own here: the types, and what
\* the component's module says of requests, subscriptions, the index, the matcher and the filters.
RpcInv ==
    /\ part = "server" => RpcTypeOK /\ EndAnswersAll /\ NotifiedWhileSubscribed /\ StopClosesAll
    /\ part = "client" => ClientTypeOK
    /\ part = "index" => LogTypeOK /\ IndexIsCanonical
    /\ part = "matcher" => MatcherTypeOK /\ OnePlace /\ RequestsAssigned /\ ResultsExact
    /\ part = "filters" => FilterTypeOK /\ PolledOnce /\ BloomNeverMisses

\* Nobody waits for ever: connections of a stopped server end, calls and subscriptions of a broken
\* connection too, the index catches up with the chain, searches end and Unsubscribe returns.
RpcProgress ==
    /\ ConnectionsEnd /\ BrokenCallsReturn /\ BrokenSubsEnd
    /\ IndexCatchesUp /\ SearchEnds
    /\ UnsubscribeReturns
==============================================================================
