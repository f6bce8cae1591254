--------------------------------- MODULE Rpc ---------------------------------
(* The RPC server of api/rpc: connections served by server.go through the JSON  *)
(* codec of json.go, requests executed in parallel, the notifier and its        *)
(* subscriptions (subscription.go), the methods that utils.go and endpoints.go  *)
(* expose, and Stop.  Events of the subscriptions come at any time.             *)
EXTENDS Integers, Sequences, FiniteSets, SequencesExt

CONSTANTS Conns,          \* the connections; the HTTP ones serve a single request
          HttpConns,
          Methods,        \* [service, name, exported, ctx, sub, ins, outs] of the services offered
          Whitelist, PublicServices,
          Inputs(_),      \* the messages a client sends: sequences of [batch, parses, reqs]
          MaxServerEvents

VARIABLES run, stopping, conns, exec, subs, serverEvents
rpcVars == <<run, stopping, conns, exec, subs, serverEvents>>

\* suitableCallbacks: a method that returns (Subscription, error) and takes a context is a
\* subscription; another one may return a value, an error, or a value and then an error.
IsPubSub(m) == m.ctx /\ m.outs = <<"subscription", "error">>
ErrPos(m) == IF Contains(m.outs, "error") THEN CHOOSE i \in DOMAIN m.outs : m.outs[i] = "error" ELSE 0
Suitable(m) ==
    /\ m.exported /\ ~Contains(m.ins, "hidden")
    /\ IsPubSub(m) \/ /\ ~Contains(m.outs, "hidden")
                      /\ ErrPos(m) \in {0, Len(m.outs)}
                      /\ Len(m.outs) <= 2 /\ (Len(m.outs) = 2 => ErrPos(m) # 0)
\* The services of an endpoint: the ones listed, or the public ones if none is.
Exposed(m) == Suitable(m) /\ m.service \in (IF Whitelist = {} THEN PublicServices ELSE Whitelist)

\* readRequest and parsePositionalArguments: what becomes of one request.
\* Pointer arguments at the end may be left out.
Given(m, args) == /\ args <= Len(m.ins)
                  /\ \A i \in args + 1 .. Len(m.ins) : m.ins[i] = "pointer"
Called(r) == {m \in Methods : Exposed(m) /\ m.service = r.service /\ m.name = r.name /\ (IsPubSub(m) <=> r.pubsub)}
Classified(c, r) ==
    IF r.name = "unsubscribe" THEN (IF c \in HttpConns THEN "error" ELSE "unsubscribe")
    ELSE IF Called(r) = {} THEN "error"
    ELSE LET m == CHOOSE m \in Called(r) : TRUE IN
         IF ~Given(m, r.args) THEN "error"
         ELSE IF IsPubSub(m) THEN (IF c \in HttpConns THEN "error" ELSE "subscribe") ELSE "call"
-----------------------------------------------------------------------------
RpcInit ==
    /\ run = TRUE /\ stopping = "no"
    /\ conns = [c \in Conns |-> [pc |-> "new", registered |-> FALSE, closed |-> FALSE, gone |-> FALSE,
                                 input |-> 0, read |-> <<>>, out |-> <<>>]]
    /\ exec = {}            \* the requests being executed: [conn, msg, done, subs]
    /\ subs = {}            \* [conn, id, active]
    /\ serverEvents = 0

PendingRequests(c) == {e \in exec : e.conn = c}
\* codec.Write fails on a closed connection, but an HTTP answer is written all the same.
Open(c) == c \in HttpConns \/ ~(conns[c].closed \/ conns[c].gone)
Written(c, msg) == IF Open(c) THEN [conns EXCEPT ![c].out = Append(@, msg)] ELSE [conns EXCEPT ![c].closed = TRUE]
Answer(r, kind) == [id |-> r.id, answer |-> kind]

\* serveRequest: registers the codec unless the server has been stopped.
Stopped == ~run
ServeRequest(c) ==
    /\ conns[c].pc = "new"
    /\ conns' = IF Stopped THEN [conns EXCEPT ![c].pc = "ended", ![c].closed = TRUE]
                ELSE [conns EXCEPT ![c].pc = "check", ![c].registered = TRUE]
    /\ UNCHANGED <<run, stopping, exec, subs, serverEvents>>

\* The deferred calls: the codec is removed and closed.
End(c) == conns' = [conns EXCEPT ![c].pc = "ended", ![c].registered = FALSE, ![c].closed = TRUE]
CheckRun(c) ==
    /\ conns[c].pc = "check"
    /\ IF run THEN conns' = [conns EXCEPT ![c].pc = "read"] ELSE End(c)
    /\ UNCHANGED <<run, stopping, exec, subs, serverEvents>>

\* The read fails when the connection is closed here or by the client, or times out.
ReadFails(c) ==
    /\ conns[c].pc = "read"
    /\ conns[c].closed \/ conns[c].gone
    /\ conns' = [conns EXCEPT ![c].pc = "wait"]
    /\ UNCHANGED <<run, stopping, exec, subs, serverEvents>>
ConnDrained(c) == PendingRequests(c) = {}
WaitPending(c) ==
    /\ conns[c].pc = "wait" /\ ConnDrained(c) /\ End(c)
    /\ UNCHANGED <<run, stopping, exec, subs, serverEvents>>

Read(c) ==
    LET msg == Inputs(c)[conns[c].input + 1]
        taken == [conns EXCEPT ![c].input = @ + 1, ![c].pc = IF c \in HttpConns THEN "wait" ELSE "check",
                               ![c].read = @ \o msg.reqs]
    IN  /\ conns[c].pc = "read" /\ conns[c].input < Len(Inputs(c)) /\ Open(c)
        /\ IF ~msg.parses      \* an error with no id, then the end
           THEN /\ conns' = [Written(c, <<[id |-> 0, answer |-> "error"]>>) EXCEPT
                                ![c].input = @ + 1, ![c].pc = "wait"]
                /\ UNCHANGED exec
           ELSE IF ~run        \* the client is told of the shutdown
           THEN /\ conns' = [Written(c, [i \in DOMAIN msg.reqs |-> Answer(msg.reqs[i], "shutdown")]) EXCEPT
                                ![c].read = @ \o msg.reqs, ![c].input = @ + 1, ![c].pc = "ended",
                                ![c].registered = FALSE, ![c].closed = TRUE]
                /\ UNCHANGED exec
           ELSE /\ conns' = taken
                /\ exec' = exec \cup {[conn |-> c, no |-> conns[c].input, left |-> msg.reqs, answers |-> <<>>, made |-> {}]}
        /\ UNCHANGED <<run, stopping, subs, serverEvents>>

\* Notifier.unsubscribe finds active subscriptions only.
Unsubscribable(c, id) == {s \in subs : s.conn = c /\ s.id = id /\ s.active}
\* handle, for the next request of a message.
Handle(e) ==
    LET r == Head(e.left)
        kind == Classified(e.conn, r)
        gone == IF kind = "unsubscribe" THEN Unsubscribable(e.conn, r.sub) ELSE {}
        new == [conn |-> e.conn, id |-> r.id, active |-> FALSE]
        answer == IF kind = "error" \/ (kind = "unsubscribe" /\ gone = {}) THEN "error"
                  ELSE kind
    IN  /\ e.left # <<>>
        /\ exec' = (exec \ {e}) \cup {[e EXCEPT !.left = Tail(@),
                                                !.answers = Append(@, [id |-> r.id, answer |-> answer]),
                                                !.made = IF kind = "subscribe" THEN @ \cup {r.id} ELSE @]}
        /\ subs' = IF kind = "subscribe" THEN subs \cup {new} ELSE subs \ gone
        /\ UNCHANGED <<run, stopping, conns, serverEvents>>
\* The answer is written when the last request is handled.
WriteAnswer(e) ==
    /\ e.left = <<>> /\ e.answers # <<>>
    /\ conns' = Written(e.conn, e.answers)
    /\ exec' = (exec \ {e}) \cup {[e EXCEPT !.answers = <<>>]}
    /\ UNCHANGED <<run, stopping, subs, serverEvents>>
\* ... and only then are the subscriptions activated.
\* Faulty variant: they may be activated while the answer is not yet written.
AnsweredAlready(e) == TRUE
Answered(e) == e.answers = <<>>
Without(e) == exec \ {e}
Activate(e) ==
    /\ e.left = <<>> /\ Answered(e)
    /\ subs' = {[s EXCEPT !.active = s.active \/ (s.conn = e.conn /\ s.id \in e.made)] : s \in subs}
    /\ exec' = IF e.answers = <<>> THEN Without(e) ELSE (exec \ {e}) \cup {[e EXCEPT !.made = {}]}
    /\ UNCHANGED <<run, stopping, conns, serverEvents>>

\* An event: Notify drops it while the subscription is inactive.
ServerEvent(s) ==
    /\ s \in subs /\ serverEvents < MaxServerEvents /\ serverEvents' = serverEvents + 1
    /\ conns' = IF s.active THEN Written(s.conn, <<[id |-> s.id, answer |-> "event"]>>) ELSE conns
    /\ UNCHANGED <<run, stopping, exec, subs>>
ConnGone(c) ==
    /\ c \notin HttpConns /\ conns[c].registered /\ ~conns[c].gone /\ conns' = [conns EXCEPT ![c].gone = TRUE]
    /\ UNCHANGED <<run, stopping, exec, subs, serverEvents>>

\* Stop: the flag, then every registered codec is closed under the lock.
StopFlag == /\ run /\ run' = FALSE /\ stopping' = "flag"
            /\ UNCHANGED <<conns, exec, subs, serverEvents>>
StopClose == /\ stopping = "flag" /\ stopping' = "done"
             /\ conns' = [c \in Conns |-> [conns[c] EXCEPT !.closed = @ \/ conns[c].registered]]
             /\ UNCHANGED <<run, exec, subs, serverEvents>>

RpcServing(c) == CheckRun(c) \/ ReadFails(c) \/ WaitPending(c)
RpcExecuting == \E e \in exec : Handle(e) \/ WriteAnswer(e) \/ Activate(e)
RpcNext == \/ \E c \in Conns : ServeRequest(c) \/ RpcServing(c) \/ Read(c) \/ ConnGone(c)
           \/ RpcExecuting \/ StopFlag \/ StopClose
           \/ \E s \in subs : ServerEvent(s)
RpcSpec == /\ RpcInit /\ [][RpcNext]_rpcVars
           /\ \A c \in Conns : WF_rpcVars(RpcServing(c))
           /\ WF_rpcVars(RpcExecuting) /\ WF_rpcVars(StopClose)
-----------------------------------------------------------------------------
Ids(c) == {conns[c].read[i].id : i \in DOMAIN conns[c].read}
Responses(c, id) == {<<i, j>> \in (DOMAIN conns[c].out) \X (1 .. 2) :
    j \in DOMAIN conns[c].out[i] /\ conns[c].out[i][j].id = id /\ conns[c].out[i][j].answer # "event"}
\* Every codec of a connection that is being served is registered, no subscription is of
\* an HTTP connection, and no request has two answers.
RpcTypeOK ==
    /\ \A c \in Conns : conns[c].registered <=> conns[c].pc \in {"check", "read", "wait"}
    /\ \A s \in subs : s.conn \notin HttpConns
    /\ \A c \in Conns : \A id \in Ids(c) : Cardinality(Responses(c, id)) <= 1

\* A connection that ends while the server runs and the client listens, after a message
\* that could not be parsed, has answered every request it had read before, those still
\* running at that moment included.
EndAnswersAll ==
    \A c \in Conns : conns[c].pc = "ended" /\ run /\ ~conns[c].gone => \A id \in Ids(c) : Responses(c, id) # {}

\* No notification of a subscription is sent before the answer that carries its id, nor
\* after the answer that cancels it.
NotifiedWhileSubscribed ==
    \A c \in Conns : LET out == conns[c].out IN
        \A i \in DOMAIN out : \A j \in DOMAIN out[i] :
            out[i][j].answer = "event" =>
                /\ \E k \in 1 .. i - 1 : \E l \in DOMAIN out[k] : out[k][l] = [id |-> out[i][j].id, answer |-> "subscribe"]
                /\ ~ \E k \in 1 .. i - 1 : \E l \in DOMAIN out[k] : out[k][l].answer = "unsubscribe"

\* When Stop has returned, every codec being served is closed, although connections may
\* have been registering at the same time.
StopClosesAll == stopping = "done" => \A c \in Conns : conns[c].registered => conns[c].closed

\* After Stop every connection ends.
ConnectionsEnd == ~run ~> \A c \in Conns : conns[c].pc \in {"new", "ended"}

------------------------------------------------------------------------------
(* The RPC client of api/rpc/client.go: callers, the dispatch loop that owns    *)
(* the requests waiting for an answer, the read loop of a connection, the       *)
(* reconnection after a failed write, subscriptions and their buffer, Close.    *)
CONSTANTS Calls,                 \* calls without a deadline
          Subscribes,            \* subscriptions, each with a context that may be cancelled
          MaxConnections, MaxNotes, maxClientSubscriptionBuffer

Ops == Calls \cup Subscribes
VARIABLES call,       \* of each operation: [pc, conn, resp]
          dispatch,   \* [pc, lock, conn, reading, respWait, done]
          reader,     \* [conn, pc, msg]
          writeConn,  \* 0 when the previous write failed
          net,        \* [up, answers, served, opened]: the connections, and what the server has sent
          sub,        \* of each subscription: [state, buffer, notes]
          closing,    \* "no", "asked", "returned"
          overtaken   \* a connection was replaced before its read loop had ended
clientVars == <<call, dispatch, reader, writeConn, net, sub, closing, overtaken>>

ClientFree == 0
ClientInit ==
    /\ call = [k \in Ops |-> [pc |-> "send", resp |-> "open", conn |-> 0]]
    /\ dispatch = [pc |-> "loop", lock |-> ClientFree, conn |-> 1, reading |-> TRUE, respWait |-> {}, done |-> "no"]
    /\ reader = [conn |-> 1, pc |-> "read", msg |-> ClientFree]
    /\ writeConn = 1
    /\ net = [up |-> {1}, answers |-> {}, served |-> {}, opened |-> 1]
    /\ sub = [s \in Subscribes |-> [state |-> "none", buffer |-> 0, notes |-> 0, conn |-> 0]]
    /\ closing = "no" /\ overtaken = FALSE

Looping == dispatch.pc = "loop"
Quit == dispatch.pc = "quit"
OpGoes(k, pc) == call' = [call EXCEPT ![k].pc = pc]
-----------------------------------------------------------------------------
\* CallContext, BatchCallContext and Subscribe up to send: the dispatch loop registers the operation and gives the write lock, or has quit.
Send(k) ==
    /\ call[k].pc = "send" /\ (k - 1 \in Ops => call[k - 1].pc # "send")     \* operations are numbered as they come
    /\ \/ /\ Looping /\ dispatch.lock = ClientFree
          /\ dispatch' = [dispatch EXCEPT !.lock = k, !.respWait = @ \cup {k}]
          /\ OpGoes(k, "write")
       \/ Quit /\ OpGoes(k, "returned") /\ UNCHANGED dispatch
    /\ UNCHANGED <<reader, writeConn, net, sub, closing, overtaken>>
\* write: on a connection that is down it may still seem to succeed, until this side closes it.
Closed == Quit \/ (writeConn = dispatch.conn /\ ~dispatch.reading)
Write(k) ==
    /\ call[k].pc = "write" /\ writeConn # 0
    /\ \/ /\ ~Closed
          /\ call' = [call EXCEPT ![k].pc = "wait", ![k].conn = writeConn]
          /\ dispatch' = [dispatch EXCEPT !.done = "sent"]
          /\ UNCHANGED writeConn
       \/ /\ Closed \/ writeConn \notin net.up
          /\ OpGoes(k, "returned") /\ writeConn' = 0
          /\ dispatch' = [dispatch EXCEPT !.done = "failed"]
    /\ UNCHANGED <<reader, net, sub, closing, overtaken>>
\* reconnect: a new connection is offered to the dispatch loop.
Reconnect(k) ==
    LET new == net.opened + 1 IN
    /\ call[k].pc = "write" /\ writeConn = 0
    /\ \/ /\ new <= MaxConnections /\ Looping
          /\ net' = [net EXCEPT !.up = (@ \ (IF dispatch.reading THEN {dispatch.conn} ELSE {})) \cup {new}, !.opened = new]
          /\ writeConn' = new /\ UNCHANGED call
          /\ IF dispatch.reading
             THEN /\ dispatch' = [dispatch EXCEPT !.pc = "await", !.conn = new]
                  /\ overtaken' = TRUE /\ UNCHANGED reader
             ELSE /\ dispatch' = [dispatch EXCEPT !.conn = new, !.reading = TRUE]
                  /\ reader' = [conn |-> new, pc |-> "read", msg |-> ClientFree]
                  /\ UNCHANGED overtaken
       \/ /\ OpGoes(k, "returned") /\ dispatch' = [dispatch EXCEPT !.done = "failed"]
          /\ UNCHANGED <<net, writeConn, reader, overtaken>>
    /\ UNCHANGED <<sub, closing>>
\* The dispatch loop waits for the previous read loop to exit.
AwaitReadErr ==
    /\ dispatch.pc = "await" /\ reader.pc = "error"
    /\ reader' = [conn |-> dispatch.conn, pc |-> "read", msg |-> ClientFree]
    /\ dispatch' = [dispatch EXCEPT !.pc = "loop"]
    /\ UNCHANGED <<call, writeConn, net, sub, closing, overtaken>>
\* <-sendDone: a failed operation is deregistered, and the lock released.
\* Faulty variant: the failed operation stays registered.
WaitingAfterKept(err) == dispatch.respWait
WaitingAfter(err) == IF err = "failed" THEN dispatch.respWait \ {dispatch.lock} ELSE dispatch.respWait
SendDone ==
    /\ Looping /\ dispatch.done # "no"
    /\ dispatch' = [dispatch EXCEPT !.lock = ClientFree, !.done = "no", !.respWait = WaitingAfter(dispatch.done)]
    /\ UNCHANGED <<call, reader, writeConn, net, sub, closing, overtaken>>
-----------------------------------------------------------------------------
\* The server answers, or notifies; a connection breaks.
Serve(k) ==
    /\ call[k].pc = "wait" /\ call[k].conn \in net.up
    /\ k \notin net.served
    /\ net' = [net EXCEPT !.answers = @ \cup {<<"answer", k>>}, !.served = @ \cup {k}]
    /\ UNCHANGED <<call, dispatch, reader, writeConn, sub, closing, overtaken>>
NotifySub(s) ==
    /\ sub[s].notes < MaxNotes /\ s \in net.served /\ call[s].conn \in net.up
    /\ sub' = [sub EXCEPT ![s].notes = @ + 1]
    /\ net' = [net EXCEPT !.answers = @ \cup {<<"note", s>>}]
    /\ UNCHANGED <<call, dispatch, reader, writeConn, closing, overtaken>>
Break(c) ==
    /\ c \in net.up
    /\ net' = [net EXCEPT !.up = @ \ {c}, !.answers = {m \in @ : call[m[2]].conn # c}]
    /\ UNCHANGED <<call, dispatch, reader, writeConn, sub, closing, overtaken>>

\* read: the next message of the connection, or its error.
NotRead == {m \in net.answers : call[m[2]].conn = reader.conn /\ (m[1] = "note" => <<"answer", m[2]>> \notin net.answers)}
ReadMessage(m) ==
    /\ reader.pc = "read" /\ m \in NotRead /\ reader.conn \in net.up
    /\ reader' = [reader EXCEPT !.pc = "message", !.msg = m]
    /\ net' = [net EXCEPT !.answers = @ \ {m}]
    /\ UNCHANGED <<call, dispatch, writeConn, sub, closing, overtaken>>
ReadError ==
    /\ reader.pc = "read" /\ reader.conn \notin net.up
    /\ reader' = [reader EXCEPT !.pc = "error"]
    /\ UNCHANGED <<call, dispatch, writeConn, net, sub, closing, overtaken>>

\* handleResponse and handleNotification; an answer nobody waits for is ignored.
WaitingWithout(k) == dispatch.respWait \ {k}
HandleResponse(k) ==
    /\ dispatch' = [dispatch EXCEPT !.respWait = WaitingWithout(k)]
    /\ call' = IF k \in dispatch.respWait THEN [call EXCEPT ![k].resp = IF @ = "open" THEN "reply" ELSE "twice"] ELSE call
    /\ sub' = IF k \in dispatch.respWait \cap Subscribes THEN [sub EXCEPT ![k].state = "active", ![k].conn = reader.conn] ELSE sub
HandleNotification(s) ==
    /\ sub' = IF sub[s].state # "active" THEN sub
              ELSE IF sub[s].buffer = maxClientSubscriptionBuffer THEN [sub EXCEPT ![s].state = "overflow"]
              ELSE [sub EXCEPT ![s].buffer = @ + 1]
    /\ UNCHANGED <<call, dispatch>>
DispatchMessage ==
    /\ Looping /\ reader.pc = "message"
    /\ reader' = [reader EXCEPT !.pc = "read", !.msg = ClientFree]
    /\ IF reader.msg[1] = "answer" THEN HandleResponse(reader.msg[2]) ELSE HandleNotification(reader.msg[2])
    /\ UNCHANGED <<writeConn, net, closing, overtaken>>

\* closeRequestOps: the waiting operations and the subscriptions are told.
SubsClosed == [s \in Subscribes |-> IF sub[s].state = "active" THEN [sub[s] EXCEPT !.state = "ended"] ELSE sub[s]]
\* Faulty variant: only the operation being sent is told.
ToldLast == dispatch.respWait \cap {dispatch.lock}
Told == dispatch.respWait
CloseRequestOps ==
    /\ call' = [k \in Ops |-> IF k \in Told
                              THEN [call[k] EXCEPT !.resp = IF @ = "open" THEN "closed" ELSE "twice"] ELSE call[k]]
    /\ sub' = SubsClosed
DispatchError ==
    /\ Looping /\ reader.pc = "error" /\ dispatch.reading
    /\ CloseRequestOps
    /\ dispatch' = [dispatch EXCEPT !.respWait = {}, !.reading = FALSE]
    /\ reader' = [reader EXCEPT !.pc = "dead"]
    /\ UNCHANGED <<writeConn, net, closing, overtaken>>

\* op.wait: the answer, the channel closed, or for a subscription the context cancelled.
ReturnCall(k) ==
    /\ call[k].pc = "wait" /\ call[k].resp # "open" /\ OpGoes(k, "returned")
    /\ UNCHANGED <<dispatch, reader, writeConn, net, sub, closing, overtaken>>
Cancel(s) ==
    /\ call[s].pc = "wait" /\ OpGoes(s, "cancelled")
    /\ UNCHANGED <<dispatch, reader, writeConn, net, sub, closing, overtaken>>
\* The subscriber takes a notification; forward sends the first of the buffer.
TakeRequest(s) ==
    /\ sub[s].state = "active" /\ sub[s].buffer > 0
    /\ sub' = [sub EXCEPT ![s].buffer = @ - 1]
    /\ UNCHANGED <<call, dispatch, reader, writeConn, net, closing, overtaken>>

CloseClient ==
    /\ closing = "no" /\ closing' = "asked"
    /\ UNCHANGED <<call, dispatch, reader, writeConn, net, sub, overtaken>>
DispatchClose ==
    /\ closing = "asked" /\ Looping
    /\ CloseRequestOps
    /\ net' = [net EXCEPT !.up = @ \ {dispatch.conn}]
    /\ dispatch' = [dispatch EXCEPT !.respWait = {}, !.pc = "quit"]
    /\ reader' = [reader EXCEPT !.pc = "dead"]         \* drained until it is dead
    /\ closing' = "returned"
    /\ UNCHANGED <<writeConn, overtaken>>

ClientSteps == \/ \E k \in Ops : Send(k) \/ Write(k) \/ Reconnect(k) \/ ReturnCall(k)
               \/ AwaitReadErr \/ SendDone \/ (\E m \in NotRead : ReadMessage(m)) \/ ReadError
               \/ DispatchMessage \/ DispatchError
ClientNext == \/ ClientSteps \/ CloseClient \/ DispatchClose
              \/ \E k \in Ops : Serve(k)
              \/ \E s \in Subscribes : NotifySub(s) \/ Cancel(s) \/ TakeRequest(s)
              \/ \E c \in 1 .. MaxConnections : Break(c)
ClientFairness == /\ \A k \in Ops : WF_clientVars(Write(k) \/ Reconnect(k)) /\ WF_clientVars(ReturnCall(k))
                  /\ WF_clientVars(AwaitReadErr \/ SendDone \/ DispatchMessage \/ DispatchError)
                  /\ WF_clientVars(ReadError) /\ WF_clientVars(DispatchClose)
ClientSpec == ClientInit /\ [][ClientNext]_clientVars /\ ClientFairness
-----------------------------------------------------------------------------
\* An operation in respWait has an open answer channel, so that none is closed twice or
\* used after it is closed, and the write lock is held by one operation that is sending.
ClientTypeOK ==
    /\ \A k \in Ops : call[k].resp # "twice"
    /\ \A k \in dispatch.respWait : call[k].resp = "open"
    /\ \A k \in Ops : call[k].pc = "write" => dispatch.lock = k
    /\ dispatch.lock = ClientFree => dispatch.done = "no"

\* A request stays registered only as long as somebody may still answer it: when the
\* dispatch loop knows that nothing is being read and nobody is sending, none waits.
NobodyWaitsForNothing ==
    Looping /\ ~dispatch.reading /\ dispatch.lock = ClientFree => dispatch.respWait = {}

\* A call whose connection has broken returns, unless the connection was replaced before its
\* read loop had ended.
BrokenCallsReturn ==
    \A k \in Calls : (call[k].pc = "wait" /\ call[k].conn \notin net.up) ~> (call[k].pc = "returned" \/ overtaken)

\* A subscription whose connection has broken is told, unless the connection was replaced before
\* its read loop had ended.
BrokenSubsEnd ==
    \A s \in Subscribes : (sub[s].state = "active" /\ sub[s].conn \notin net.up) ~> (sub[s].state # "active" \/ overtaken)

==============================================================================
