-------------------------------- MODULE Node --------------------------------
(* The life of a node: node/node.go with the part of its admin interface    *)
(* that opens and closes endpoints (node/api.go), its configuration         *)
(* (node/config.go), and the chain service that it runs                     *)
(* (protocols/cpc/backend.go, api.go) with the roles of its engine          *)
(* (consensus/dpor/dpor.go).  Every operation of the node holds its lock    *)
(* from the first to the last line, so it is one action that may fail at    *)
(* any of its steps; Restart is two of them.  The operations of the service *)
(* are taken step by step.                                                  *)
EXTENDS Integers, FiniteSets, Sequences

CONSTANTS Services,     \* the registered service types; "cpc" holds a database
          Waiters,      \* goroutines that call Wait
          MaxStarts,    \* bound: calls of Start that get past openDataDir
          MaxFaults     \* bound: failures of the disk, the network or a service
ASSUME NodeAssumption == "cpc" \in Services

VARIABLES node,         \* the fields of Node
          dir,          \* the instance directory
          svc,          \* the services: open holds resources, running is started
          wait,         \* the channel each waiter holds, 0 if it does not wait
          nodeHist      \* bounds and history
nodeVars == <<node, dir, svc, wait, nodeHist>>

Endpoints == <<"inproc", "ipc", "http", "ws">>
Upto(i) == {Endpoints[j] : j \in 1 .. i}
NewNode == [server |-> FALSE, p2p |-> FALSE, up |-> {}, apis |-> FALSE, quitCh |-> 0, mux |-> "up",
            want |-> {"inproc", "ipc", "ws"}, asked |-> {}]
NodeInit ==
    /\ node = NewNode
    /\ dir = [lock |-> "free", file |-> 0]
    /\ svc = [open |-> {}, running |-> {}]
    /\ wait = [w \in Waiters |-> 0]
    /\ nodeHist = [starts |-> 0, faults |-> 0, closed |-> {}, ids |-> {}, damaged |-> FALSE, late |-> FALSE, used |-> {}]

Fault == nodeHist.faults < MaxFaults
\* NodeKey: the key of the file (number 0 stands for no readable key), or a new one that is
\* written to the file if the disk lets it.
NodeKey(file, fresh) == IF file # 0 THEN file ELSE fresh
Locked == "us"
\* openDataDir and the key: what a Start that gets so far has done.
openDataDir(saved, faults) ==
    LET key == NodeKey(dir.file, nodeHist.starts + 1) IN
    /\ ~node.server /\ dir.lock = "free" /\ nodeHist.starts < MaxStarts
    /\ saved \/ (dir.file = 0 /\ Fault)
    /\ dir' = [lock |-> Locked, file |-> IF saved THEN key ELSE dir.file]
    /\ nodeHist.faults + faults + (IF saved THEN 0 ELSE 1) <= MaxFaults
    /\ nodeHist' = [nodeHist EXCEPT !.starts = @ + 1, !.faults = @ + faults + (IF saved THEN 0 ELSE 1),
                                    !.damaged = @ \/ ~saved, !.ids = @ \cup {key}]

\* The first two refusals of Start.
StartRefused ==
    /\ node.server \/ dir.lock # "free"
    /\ nodeHist' = [nodeHist EXCEPT !.used = IF node.server THEN @ ELSE @ \cup {dir.lock}]
    /\ UNCHANGED <<node, dir, svc, wait>>

\* A constructor fails, by itself or because the database it opens is still open: the
\* services constructed before it are left as they are, and the chain service leaves its
\* database open when it fails after it.
StartConstructs(saved) ==
    \E built \in SUBSET Services : \E failed \in Services \ built :
        /\ built \cap svc.open = {}
        /\ openDataDir(saved, IF failed \in svc.open THEN 0 ELSE 1)
        /\ \E left \in SUBSET ({failed} \cap {"cpc"}) : svc' = [svc EXCEPT !.open = @ \cup built \cup left]
        /\ UNCHANGED <<node, wait>>

Constructed == svc.open = {}
\* The peer-to-peer server fails to start: nothing is undone.
StartServerFails(saved) ==
    /\ Constructed /\ openDataDir(saved, 1)
    /\ svc' = [svc EXCEPT !.open = Services]
    /\ UNCHANGED <<node, wait>>

\* Stopping services closes what they hold; the chain service stops the node's event
\* multiplexer, which is of no use afterwards.
StopsMux(stopped, mux) == IF "cpc" \in stopped THEN "stopped" ELSE mux

\* A service fails to start: those started before it, in any order, are stopped.
StartServiceFails(saved) ==
    \E started \in SUBSET Services \ {Services} :
        /\ Constructed /\ openDataDir(saved, 1)
        /\ svc' = [svc EXCEPT !.open = Services \ started]
        /\ node' = [node EXCEPT !.mux = StopsMux(started, @)]
        /\ UNCHANGED wait

\* startRPC up to the endpoint that cannot be opened: the ones before it are closed.
ClosedAgain(i) == Upto(i)
\* The address of the HTTP endpoint may be taken by an endpoint left open earlier.
Openable(e) == e \notin node.want \/ e \notin node.up
startRPC(i, failed) ==
    /\ \A j \in 1 .. i : Openable(Endpoints[j])
    /\ failed => i < 4 /\ Endpoints[i + 1] \in node.want
    /\ ~failed => i = 4
StartRPCFails(saved) ==
    \E i \in 0 .. 3 :
        /\ Constructed /\ startRPC(i, TRUE)
        /\ openDataDir(saved, IF Openable(Endpoints[i + 1]) THEN 1 ELSE 0)
        /\ node' = [node EXCEPT !.up = (@ \cup (Upto(i) \cap node.want)) \ ClosedAgain(i),
                                !.mux = StopsMux(Services, @)]
        /\ UNCHANGED <<svc, wait>>

StartSucceeds(saved) ==
    /\ Constructed /\ startRPC(4, FALSE) /\ openDataDir(saved, 0)
    /\ svc' = [open |-> Services, running |-> Services]
    /\ node' = [node EXCEPT !.server = TRUE, !.p2p = TRUE, !.up = @ \cup node.want,
                            !.apis = TRUE, !.quitCh = nodeHist.starts + 1]
    /\ UNCHANGED wait

Start == StartRefused \/ \E saved \in BOOLEAN :
    StartConstructs(saved) \/ StartServerFails(saved) \/ StartServiceFails(saved)
    \/ StartRPCFails(saved) \/ StartSucceeds(saved)

\* Every service is stopped, whether or not one before it returns an error.
StopServices == [open |-> {}, running |-> {}]
Closing == {node.quitCh}
\* Stop; Restart is a Stop and a Start, between which others may take the lock.
Stop ==
    /\ node.server
    /\ node' = [node EXCEPT !.server = FALSE, !.p2p = FALSE, !.up = {}, !.apis = FALSE,
                            !.mux = StopsMux(Services, @)]
    /\ svc' = StopServices
    /\ dir' = [dir EXCEPT !.lock = "free"]
    /\ nodeHist' = [nodeHist EXCEPT !.closed = @ \cup Closing]
    /\ UNCHANGED wait

Wait(w) ==
    /\ wait[w] = 0 /\ node.server
    /\ wait' = [wait EXCEPT ![w] = node.quitCh]
    /\ UNCHANGED <<node, dir, svc, nodeHist>>
WaitReturns(w) ==
    /\ wait[w] \in nodeHist.closed
    /\ wait' = [wait EXCEPT ![w] = 0]
    /\ UNCHANGED <<node, dir, svc, nodeHist>>

\* A request to open an endpoint that the node has begun to serve; it gets the lock now
\* or after a Stop that was first.
AskEndpoint(e) ==
    /\ node.server /\ e \notin node.asked
    /\ node' = [node EXCEPT !.asked = @ \cup {e}]
    /\ UNCHANGED <<dir, svc, wait, nodeHist>>
StartEndpoint(e) ==
    /\ e \in node.asked
    /\ \/ /\ e \notin node.up
          /\ node' = [node EXCEPT !.asked = @ \ {e}, !.up = @ \cup {e}, !.want = @ \cup {e}]
          /\ nodeHist' = [nodeHist EXCEPT !.late = @ \/ ~node.server]
       \/ /\ node' = [node EXCEPT !.asked = @ \ {e}]
          /\ UNCHANGED nodeHist
    /\ UNCHANGED <<dir, svc, wait>>
StopEndpoint(e) ==
    /\ node.server /\ e \in node.up
    /\ node' = [node EXCEPT !.up = @ \ {e}]
    /\ UNCHANGED <<dir, svc, wait, nodeHist>>

\* The process ends at any moment, and another node object takes its place.
NodeCrash ==
    /\ Fault
    /\ dir' = [dir EXCEPT !.lock = IF @ = "us" THEN "free" ELSE @]
    /\ nodeHist' = [nodeHist EXCEPT !.faults = @ + 1, !.late = FALSE, !.closed = {}]
    /\ node' = NewNode /\ svc' = [open |-> {}, running |-> {}]
    /\ wait' = [w \in Waiters |-> 0]
OtherProcess ==
    /\ \/ dir.lock = "free" /\ dir' = [dir EXCEPT !.lock = "other"]
       \/ dir.lock = "other" /\ dir' = [dir EXCEPT !.lock = "free"]
    /\ UNCHANGED <<node, svc, wait, nodeHist>>

NodeNext == \/ Start \/ Stop \/ NodeCrash \/ OtherProcess
            \/ \E w \in Waiters : Wait(w) \/ WaitReturns(w)
            \/ \E e \in {"http", "ws"} : AskEndpoint(e) \/ StartEndpoint(e) \/ StopEndpoint(e)
-----------------------------------------------------------------------------
\* A node has a server exactly while its services run, and serves its programming
\* interfaces only then.
NodeTypeOK ==
    /\ node.server => svc = [open |-> Services, running |-> Services] /\ node.apis /\ node.p2p
    /\ ~node.server => svc.running = {} /\ ~node.p2p

\* A node that is stopped, or has failed to start at whichever step, serves nothing; the one
\* exception is an endpoint opened by a request that a Stop overtook.
StoppedServesNothing == ~node.server => node.up \subseteq (IF nodeHist.late THEN {"http", "ws"} ELSE {})

\* A database is never open without the lock of the directory, so that no two processes
\* work on it, also when a Start has failed and left services behind.
DatabaseLocked == svc.open # {} => dir.lock = "us"

\* Whoever waits for the node holds the channel of the run that is on, or a closed one:
\* a Start after the Stop does not make a waiter wait for the next Stop.
WaitersReturn ==
    \A w \in Waiters : wait[w] # 0 => wait[w] \in nodeHist.closed \/ (node.server /\ wait[w] = node.quitCh)

\* The node has the same identity whenever it is started, as long as its key was written.
IdentityKept == Cardinality(nodeHist.ids) <= 1 \/ nodeHist.damaged

-----------------------------------------------------------------------------
(* The mining role of the chain service: calls of its programming interface  *)
(* take the interface's lock, the start of the program does not, and the     *)
(* goroutines they start run later.                                          *)
CONSTANTS ApiCalls,     \* calls of miner_start, miner_stop and miner_setCoinbase
          NewCoinbase   \* an account other than that of the first wallet
VARIABLES role,         \* flags of the engine and of the miner, and the three coinbases
          run,          \* the calls: where they are, and the coinbase they have read
          gos,          \* goroutines started: engine and miner
          mined         \* history
roleVars == <<role, run, gos, mined>>
Calls == ApiCalls \cup {"cmd"}

RoleInit ==
    \E flag \in {"mine", "validator", "none"}, key \in BOOLEAN :
        /\ role = [isMiner |-> flag = "mine", validator |-> flag = "validator", toCampaign |-> FALSE, isMining |-> FALSE,
                   runningMiner |-> FALSE, initialized |-> FALSE, launched |-> 0, key |-> key,
                   coinbase |-> "none", miner |-> "none", engine |-> "none"]
        /\ run = [c \in Calls |-> IF c # "cmd" THEN [pc |-> "new", coin |-> "none"]
                                 ELSE [pc |-> CASE flag = "mine" -> "isMining" [] flag = "validator" -> "setup" [] OTHER -> "done",
                                       coin |-> "none"]]
        /\ gos = [load |-> 0, store |-> 0, init |-> 0, miner |-> {}]
        /\ mined = [last |-> "none", early |-> FALSE]

IsMining == role.isMining /\ role.isMiner /\ role.toCampaign
Quiet == gos.load + gos.store + gos.init = 0 /\ gos.miner = {}
Goes(c, pc) == run' = [run EXCEPT ![c].pc = pc]
ApiLocked(c) == \E d \in ApiCalls \ {c} : run[d].pc \notin {"new", "done"}

ApiStart(c) ==
    /\ run[c].pc = "new" /\ ~ApiLocked(c)
    /\ Goes(c, "isMining") /\ mined' = [last |-> "start", early |-> FALSE]
    /\ UNCHANGED <<role, gos>>
CheckMining(c) ==
    /\ run[c].pc = "isMining"
    /\ Goes(c, IF IsMining THEN "done" ELSE "coinbase")
    /\ UNCHANGED <<role, gos, mined>>
\* Coinbase reads the field under the lock, and sets it under the lock if it was not set.
Coinbase(c) ==
    /\ run[c].pc = "coinbase"
    /\ run' = [run EXCEPT ![c] = IF role.coinbase # "none" THEN [pc |-> "forbid", coin |-> role.coinbase]
                                 ELSE [pc |-> "auto", coin |-> "wallet"]]
    /\ UNCHANGED <<role, gos, mined>>
AutoCoinbase(c) ==
    /\ run[c].pc = "auto"
    /\ role' = [role EXCEPT !.coinbase = "wallet"] /\ Goes(c, "forbid")
    /\ UNCHANGED <<gos, mined>>
ForbiddenNever == FALSE
Forbidden == role.validator
Authorize(c) ==
    /\ run[c].pc = "forbid"
    /\ Goes(c, IF Forbidden \/ ~role.key THEN "done" ELSE "campaign")
    /\ role' = [role EXCEPT !.engine = IF Forbidden \/ ~role.key THEN @ ELSE run[c].coin]
    /\ UNCHANGED <<gos, mined>>
SetToCampaign(c) ==
    /\ run[c].pc = "campaign"
    /\ role' = [role EXCEPT !.toCampaign = TRUE, !.isMiner = TRUE]
    /\ gos' = [gos EXCEPT !.load = @ + 1] /\ Goes(c, "start")
    /\ UNCHANGED mined
StartsMiner(c) == IF role.isMining THEN {} ELSE {<<c, run[c].coin>>}
GoStart(c) ==
    /\ run[c].pc = "start"
    /\ gos' = [gos EXCEPT !.miner = @ \cup StartsMiner(c)] /\ Goes(c, "done")
    /\ UNCHANGED <<role, mined>>

StopMining == [role EXCEPT !.toCampaign = IF IsMining THEN FALSE ELSE @]
ApiStop(c) ==
    /\ run[c].pc = "new" /\ ~ApiLocked(c)
    /\ role' = StopMining
    /\ Goes(c, "done")
    /\ mined' = [last |-> "stop", early |-> ~Quiet \/ run["cmd"].pc # "done"]
    /\ UNCHANGED gos
ApiSetCoinbase(c) ==
    /\ run[c].pc = "new" /\ ~ApiLocked(c)
    /\ role' = [role EXCEPT !.coinbase = NewCoinbase] /\ Goes(c, "setMiner")
    /\ UNCHANGED <<gos, mined>>
MinerSetCoinbase(c) ==
    /\ run[c].pc = "setMiner"
    /\ role' = [role EXCEPT !.miner = NewCoinbase] /\ Goes(c, "done")
    /\ UNCHANGED <<gos, mined>>

\* SetupValidator, which only the start of the program calls.
SetupValidator ==
    /\ run["cmd"].pc = "setup"
    /\ role' = [role EXCEPT !.validator = TRUE, !.initialized = TRUE]
    /\ gos' = [gos EXCEPT !.init = IF role.initialized THEN @ ELSE @ + 1]
    /\ Goes("cmd", "done")
    /\ UNCHANGED mined

\* Dpor.StartMining reads runningMiner, and sets it in a second step.
LoadRunning ==
    /\ gos.load > 0
    /\ gos' = [gos EXCEPT !.load = @ - 1, !.store = IF role.runningMiner THEN @ ELSE @ + 1]
    /\ UNCHANGED <<role, run, mined>>
StoreRunning ==
    /\ gos.store > 0
    /\ role' = [role EXCEPT !.runningMiner = TRUE]
    /\ gos' = [gos EXCEPT !.store = @ - 1, !.init = @ + 1]
    /\ UNCHANGED <<run, mined>>
initMinerAndValidator ==
    /\ gos.init > 0
    /\ role' = [role EXCEPT !.launched = @ + 1]
    /\ gos' = [gos EXCEPT !.init = @ - 1]
    /\ UNCHANGED <<run, mined>>
\* Miner.Start (module Miner has what happens while a synchronisation forbids it).
MinerStart(g) ==
    /\ role' = [role EXCEPT !.miner = g[2], !.isMining = TRUE]
    /\ gos' = [gos EXCEPT !.miner = @ \ {g}]
    /\ UNCHANGED <<run, mined>>

RoleNext == \/ SetupValidator \/ LoadRunning \/ StoreRunning \/ initMinerAndValidator
            \/ \E g \in gos.miner : MinerStart(g)
            \/ \E c \in ApiCalls : ApiStart(c) \/ ApiStop(c) \/ ApiSetCoinbase(c) \/ MinerSetCoinbase(c)
            \/ \E c \in Calls : CheckMining(c) \/ Coinbase(c) \/ AutoCoinbase(c) \/ Authorize(c)
                                \/ SetToCampaign(c) \/ GoStart(c)
-----------------------------------------------------------------------------
Settled == Quiet /\ \A c \in Calls : run[c].pc \in {"new", "done"}
\* A node started as a validator never becomes a proposer, whatever calls come through the
\* programming interface before and after the validator is set up.
RolesExclusive ==
    role.validator => ~role.toCampaign /\ ~role.isMiner /\ ~role.isMining

\* When all calls and goroutines are through, a node that campaigns also mines and runs the
\* handler of the consensus messages: Mining tells the truth, and a Start is not half done.
CampaignTakesEffect == Settled /\ role.toCampaign => IsMining /\ role.launched > 0

\* After a Stop that is the last call the node does not mine, unless it came before the
\* goroutines of an earlier Start had run.
StopTakesEffect == Settled /\ mined.last = "stop" /\ ~mined.early => ~IsMining

=============================================================================
