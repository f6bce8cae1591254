---------------------------- MODULE CommitteeNet ----------------------------
(***************************************************************************)
(* A node's connections to the other proposers and validators: the peer     *)
(* goroutine of protocols/cpc that joins a connection to the committee and  *)
(* leaves it again, the Dialer's two caches of remote signers, the queues   *)
(* and broadcast loops of RemoteValidator, and the broadcasts that wait for *)
(* enough validators.  A RemoteValidator is a record object: goroutines     *)
(* keep using the one they hold after the cache has dropped it.             *)
(***************************************************************************)
EXTENDS Integers, Sequences, FiniteSets

CONSTANTS
    Remotes,              \* remote nodes, named by coinbase
    Self,               \* the coinbase of this node
    ProposersOf,        \* ProposersOf[t], ValidatorsOf[t]: the committees of term t
    ValidatorsOf,
    DefaultValidators,  \* known by their enode
    FutureTerms,        \* terms between FutureTermOf and TermOf
    MaxTerm, MaxDials, MaxRecords,    \* bounds
    Messages, KindOf,     \* Kind[m]: which queue m goes to
    QueueSize,          \* maxQueuedBlocks, maxQueuedHeaders
    Faulty

ASSUME QueueAssumption == QueueSize \in Nat

Kinds == {KindOf[m] : m \in Messages}
NoId == ""             \* the id of a peer that is no signer
Zero == "0x0"           \* common.Address{}.Hex()
ASSUME NoIdAssumption == NoId \notin Remotes

VARIABLES
    term,           \* TermOf(current block)
    conn,           \* conn[n]: number of the connection, 0 before the first
    peerLoop,       \* peerLoop[n]: where the peer's goroutine is
    ending,         \* nodes whose connection the server was told to close
    id, removeId,   \* id: the address it handles messages for; removeId: the one it will remove
    proposers,      \* proposers[n]: the connection the remote proposer uses, 0 if none is cached
    validators,     \* validators[n]: the record object cached, 0 if none is
    records,        \* record objects: node, connection, queues and broadcast loops
    broadcasts,     \* broadcasts under way: message and targets left
    broadcasted     \* broadcastRecord

netPeers == <<conn, peerLoop, ending, id, removeId>>
dialer == <<proposers, validators>>
netVars == <<term, netPeers, dialer, records, broadcasts, broadcasted>>

NetInit ==
    /\ term = 0
    /\ conn = [n \in Remotes |-> 0]
    /\ peerLoop = [n \in Remotes |-> "down"] /\ ending = {}
    /\ id = [n \in Remotes |-> NoId] /\ removeId = [n \in Remotes |-> NoId]
    /\ proposers = [n \in Remotes |-> 0] /\ validators = [n \in Remotes |-> 0]
    /\ records = <<>> /\ broadcasts = {} /\ broadcasted = {}

CurrentOrFuture == term .. term + FutureTerms
isCurrentOrFutureProposer(n) == {t \in CurrentOrFuture : n \in ProposersOf[t]} # {}
isCurrentOrFutureValidator(n) == {t \in CurrentOrFuture : n \in ValidatorsOf[t]} # {}
isDefaultValidator(n) == n \in DefaultValidators

Known(a) == a \in {n \in Remotes : proposers[n] # 0 \/ validators[n] # 0}
Connected(n, c) == peerLoop[n] # "down" /\ conn[n] = c
NoQueues == [k \in Kinds |-> <<>>]

-----------------------------------------------------------------------------
addRemoteProposer(n, isProposer) ==
    proposers' = IF isProposer THEN [proposers EXCEPT ![n] = conn[n]] ELSE proposers


\* A cached record is reused with its queues; either way one more broadcast loop
\* is started for it.  AddStatic does not fail: the peer has just been set and the
\* address it parses is that of an open connection.  The caches hold 200 signers;
\* Remotes are fewer, and nothing is evicted.
addRemoteValidator(n, isValidator) ==
    IF ~isValidator THEN UNCHANGED <<validators, records>>
    ELSE IF validators[n] # 0
    THEN /\ records' = [records EXCEPT ![validators[n]].conn = conn[n], ![validators[n]].loops = @ + 1]
         /\ UNCHANGED validators
    ELSE /\ Len(records) < MaxRecords
         /\ records' = Append(records, [node |-> n, conn |-> conn[n], queue |-> NoQueues, loops |-> 1])
         /\ validators' = [validators EXCEPT ![n] = Len(records) + 1]

Connect(n) ==
    /\ peerLoop[n] = "down" /\ conn[n] < MaxDials[n]
    /\ conn' = [conn EXCEPT ![n] = @ + 1]
    /\ peerLoop' = [peerLoop EXCEPT ![n] = "handshake"]
    /\ UNCHANGED <<term, ending, id, removeId, dialer, records, broadcasts, broadcasted>>

\* Handler.AddPeer after the handshake.  A peer in neither committee is no error:
\* it stays, with the empty id.
AddRemote(n) ==
    /\ peerLoop[n] = "handshake"
    /\ peerLoop' = [peerLoop EXCEPT ![n] = "loop"]
    /\ addRemoteProposer(n, isCurrentOrFutureProposer(n))
    /\ addRemoteValidator(n, isDefaultValidator(n) \/ isCurrentOrFutureValidator(n))
    /\ LET a == IF isCurrentOrFutureProposer(n) \/ isDefaultValidator(n) \/ isCurrentOrFutureValidator(n)
                THEN n ELSE NoId
       IN  id' = [id EXCEPT ![n] = a] /\ removeId' = [removeId EXCEPT ![n] = a]
    /\ UNCHANGED <<term, conn, ending, broadcasts, broadcasted>>

\* HandleMsg on a NewSignerMsg: a known signer's is skipped, an unknown signer is
\* added if its term has come.
NewSignerMsg(n) ==
    /\ peerLoop[n] = "loop" /\ ~Known(id[n])
    /\ addRemoteProposer(n, isCurrentOrFutureProposer(n))
    /\ addRemoteValidator(n, isCurrentOrFutureValidator(n))
    /\ id' = [id EXCEPT ![n] = n]
    /\ UNCHANGED <<term, conn, peerLoop, ending, removeId, broadcasts, broadcasted>>

\* HandleMsg on any other message: of a known signer it is handled (LBFT2), of an
\* unknown one it is dropped and the peer's id is lost.
OtherMsg(n) ==
    /\ peerLoop[n] = "loop" /\ ~Known(id[n])
    /\ id' = [id EXCEPT ![n] = Zero]
    /\ UNCHANGED <<term, conn, peerLoop, ending, removeId, dialer, records, broadcasts, broadcasted>>

\* Faulty variant: the caches are cleared of a peer that is known under any id.
RemovePeerOfOthers(n) ==
    /\ proposers' = [m \in Remotes |-> IF m = removeId[n] \/ removeId[n] = NoId THEN 0 ELSE proposers[m]]
    /\ validators' = [m \in Remotes |-> IF m = removeId[n] \/ removeId[n] = NoId THEN 0 ELSE validators[m]]

RemoveRemote(n) ==
    /\ proposers' = [m \in Remotes |-> IF m = removeId[n] THEN 0 ELSE proposers[m]]
    /\ validators' = [m \in Remotes |-> IF m = removeId[n] THEN 0 ELSE validators[m]]

\* The handshake fails or the peer's loop ends, for whatever reason: the deferred
\* calls take out the id that AddPeer returned.
Close(n) ==
    /\ peerLoop[n] # "down"
    /\ peerLoop' = [peerLoop EXCEPT ![n] = "down"] /\ ending' = ending \ {n}
    /\ id' = [id EXCEPT ![n] = NoId] /\ removeId' = [removeId EXCEPT ![n] = NoId]
    /\ IF peerLoop[n] = "loop" THEN RemoveRemote(n) ELSE UNCHANGED dialer
    /\ UNCHANGED <<term, conn, records, broadcasts, broadcasted>>

NewTerm ==
    /\ term < MaxTerm
    /\ term' = term + 1
    /\ UNCHANGED <<netPeers, dialer, records, broadcasts, broadcasted>>
-----------------------------------------------------------------------------
ValidatorsOfTerm ==
    {validators[n] : n \in {m \in Remotes : validators[m] # 0 /\ (m \in ValidatorsOf[term] \/ isDefaultValidator(m))}}

\* AllUselessProposers: those whose term is over.  They may be validators now.
AllUselessProposers == {n \in Remotes : proposers[n] # 0 /\ ~isCurrentOrFutureProposer(n)}

\* disconnectValidators, disconnectUselessProposers: the server closes the connections later on.
disconnect(S) == ending' = ending \cup {n \in S : peerLoop[n] # "down"}

\* The server is given the default validators to dial, any of which may Connect from then on, and the
\* validators of the term are sent a NewSignerMsg.
dialAllRemoteValidators == UNCHANGED ending

EnoughValidatorsOfTerm == Cardinality(ValidatorsOfTerm) >= 2 * Faulty

\* KeepConnection at a tick: it acts when the head is a checkpoint, or validators are missing.
KeepConnection ==
    /\ term > 0 \/ ~EnoughValidatorsOfTerm
    /\ IF isCurrentOrFutureValidator(Self) THEN disconnect(AllUselessProposers)
       ELSE IF isCurrentOrFutureProposer(Self) THEN dialAllRemoteValidators
       ELSE disconnect({records[r].node : r \in ValidatorsOfTerm})
    /\ UNCHANGED <<term, conn, peerLoop, id, removeId, dialer, records, broadcasts, broadcasted>>

\* A broadcast of the node's own message, which it makes once, or a rebroadcast of
\* one it received, which reBroadcast begins unless it is marked.
Broadcast(m) ==
    /\ m \notin broadcasted /\ m \notin {b.msg : b \in broadcasts}
    /\ broadcasts' = broadcasts \cup {[msg |-> m, stage |-> "wait", targets |-> {}]}
    /\ UNCHANGED <<term, netPeers, dialer, records, broadcasted>>

\* Own messages need 2f validators, a proposer's and impeachments f; after twenty
\* looks the wait returns none, even if some are connected.
waitForEnoughValidators(b, least) ==
    /\ b.stage = "wait"
    /\ \E found \in {ValidatorsOfTerm, {}} :
          /\ found # {} => Cardinality(found) >= least
          /\ found = {} => least > 0
          /\ broadcasts' = (broadcasts \ {b}) \cup {[b EXCEPT !.stage = "send", !.targets = found]}
    /\ UNCHANGED <<term, netPeers, dialer, records, broadcasted>>

HasRoom(q) == Len(q) < QueueSize

\* AsyncSend...: a full queue drops the message.
AsyncSendMessage(b, r) ==
    /\ b.stage = "send" /\ r \in b.targets
    /\ broadcasts' = (broadcasts \ {b}) \cup {[b EXCEPT !.targets = @ \ {r}]}
    /\ records' = IF HasRoom(records[r].queue[KindOf[b.msg]])
                  THEN [records EXCEPT ![r].queue[KindOf[b.msg]] = Append(@, b.msg)]
                  ELSE records
    /\ UNCHANGED <<term, netPeers, dialer, broadcasted>>

\* The end of a broadcast: it is marked, whether it went out or not.
reBroadcast(b) ==
    /\ b.stage = "send" /\ b.targets = {}
    /\ broadcasts' = broadcasts \ {b}
    /\ broadcasted' = broadcasted \cup {b.msg}
    /\ UNCHANGED <<term, netPeers, dialer, records>>

Works(r, k) == records[r].queue[k] # <<>>

\* broadcastLoop, any of the record's loops: it writes to the connection the
\* record has now, and ends if that fails.
broadcastLoop(r, k) ==
    /\ records[r].loops > 0 /\ Works(r, k)
    /\ IF Connected(records[r].node, records[r].conn)
       THEN records' = [records EXCEPT ![r].queue[k] = Tail(@)]
       ELSE records' = [records EXCEPT ![r].queue[k] = Tail(@), ![r].loops = @ - 1]
    /\ UNCHANGED <<term, netPeers, dialer, broadcasts, broadcasted>>

NetNext ==
    \/ \E n \in Remotes : Connect(n) \/ AddRemote(n) \/ NewSignerMsg(n) \/ OtherMsg(n) \/ Close(n)
    \/ NewTerm \/ KeepConnection
    \/ \E m \in Messages : Broadcast(m)
    \/ \E b \in broadcasts :
          \/ \E least \in {Faulty, 2 * Faulty} : waitForEnoughValidators(b, least)
          \/ \E r \in b.targets : AsyncSendMessage(b, r)
          \/ reBroadcast(b)
    \/ \E r \in DOMAIN records, k \in Kinds : broadcastLoop(r, k)

\* Only the broadcast loops are assumed to run.
NetSpec ==
    /\ NetInit /\ [][NetNext]_netVars
    /\ \A r \in 1 .. MaxRecords, k \in Kinds : WF_netVars(r \in DOMAIN records /\ broadcastLoop(r, k))
-----------------------------------------------------------------------------
\* The types of the state of the Dialer, the peer goroutines and the queues.
NetTypeOK ==
    /\ ending \subseteq {n \in Remotes : peerLoop[n] # "down"}
    /\ id \in [Remotes -> Remotes \cup {NoId, Zero}] /\ removeId \in [Remotes -> Remotes \cup {NoId}]
    /\ validators \in [Remotes -> 0 .. Len(records)]
    /\ \A r \in DOMAIN records :
          /\ records[r].loops \in Nat
          /\ \A k \in Kinds : records[r].queue[k] \in Seq(Messages) /\ Len(records[r].queue[k]) <= QueueSize

\* A validator in the cache whose connection is open has a loop to empty its
\* queues, however often it has gone and come back, and although loops of earlier
\* connections share the record and end one by one.
LiveRecordHasLoop ==
    \A n \in Remotes : LET r == validators[n] IN
        r # 0 /\ Connected(n, records[r].conn) => records[r].loops > 0

\* A peer that AddPeer took for a signer is heard for as long as it is connected:
\* no other peer's leaving, and no change of the term, takes it out of the caches
\* or costs it its id.
SignerStaysHeard ==
    \A n \in Remotes : peerLoop[n] = "loop" /\ removeId[n] = n => id[n] = n /\ Known(n)

\* What was queued for a validator is written out, or its connection is closed or
\* replaced first.
QueuedIsSent ==
    LET ToSend(r, k) ==
            /\ r \in DOMAIN records
            /\ validators[records[r].node] = r /\ Connected(records[r].node, records[r].conn)
            /\ records[r].queue[k] # <<>>
    IN  \A r \in 1 .. MaxRecords, k \in Kinds : ToSend(r, k) ~> ~ToSend(r, k)
=============================================================================
