------------------------------- MODULE LBFT2 -------------------------------
(***************************************************************************)
(* The LBFT 2.0 state machine every validator of the committee runs        *)
(* (consensus/dpor/backend/lbft2.go), together with the parts of its host  *)
(* it drives: the message handler (backend/validator.go), the sign-once    *)
(* record (dpor_helper.go, dpor_util.go), the impeachment timers and the   *)
(* insertion of validated blocks (core/blockchain.go).                     *)
(*                                                                         *)
(* Validators follow the code; they may be arbitrarily slow, stay silent,  *)
(* or restart.  The network keeps every message ever sent: a message may   *)
(* be delivered late, out of order, several times or never.  A proposer    *)
(* may propose several blocks for one height.                              *)
(*                                                                         *)
(* A block is an identity (its hash); Number and Parent are the header     *)
(* fields the state machine reads.  A signature is the triple signer,      *)
(* block, phase.  Prepare and commit headers carry every signature their   *)
(* sender knows, and receivers cache what they are sent; so a validator    *)
(* may come to know any set of the signatures made so far, and it acts     *)
(* when the set it knows reaches a certificate.  The caches are therefore  *)
(* not variables: "the certificate is complete" is enabled as soon as      *)
(* enough signatures exist, and it may happen then or later.               *)
(*                                                                         *)
(* A definition marked "faulty variant" is a plausible mistake in the code *)
(* of the definition after it.  Next does not use it; it serves to confirm *)
(* that a property notices the mistake.                                    *)
(***************************************************************************)
EXTENDS Integers, Sequences, FiniteSets

CONSTANTS
    Validators,      \* the validator committee
    Faulty,          \* f: the committee has 3f+1 members
    Live,            \* the validators that are up; the others are silent throughout
    NormalBlocks,    \* blocks made by proposers
    ImpeachBlocks,   \* blocks made by validators on behalf of a proposer
    Genesis,         \* the common block every chain starts from
    Number,          \* height of a block above Genesis
    Parent,          \* parent of a block
    Tick,            \* timestamp of an impeach block: 0 is parent+period+timeout,
                     \* k > 0 is the k-th failback sample
    Sample,          \* Sample[v] = k > 0: v has just been started, between the failback
                     \* samples k-1 and k; Sample[v] = 0: v has been up for a while
    MaxRestarts,     \* bound on the restarts of a behaviour
    Nil

Blocks == NormalBlocks \cup ImpeachBlocks
Heights == {Number[b] : b \in Blocks}
Phases == {"Prepare", "Commit"}
States == {"Idle", "Prepare", "Commit", "Validate", "ImpeachPrepare", "ImpeachCommit"}

ASSUME CommitteeAssumption ==
    /\ Faulty \in Nat
    /\ IsFiniteSet(Validators)
    /\ Cardinality(Validators) = 3 * Faulty + 1
    /\ Live \subseteq Validators
    /\ Sample \in [Validators -> Nat]

ASSUME BlockAssumption ==
    /\ NormalBlocks \cap ImpeachBlocks = {}
    /\ Genesis \notin Blocks
    /\ Nil \notin Blocks
    /\ Number \in [Blocks -> Nat \ {0}]
    /\ Parent \in [Blocks -> Blocks \cup {Genesis}]
    /\ Tick \in [ImpeachBlocks -> Nat]
    /\ MaxRestarts \in Nat

VARIABLES
    chain,        \* chain[v]: the blocks v has inserted, by height
    signed,       \* signed[v][n]: the sign-once record of height n, kept in the database
    state,        \* LBFT2.state
    number,       \* LBFT2.number
    blockCache,   \* LBFT2.blockCache
    validated,    \* LBFT2.validateMsgMap
    impeach,      \* impeach[v][i]: progress of v's timer for impeach block i
    failback,     \* LBFT2.failbackNumber
    restarts,     \* number of restarts so far (bound only)
    proposed,     \* blocks sent to the validators in Preprepare messages
    sigs,         \* every signature made, as <<signer, block, phase>>
    validates     \* <<v, b>>: v has broadcast a (Impeach)Validate message for b

persistent == <<chain, signed>>
fsm        == <<state, number>>
caches     == <<blockCache, validated>>
timers     == <<impeach, failback>>
network    == <<proposed, sigs, validates>>
vars == <<chain, signed, state, number, blockCache, validated, impeach, failback,
          restarts, proposed, sigs, validates>>

-----------------------------------------------------------------------------
(* The local chain, as the state machine reads it through DporService.     *)

Tip(v) == IF chain[v] = <<>> THEN Genesis ELSE chain[v][Len(chain[v])]
Inserted(v) == {chain[v][n] : n \in DOMAIN chain[v]}
HasBlockInChain(v, b) == Number[b] <= Len(chain[v]) /\ chain[v][Number[b]] = b
ParentInChain(v, b) ==
    \/ Number[b] = 1 /\ Parent[b] = Genesis
    \/ Number[b] - 1 \in DOMAIN chain[v] /\ chain[v][Number[b] - 1] = Parent[b]

Signers(b, phase) == {v \in Validators : <<v, b, phase>> \in sigs}

Certificate(n) == n >= 2 * Faulty + 1
ImpeachCertificate(n) == n >= Faulty + 1

prepareCertificate(b) == Certificate(Cardinality(Signers(b, "Prepare")))
commitCertificate(b) == Certificate(Cardinality(Signers(b, "Commit")))
impeachPrepareCertificate(b) == ImpeachCertificate(Cardinality(Signers(b, "Prepare")))
impeachCommitCertificate(b) == ImpeachCertificate(Cardinality(Signers(b, "Commit")))

\* verifySignatures on the commit signatures of a validated block.
verifySignatures(b) ==
    IF b \in ImpeachBlocks THEN impeachCommitCertificate(b) ELSE commitCertificate(b)

-----------------------------------------------------------------------------
(* Which messages each state acts on, and what FSM does around a handler.  *)

ImpeachCommitHandler  == {"ImpeachCommit", "ImpeachValidate"}
ImpeachPrepareHandler == {"ImpeachPrepare"} \cup ImpeachCommitHandler
ImpeachHandler        == {"ImpeachPreprepare"} \cup ImpeachPrepareHandler
ValidateHandler       == {"Validate"} \cup ImpeachHandler
CommitHandler         == {"Commit", "Validate"} \cup ImpeachHandler
\* (Faulty variant: Prepare does not fall through to the impeach messages.)
PrepareHandlerWithoutImpeachment == {"Prepare", "Commit", "Validate"}
PrepareHandler        == {"Prepare"} \cup CommitHandler
IdleHandler           == {"Preprepare"} \cup PrepareHandler

Handler == [Idle           |-> IdleHandler,
            Prepare        |-> PrepareHandler,
            Commit         |-> CommitHandler,
            Validate       |-> ValidateHandler,
            ImpeachPrepare |-> ImpeachPrepareHandler,
            ImpeachCommit  |-> ImpeachCommitHandler]

\* (Faulty variant: realFSM without its check of the number.)
realFSMAtAnyNumber(v, type, b) ==
    /\ Number[b] >= Len(chain[v])
    /\ ~HasBlockInChain(v, b)
    /\ type \in Handler[state[v]]
\* handleLBFT2Msg and realFSM: a message about b reaches the handler of v's state.
realFSM(v, type, b) ==
    /\ Number[b] >= Len(chain[v])
    /\ ~HasBlockInChain(v, b)
    /\ Number[b] >= number[v]
    /\ type \in Handler[state[v]]

\* The timeout impeach block on v's head, unless the height is the failback one.
tryToImpeach(v) ==
    {i \in ImpeachBlocks : /\ Parent[i] = Tip(v)
                           /\ Tick[i] = 0
                           /\ Number[i] = Len(chain[v]) + 1
                           /\ Number[i] # failback[v]}

\* (Faulty variant: FSM catches up with the chain without the return to Idle.)
FSMKeepingTheState(v, st, n, handled) ==
    /\ UNCHANGED <<failback, restarts, proposed>>
    /\ state' = [state EXCEPT ![v] = st]
    /\ number' = [number EXCEPT ![v] = IF n < Len(chain'[v]) + 1 THEN Len(chain'[v]) + 1 ELSE n]
    /\ impeach' = [impeach EXCEPT ![v] = [i \in ImpeachBlocks |->
                     IF i \in handled THEN "done" ELSE impeach[v][i]]]
\* The rest of FSM once the handler has returned state st for height n: catch
\* up with the chain and, in the Idle state, arm the impeachment timer.  The
\* impeach blocks in handled have left pendingImpeachBlockCh in this step.
FSM(v, st, n, handled) ==
    LET behind == n < Len(chain'[v]) + 1
        armed  == IF behind \/ st = "Idle" THEN tryToImpeach(v)' ELSE {}
    IN  /\ UNCHANGED <<failback, restarts, proposed>>
        /\ state' = [state EXCEPT ![v] = IF behind THEN "Idle" ELSE st]
        /\ number' = [number EXCEPT ![v] = IF behind THEN Len(chain'[v]) + 1 ELSE n]
        /\ impeach' = [impeach EXCEPT ![v] = [i \in ImpeachBlocks |->
                         CASE i \in handled -> "done"
                           [] i \in armed \ handled /\ impeach[v][i] = "none" -> "armed"
                           [] OTHER -> impeach[v][i]]]

\* The handler returned no output.
NoOutput(v, handled) == FSM(v, state[v], number[v], handled) /\ UNCHANGED validates

-----------------------------------------------------------------------------
(* Signing, and what follows a certificate.                                *)

\* signHeader signs: the parent's snapshot is known and, outside impeachment,
\* no other block of that height is on record.
signHeader(v, b, st) ==
    /\ ParentInChain(v, b)
    /\ \/ st \in {"ImpeachPrepare", "ImpeachCommit"}
       \/ signed[v][Number[b]] \in {Nil, b}

\* The signatures v makes on b, and the record of the height.
Sign(v, b, phases) ==
    /\ sigs' = sigs \cup {<<v, b, p>> : p \in phases}
    /\ signed' = [signed EXCEPT ![v][Number[b]] = b]
Refuse == UNCHANGED <<sigs, signed>>

\* The headers v composes.  A preprepare that completes the prepare certificate
\* is signed for both phases in one step.
composePrepareMsg(v, b, phases) ==
    IF signHeader(v, b, "Prepare") THEN Sign(v, b, phases) ELSE Refuse
composeCommitMsg(v, b) ==
    IF signHeader(v, b, "Commit") THEN Sign(v, b, {"Commit"}) ELSE Refuse
composeImpeachPrepareMsg(v, i, phases) ==
    IF signHeader(v, i, "ImpeachPrepare") THEN Sign(v, i, phases) ELSE Refuse
composeImpeachCommitMsg(v, i) ==
    IF signHeader(v, i, "ImpeachCommit") THEN Sign(v, i, {"Commit"}) ELSE Refuse

\* v has the block: it broadcasts it as validated.  The database copy is of no
\* help, it was overwritten when the signatures were cached.
composeValidateMsg(v, b) == b \in blockCache'[v]

onceCommitCertificateSatisfied(v, b, handled) ==
    IF composeValidateMsg(v, b)
    THEN FSM(v, "Validate", Number[b], handled) /\ validates' = validates \cup {<<v, b>>}
    ELSE FSM(v, "Commit", Number[b], handled) /\ UNCHANGED validates
onceImpeachCommitCertificateSatisfied(v, b, handled) ==
    IF composeValidateMsg(v, b)
    THEN FSM(v, "Validate", Number[b], handled) /\ validates' = validates \cup {<<v, b>>}
    ELSE FSM(v, "ImpeachCommit", Number[b], handled) /\ UNCHANGED validates

\* With the commit signature v has just made the commit certificate may be
\* complete too.  (It is not complete before: the message that completed it
\* would have been acted on.)
oncePrepareCertificateSatisfied(v, b, handled) ==
    \/ FSM(v, "Commit", Number[b], handled) /\ UNCHANGED validates
    \/ /\ <<v, b, "Commit">> \in sigs'
       /\ commitCertificate(b)'
       /\ onceCommitCertificateSatisfied(v, b, handled)
onceImpeachPrepareCertificateSatisfied(v, b, handled) ==
    \/ FSM(v, "ImpeachCommit", Number[b], handled) /\ UNCHANGED validates
    \/ /\ <<v, b, "Commit">> \in sigs'
       /\ impeachCommitCertificate(b)'
       /\ onceImpeachCommitCertificateSatisfied(v, b, handled)

-----------------------------------------------------------------------------
(* One action per message handler.  Each runs under LBFT2.stateLock, so it *)
(* is one step, the tail of FSM included.                                  *)

\* Some node other than v has made a signature on b for the phase, and so has
\* broadcast a header with it; or has broadcast b as validated.
HeaderFor(v, b, phase) == Signers(b, phase) \ {v} # {}
ValidateFor(v, b) == {u \in Validators \ {v} : <<u, b>> \in validates} # {}
\* The blocks v may receive a message about.
MessagesTo(v) ==
    proposed \cup {b \in Blocks : ValidateFor(v, b) \/ \E p \in Phases : HeaderFor(v, b, p)}

\* A message about b that has no effect beyond the tail of FSM: it is not for
\* v's state, or too old, or its signatures do not complete a certificate.
Absorb(v, b) ==
    /\ b \in MessagesTo(v)
    /\ Number[b] >= Len(chain[v])
    /\ UNCHANGED <<persistent, caches, sigs>>
    /\ NoOutput(v, {})

\* A proposed block that is cached but not processed: it comes later than
\* parent+period+blockDelay, or its parent is unknown.
CachePreprepareMsg(v, b) ==
    /\ b \in proposed
    /\ realFSM(v, "Preprepare", b)
    /\ blockCache' = [blockCache EXCEPT ![v] = @ \cup {b}]
    /\ UNCHANGED <<chain, validated>>
    /\ Refuse
    /\ NoOutput(v, {})

\* A proposed block that comes in time and is valid.  The validator moves to
\* Prepare even when signHeader refuses.
HandlePreprepareMsg(v, b) ==
    /\ b \in proposed
    /\ realFSM(v, "Preprepare", b)
    /\ ParentInChain(v, b)
    /\ blockCache' = [blockCache EXCEPT ![v] = @ \cup {b}]
    /\ UNCHANGED <<chain, validated>>
    /\ \/ /\ composePrepareMsg(v, b, {"Prepare"})
          /\ FSM(v, "Prepare", Number[b], {})
          /\ UNCHANGED validates
       \/ /\ signHeader(v, b, "Prepare")
          /\ composePrepareMsg(v, b, Phases)
          /\ prepareCertificate(b)'
          /\ oncePrepareCertificateSatisfied(v, b, {})

\* (Faulty variant: no prepare certificate is asked for.)
HandlePrepareMsgUncertified(v, b) ==
    /\ HeaderFor(v, b, "Prepare")
    /\ realFSM(v, "Prepare", b)
    /\ UNCHANGED <<chain, caches>>
    /\ composeCommitMsg(v, b)
    /\ oncePrepareCertificateSatisfied(v, b, {})
HandlePrepareMsg(v, b) ==
    /\ HeaderFor(v, b, "Prepare")
    /\ realFSM(v, "Prepare", b)
    /\ prepareCertificate(b)
    /\ UNCHANGED <<chain, caches>>
    /\ composeCommitMsg(v, b)
    /\ oncePrepareCertificateSatisfied(v, b, {})

HandleCommitMsg(v, b) ==
    /\ HeaderFor(v, b, "Commit")
    /\ realFSM(v, "Commit", b)
    /\ commitCertificate(b)
    /\ UNCHANGED <<persistent, caches, sigs>>
    /\ onceCommitCertificateSatisfied(v, b, {})

HandleImpeachPrepareMsg(v, i) ==
    /\ HeaderFor(v, i, "Prepare")
    /\ realFSM(v, "ImpeachPrepare", i)
    /\ impeachPrepareCertificate(i)
    /\ UNCHANGED <<chain, caches>>
    /\ composeImpeachCommitMsg(v, i)
    /\ onceImpeachPrepareCertificateSatisfied(v, i, {})

HandleImpeachCommitMsg(v, i) ==
    /\ HeaderFor(v, i, "Commit")
    /\ realFSM(v, "ImpeachCommit", i)
    /\ impeachCommitCertificate(i)
    /\ UNCHANGED <<persistent, caches, sigs>>
    /\ onceImpeachCommitCertificateSatisfied(v, i, {})

\* (Faulty variant: the block need not extend the head.)
InsertableAnywhere(v, b) == Number[b] > Len(chain[v]) /\ verifySignatures(b)
\* InsertChain: at or below the head's height nothing is inserted and no error
\* is returned; above it the block must extend the head and carry enough
\* signatures.
Insertable(v, b) ==
    /\ Number[b] = Len(chain[v]) + 1
    /\ ParentInChain(v, b)
    /\ verifySignatures(b)
InsertChain(v, b) ==
    \/ Number[b] <= Len(chain[v]) /\ UNCHANGED chain
    \/ Insertable(v, b) /\ chain' = [chain EXCEPT ![v] = Append(@, b)]

\* What both validate handlers do; onFailure is what they leave in
\* validateMsgMap when the insertion fails.
ValidateMsg(v, b, onFailure) ==
    \/ /\ validated[v][Number[b]] \notin {Nil, b}
       /\ UNCHANGED <<chain, validated>>
       /\ NoOutput(v, {})
    \/ /\ validated[v][Number[b]] \in {Nil, b}
       /\ InsertChain(v, b)
       /\ validated' = [validated EXCEPT ![v][Number[b]] = b]
       /\ FSM(v, "Idle", Number[b], {})
       /\ validates' = validates \cup {<<v, b>>}
    \/ /\ validated[v][Number[b]] \in {Nil, b}
       /\ Number[b] > Len(chain[v]) /\ ~Insertable(v, b)
       /\ UNCHANGED chain
       /\ validated' = [validated EXCEPT ![v][Number[b]] = onFailure]
       /\ NoOutput(v, {})

HandleValidateMsg(v, b) ==
    /\ ValidateFor(v, b)
    /\ realFSM(v, "Validate", b)
    /\ UNCHANGED <<signed, blockCache, sigs>>
    /\ ValidateMsg(v, b, Nil)

HandleImpeachValidateMsg(v, i) ==
    /\ ValidateFor(v, i)
    /\ realFSM(v, "ImpeachValidate", i)
    /\ UNCHANGED <<signed, blockCache, sigs>>
    /\ ValidateMsg(v, i, i)

-----------------------------------------------------------------------------
(* Impeachment timers.                                                     *)

\* A timer armed for i fires while i is above the head; its block goes through
\* pendingImpeachBlockCh and PendingImpeachBlockBroadcastLoop, once for each
\* block, and reaches the state machine when the head may have moved on.  The
\* block is outdated by then, or the state does not act on it, or v signs it.
\* The second failback timer is a sample, two minutes, behind the first.
HandleImpeachPreprepareMsg(v, i) ==
    /\ impeach[v][i] = "armed"
    /\ \A j \in ImpeachBlocks :
          impeach[v][j] = "armed" /\ Number[j] = Number[i] => Tick[i] <= Tick[j]
    /\ UNCHANGED <<chain, validated>>
    /\ \/ /\ Number[i] < Len(chain[v])
          /\ impeach' = [impeach EXCEPT ![v][i] = "done"]
          /\ UNCHANGED <<signed, fsm, blockCache, failback, restarts, network>>
       \/ /\ Number[i] >= Len(chain[v])
          /\ ~realFSM(v, "ImpeachPreprepare", i)
          /\ Refuse
          /\ UNCHANGED blockCache
          /\ NoOutput(v, {i})
       \/ /\ realFSM(v, "ImpeachPreprepare", i)
          /\ blockCache' = [blockCache EXCEPT ![v] = @ \cup {i}]
          /\ \/ /\ composeImpeachPrepareMsg(v, i, {"Prepare"})
                /\ FSM(v, "ImpeachPrepare", Number[i], {i})
                /\ UNCHANGED validates
             \/ /\ composeImpeachPrepareMsg(v, i, Phases)
                /\ impeachPrepareCertificate(i)'
                /\ onceImpeachPrepareCertificateSatisfied(v, i, {i})

-----------------------------------------------------------------------------
(* The rest of the node and of the system.                                 *)

\* A proposer whose chain ends in b's parent sends b to the validators.
Propose(b) ==
    /\ b \notin proposed
    /\ Parent[b] \in {Genesis} \cup UNION {Inserted(v) : v \in Validators}
    /\ proposed' = proposed \cup {b}
    /\ UNCHANGED <<persistent, fsm, caches, timers, restarts, sigs, validates>>

\* Block propagation and synchronisation insert the next block of another
\* node's chain.  The state machine is not told.
SyncFrom(v, u) ==
    /\ Len(chain[u]) > Len(chain[v])
    /\ LET b == chain[u][Len(chain[v]) + 1]
       IN  ParentInChain(v, b) /\ chain' = [chain EXCEPT ![v] = Append(@, b)]
    /\ UNCHANGED <<signed, fsm, caches, timers, restarts, network>>

\* (Faulty variant: a sample that is already over.)
FailbackBlocksOfPastSamples(v, k) == {i \in ImpeachBlocks : Tick[i] = k - 1 /\ k > 1}
\* CreateFailbackImpeachBlocks on v's head, at the k-th sample.
FailbackBlocks(v, k) ==
    {i \in ImpeachBlocks : /\ Parent[i] = Tip(v)
                           /\ Number[i] = Len(chain[v]) + 1
                           /\ Tick[i] \in {k, k + 1}}
Armed(I) == [i \in ImpeachBlocks |-> IF i \in I THEN "armed" ELSE "none"]
Samples == {1} \cup ({Tick[i] : i \in ImpeachBlocks} \ {0})

\* (Faulty variant: the machine starts at the head's height.)
RestartAtHead(v) ==
    /\ restarts < MaxRestarts
    /\ restarts' = restarts + 1
    /\ state' = [state EXCEPT ![v] = "Idle"]
    /\ number' = [number EXCEPT ![v] = Len(chain[v])]
    /\ blockCache' = [blockCache EXCEPT ![v] = {}]
    /\ validated' = [validated EXCEPT ![v] = [n \in Heights |-> Nil]]
    /\ failback' = [failback EXCEPT ![v] = Len(chain[v]) + 1]
    /\ \E k \in Samples : impeach' = [impeach EXCEPT ![v] = Armed(FailbackBlocks(v, k))]
    /\ UNCHANGED <<persistent, network>>
\* (Faulty variant: the record is kept in memory only.)
RestartForgetting(v) ==
    /\ restarts < MaxRestarts
    /\ restarts' = restarts + 1
    /\ state' = [state EXCEPT ![v] = "Idle"]
    /\ number' = [number EXCEPT ![v] = Len(chain[v]) + 1]
    /\ blockCache' = [blockCache EXCEPT ![v] = {}]
    /\ validated' = [validated EXCEPT ![v] = [n \in Heights |-> Nil]]
    /\ failback' = [failback EXCEPT ![v] = Len(chain[v]) + 1]
    /\ \E k \in Samples : impeach' = [impeach EXCEPT ![v] = Armed(FailbackBlocks(v, k))]
    /\ signed' = [signed EXCEPT ![v] = [n \in Heights |-> Nil]]
    /\ UNCHANGED <<chain, network>>
\* The process restarts: what is in memory is lost, the chain and the
\* sign-once record are not; NewLBFT2 arms the two failback timers.
Restart(v) ==
    /\ restarts < MaxRestarts
    /\ restarts' = restarts + 1
    /\ state' = [state EXCEPT ![v] = "Idle"]
    /\ number' = [number EXCEPT ![v] = Len(chain[v]) + 1]
    /\ blockCache' = [blockCache EXCEPT ![v] = {}]
    /\ validated' = [validated EXCEPT ![v] = [n \in Heights |-> Nil]]
    /\ failback' = [failback EXCEPT ![v] = Len(chain[v]) + 1]
    /\ \E k \in Samples : impeach' = [impeach EXCEPT ![v] = Armed(FailbackBlocks(v, k))]
    /\ UNCHANGED <<persistent, network>>

Init ==
    /\ chain = [v \in Validators |-> <<>>]
    /\ signed = [v \in Validators |-> [n \in Heights |-> Nil]]
    /\ state = [v \in Validators |-> "Idle"]
    /\ number = [v \in Validators |-> 1]
    /\ blockCache = [v \in Validators |-> {}]
    /\ validated = [v \in Validators |-> [n \in Heights |-> Nil]]
    /\ failback = [v \in Validators |-> IF Sample[v] > 0 THEN 1 ELSE 0]
    /\ impeach = [v \in Validators |->
                    Armed(IF Sample[v] > 0 THEN FailbackBlocks(v, Sample[v])
                                           ELSE tryToImpeach(v))]
    /\ restarts = 0
    /\ proposed = {}
    /\ sigs = {}
    /\ validates = {}

Next ==
    \/ \E b \in NormalBlocks : Propose(b)
    \/ \E v \in Live :
          \/ \E b \in Blocks : Absorb(v, b)
          \/ \E b \in NormalBlocks : \/ CachePreprepareMsg(v, b)
                                     \/ HandlePreprepareMsg(v, b)
                                     \/ HandlePrepareMsg(v, b)
                                     \/ HandleCommitMsg(v, b)
                                     \/ HandleValidateMsg(v, b)
          \/ \E i \in ImpeachBlocks : \/ HandleImpeachPreprepareMsg(v, i)
                                      \/ HandleImpeachPrepareMsg(v, i)
                                      \/ HandleImpeachCommitMsg(v, i)
                                      \/ HandleImpeachValidateMsg(v, i)
          \/ \E u \in Validators : SyncFrom(v, u)
          \/ Restart(v)

Spec == Init /\ [][Next]_vars

-----------------------------------------------------------------------------
(* Properties.                                                             *)

\* Types: the record holds blocks of the height, LBFT2.number is never 0, the
\* states are the six the code uses.
TypeOK ==
    /\ chain \in [Validators -> Seq(Blocks)]
    /\ signed \in [Validators -> [Heights -> Blocks \cup {Nil}]]
    /\ state \in [Validators -> States]
    /\ number \in [Validators -> Nat \ {0}]
    /\ blockCache \in [Validators -> SUBSET Blocks]
    /\ validated \in [Validators -> [Heights -> Blocks \cup {Nil}]]
    /\ impeach \in [Validators -> [ImpeachBlocks -> {"none", "armed", "done"}]]
    /\ failback \in [Validators -> Nat]
    /\ restarts \in 0..MaxRestarts
    /\ proposed \subseteq NormalBlocks
    /\ sigs \subseteq Validators \X Blocks \X Phases
    /\ validates \subseteq Validators \X Blocks

\* The state machine with its sign-once record, timers, echoes, restarts and
\* synchronisation does nothing the voting rules of module Voting do not allow.
V == INSTANCE Voting
\* LBFT2 refines Voting, with the same variables.
ImplementsVoting == V!VotingSpec

\* Lemma 1 of docs/consensus: no two proposed blocks of one height are both
\* inserted, by whichever validators and by whichever path.
NormalAgreement == V!NormalAgreement

\* Every chain is linked and certified: by a validate message, by synchronisation
\* or before a restart, a validator only ever inserts the next block, on its
\* parent, with the commit signatures verifySignatures asks for.
CertifiedChains == V!CertifiedChains

\* The sign-once record overwritten by impeachment and reloaded after a restart
\* still says what it must: an empty record means no signature at that height,
\* a normal block means no signature on any other block.
RecordFaithful ==
    \A v \in Validators, b \in Blocks, p \in Phases :
        <<v, b, p>> \in sigs =>
            \/ signed[v][Number[b]] = b
            \/ signed[v][Number[b]] \in ImpeachBlocks

\* What the state and number of a validator stand for.  In Commit, some block
\* of that height has a prepare or a commit certificate; in ImpeachPrepare the
\* validator has signed an impeach block of that height; in Validate it has
\* broadcast a block of that height as validated, with a certificate.
StateJustified ==
    \A v \in Validators :
        LET At(S) == {b \in S : Number[b] = number[v]}
        IN  CASE state[v] = "Commit" ->
                     \E b \in At(NormalBlocks) : prepareCertificate(b) \/ commitCertificate(b)
              [] state[v] = "ImpeachPrepare" ->
                     \E i \in At(ImpeachBlocks) : <<v, i, "Prepare">> \in sigs
              [] state[v] = "ImpeachCommit" ->
                     \E i \in At(ImpeachBlocks) :
                         impeachPrepareCertificate(i) \/ impeachCommitCertificate(i)
              [] state[v] = "Validate" ->
                     \E b \in At(Blocks) : <<v, b>> \in validates /\ verifySignatures(b)
              [] OTHER -> TRUE

\* An Idle validator that is level with its chain has an impeachment timer for
\* the next height, or has already used it: FSM arms one whenever it ends in
\* Idle, and NewLBFT2 arms the failback timers instead.  Without it a validator
\* would wait for a silent proposer for ever.
IdleHasTimer ==
    \A v \in Validators :
        state[v] = "Idle" /\ number[v] = Len(chain[v]) + 1 /\ number[v] \in Heights
            => \E i \in ImpeachBlocks : /\ Number[i] = number[v]
                                        /\ Parent[i] = Tip(v)
                                        /\ impeach[v][i] # "none"

\* LBFT2.number only moves forward, except that a restart returns to the height
\* after the head.
NumberMonotone == [][\A v \in Validators : number'[v] >= number[v] \/ restarts' # restarts]_vars

\* Theorem 1 of docs/consensus: one validated block for each height.
OneBlockPerHeight ==
    \A u, v \in Validators : \A n \in DOMAIN chain[u] \cap DOMAIN chain[v] :
        chain[u][n] = chain[v][n]

=============================================================================
