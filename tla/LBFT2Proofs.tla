---------------------------- MODULE LBFT2Proofs -----------------------------
(***************************************************************************)
(* Proof that the LBFT 2.0 state machine implements the voting rules, for  *)
(* every committee, every set of blocks and any number of restarts.  All   *)
(* that the argument needs of a step is summarised by Effect: it signs one *)
(* block under the sign-once rule, or inserts one certified block, or      *)
(* touches neither chains nor signatures.  The last part summarises in the *)
(* same way, by Outcome, what a handler does to its validator's state and  *)
(* number, for the proofs about states and timers in LBFT2FsmProofs.       *)
(***************************************************************************)
EXTENDS LBFT2, FiniteSetTheorems, TLAPS

P == INSTANCE VotingProofs

\* v adds signatures on b and records b; the certificate is complete if one of
\* them is a commit signature.
Signing(v, b) ==
    \E phases \in SUBSET Phases :
        /\ Sign(v, b, phases)
        /\ b \in NormalBlocks => signed[v][Number[b]] \in {Nil, b}
        /\ "Commit" \in phases => V!Certificate(b, "Prepare")'

Extending(v, b) ==
    /\ Number[b] = Len(chain[v]) + 1
    /\ ParentInChain(v, b)
    /\ V!Certificate(b, "Commit")
    /\ chain' = [chain EXCEPT ![v] = Append(@, b)]

Effect(v) ==
    \/ UNCHANGED <<chain, signed, sigs>>
    \/ UNCHANGED chain /\ \E b \in Blocks : Signing(v, b)
    \/ UNCHANGED <<signed, sigs>> /\ \E b \in Blocks : Extending(v, b)

\* The types of what the tail of FSM assigns.
FSMTyped ==
    /\ state \in [Validators -> States]
    /\ number \in [Validators -> Nat \ {0}]
    /\ impeach \in [Validators -> [ImpeachBlocks -> {"none", "armed", "done"}]]
    /\ failback \in [Validators -> Nat]
    /\ restarts \in 0..MaxRestarts
    /\ proposed \subseteq NormalBlocks

-----------------------------------------------------------------------------
\* What the assumptions say of one block.
LEMMA BlockFacts ==
    ASSUME NEW b \in Blocks
    PROVE  /\ Number[b] \in Heights
           /\ Number[b] \in Nat \ {0}
           /\ b \in NormalBlocks <=> b \notin ImpeachBlocks
           /\ b # Nil
BY BlockAssumption DEF Blocks, Heights

\* The instance of Voting comes with its own copy of the library operator.
LEMMA VotingCardinality == \A S : V!Cardinality(S) = Cardinality(S)
BY Zenon DEF Cardinality, V!Cardinality

\* The certificates of the state machine are those of the voting rules.
LEMMA NormalCertificates ==
    ASSUME NEW b \in NormalBlocks
    PROVE  /\ prepareCertificate(b) <=> V!Certificate(b, "Prepare")
           /\ prepareCertificate(b)' <=> V!Certificate(b, "Prepare")'
           /\ commitCertificate(b) <=> V!Certificate(b, "Commit")
           /\ verifySignatures(b) <=> V!Certificate(b, "Commit")
<1>1. b \notin ImpeachBlocks
  BY BlockAssumption
<1> QED
  BY <1>1, VotingCardinality DEF prepareCertificate, commitCertificate, verifySignatures, Certificate,
              V!Certificate, Signers, V!Signers

\* The same for impeach blocks, which need f+1 signatures.
LEMMA ImpeachCertificates ==
    ASSUME NEW i \in ImpeachBlocks
    PROVE  /\ impeachPrepareCertificate(i) <=> V!Certificate(i, "Prepare")
           /\ impeachPrepareCertificate(i)' <=> V!Certificate(i, "Prepare")'
           /\ impeachCommitCertificate(i) <=> V!Certificate(i, "Commit")
           /\ verifySignatures(i) <=> V!Certificate(i, "Commit")
BY VotingCardinality DEF impeachPrepareCertificate, impeachCommitCertificate,
       verifySignatures, ImpeachCertificate, V!Certificate, Signers, V!Signers

\* More signatures keep a certificate complete.
LEMMA CertificatesGrow ==
    ASSUME NEW b \in Blocks, NEW p \in Phases, sigs \subseteq sigs', V!Certificate(b, p)
    PROVE  V!Certificate(b, p)'
<1>1. /\ V!Signers(b, p) \subseteq V!Signers(b, p)'
      /\ V!Signers(b, p)' \subseteq Validators
  BY DEF V!Signers
<1>2. IsFiniteSet(V!Signers(b, p)) /\ IsFiniteSet(V!Signers(b, p)')
  BY <1>1, FS_Subset, CommitteeAssumption
<1>3. /\ Cardinality(V!Signers(b, p)) <= Cardinality(V!Signers(b, p)')
      /\ Cardinality(V!Signers(b, p)) \in Nat
      /\ Cardinality(V!Signers(b, p)') \in Nat
  BY <1>1, <1>2, FS_Subset, FS_CardinalityType
<1> QED
  BY <1>3, VotingCardinality, CommitteeAssumption DEF V!Certificate

-----------------------------------------------------------------------------
(* Types.                                                                  *)

\* The tail of FSM keeps its variables in their types.
LEMMA FSMTypes ==
    ASSUME TypeOK, NEW v \in Validators, NEW st \in States, NEW n \in Nat \ {0},
           NEW handled, FSM(v, st, n, handled), chain' \in [Validators -> Seq(Blocks)]
    PROVE  FSMTyped'
<1>1. Len(chain'[v]) + 1 \in Nat \ {0}
  OBVIOUS
<1>2. state' \in [Validators -> States]
  BY DEF FSM, TypeOK, States
<1>3. number' \in [Validators -> Nat \ {0}]
  BY <1>1 DEF FSM, TypeOK
<1>4. impeach' \in [Validators -> [ImpeachBlocks -> {"none", "armed", "done"}]]
  BY DEF FSM, TypeOK
<1>5. failback' = failback /\ restarts' = restarts /\ proposed' = proposed
  BY DEF FSM
<1> QED
  BY <1>2, <1>3, <1>4, <1>5 DEF TypeOK, FSMTyped

\* Signatures and the record keep their types.
LEMMA SignTypes ==
    ASSUME TypeOK, NEW v \in Validators, NEW b \in Blocks,
           Refuse \/ \E phases \in SUBSET Phases : Sign(v, b, phases)
    PROVE  /\ sigs' \subseteq Validators \X Blocks \X Phases
           /\ signed' \in [Validators -> [Heights -> Blocks \cup {Nil}]]
<1>1. CASE Refuse
  BY <1>1 DEF Refuse, TypeOK
<1>2. ASSUME NEW phases \in SUBSET Phases, Sign(v, b, phases)
      PROVE  /\ sigs' \subseteq Validators \X Blocks \X Phases
             /\ signed' \in [Validators -> [Heights -> Blocks \cup {Nil}]]
  BY <1>2, BlockFacts DEF Sign, TypeOK
<1> QED
  BY <1>1, <1>2

\* An extended chain is a chain.
LEMMA ExtendingType ==
    ASSUME TypeOK, NEW v \in Validators, NEW b \in Blocks, Extending(v, b)
    PROVE  chain' \in [Validators -> Seq(Blocks)]
<1>1. chain[v] \in Seq(Blocks)
  BY DEF TypeOK
<1>2. Append(chain[v], b) \in Seq(Blocks)
  BY <1>1
<1> QED
  BY <1>2 DEF TypeOK, Extending

\* What a handler that ends in the commit or in the validate phase leaves.
LEMMA OnceTypes ==
    ASSUME TypeOK, NEW v \in Validators, NEW b \in Blocks, NEW handled,
           chain' \in [Validators -> Seq(Blocks)],
           \/ onceCommitCertificateSatisfied(v, b, handled)
           \/ onceImpeachCommitCertificateSatisfied(v, b, handled)
           \/ oncePrepareCertificateSatisfied(v, b, handled)
           \/ onceImpeachPrepareCertificateSatisfied(v, b, handled)
    PROVE  FSMTyped' /\ validates' \subseteq Validators \X Blocks
<1>1. PICK st \in States : FSM(v, st, Number[b], handled)
  BY DEF onceCommitCertificateSatisfied, onceImpeachCommitCertificateSatisfied,
         oncePrepareCertificateSatisfied, onceImpeachPrepareCertificateSatisfied, States
<1>2. validates' \in {validates, validates \cup {<<v, b>>}}
  BY DEF onceCommitCertificateSatisfied, onceImpeachCommitCertificateSatisfied,
         oncePrepareCertificateSatisfied, onceImpeachPrepareCertificateSatisfied
<1>3. FSMTyped'
  BY <1>1, FSMTypes, BlockFacts
<1> QED
  BY <1>2, <1>3 DEF TypeOK

\* A handler without output leaves the types alone.
LEMMA NoOutputTypes ==
    ASSUME TypeOK, NEW v \in Validators, NEW handled,
           NoOutput(v, handled), chain' \in [Validators -> Seq(Blocks)]
    PROVE  FSMTyped' /\ validates' \subseteq Validators \X Blocks
<1>1. state[v] \in States /\ number[v] \in Nat \ {0} /\ FSM(v, state[v], number[v], handled)
  BY DEF TypeOK, NoOutput
<1>2. FSMTyped'
  BY <1>1, FSMTypes
<1> QED
  BY <1>2 DEF TypeOK, NoOutput

-----------------------------------------------------------------------------
(* What each handler does: it keeps the types, and its effect on chains and *)
(* signatures is one of three.                                             *)

\* A message without effect leaves chain, record and signatures alone.
LEMMA AbsorbStep ==
    ASSUME TypeOK, NEW v \in Validators, NEW b \in Blocks, Absorb(v, b)
    PROVE  TypeOK' /\ Effect(v)
<1>1. /\ chain' = chain /\ signed' = signed /\ sigs' = sigs
      /\ blockCache' = blockCache /\ validated' = validated
      /\ NoOutput(v, {})
  BY DEF Absorb, persistent, caches
<1>2. FSMTyped' /\ validates' \subseteq Validators \X Blocks
  BY <1>1, NoOutputTypes DEF TypeOK
<1> QED
  BY <1>1, <1>2 DEF TypeOK, FSMTyped, Effect

\* Caching a proposed block (the early returns of handlePreprepareMsg) signs nothing.
LEMMA CachePreprepareStep ==
    ASSUME TypeOK, NEW v \in Validators, NEW b \in NormalBlocks, CachePreprepareMsg(v, b)
    PROVE  TypeOK' /\ Effect(v)
<1>1. /\ chain' = chain /\ signed' = signed /\ sigs' = sigs /\ validated' = validated
      /\ NoOutput(v, {})
  BY DEF CachePreprepareMsg, Refuse
<1>2. FSMTyped' /\ validates' \subseteq Validators \X Blocks
  BY <1>1, NoOutputTypes DEF TypeOK
<1>3. blockCache' \in [Validators -> SUBSET Blocks]
  BY DEF CachePreprepareMsg, TypeOK, Blocks
<1> QED
  BY <1>1, <1>2, <1>3 DEF TypeOK, FSMTyped, Effect

\* handlePreprepareMsg signs a proposed block only when the record allows it, and
\* for the commit phase only with a prepare certificate.
LEMMA PreprepareStep ==
    ASSUME TypeOK, NEW v \in Validators, NEW b \in NormalBlocks, HandlePreprepareMsg(v, b)
    PROVE  TypeOK' /\ Effect(v)
<1>1. b \in Blocks
  BY DEF Blocks
<1>2. chain' = chain /\ validated' = validated
  BY DEF HandlePreprepareMsg
<1>3. blockCache' \in [Validators -> SUBSET Blocks]
  BY <1>1 DEF HandlePreprepareMsg, TypeOK
<1>4. FSMTyped' /\ validates' \subseteq Validators \X Blocks
  <2>1. CASE FSM(v, "Prepare", Number[b], {}) /\ UNCHANGED validates
    BY <1>1, <1>2, <2>1, FSMTypes, BlockFacts DEF TypeOK, States
  <2>2. CASE oncePrepareCertificateSatisfied(v, b, {})
    BY <1>1, <1>2, <2>2, OnceTypes DEF TypeOK
  <2> QED
    BY <2>1, <2>2 DEF HandlePreprepareMsg
<1>5. Refuse \/ Signing(v, b)
  <2>1. CASE composePrepareMsg(v, b, {"Prepare"})
    <3>1. {"Prepare"} \in SUBSET Phases /\ "Commit" \notin {"Prepare"}
      BY DEF Phases
    <3> QED
      BY <2>1, <3>1 DEF composePrepareMsg, signHeader, Signing
  <2>2. CASE composePrepareMsg(v, b, Phases) /\ prepareCertificate(b)'
    <3>1. V!Certificate(b, "Prepare")'
      BY <2>2, NormalCertificates
    <3> QED
      BY <2>2, <3>1 DEF composePrepareMsg, signHeader, Signing
  <2> QED
    BY <2>1, <2>2 DEF HandlePreprepareMsg
<1>6. /\ sigs' \subseteq Validators \X Blocks \X Phases
      /\ signed' \in [Validators -> [Heights -> Blocks \cup {Nil}]]
  BY <1>1, <1>5, SignTypes DEF Signing
<1>7. Effect(v)
  BY <1>1, <1>2, <1>5 DEF Effect, Refuse
<1> QED
  BY <1>2, <1>3, <1>4, <1>6, <1>7 DEF TypeOK, FSMTyped

\* handlePrepareMsg makes a commit signature only with a prepare certificate.
LEMMA PrepareStep ==
    ASSUME TypeOK, NEW v \in Validators, NEW b \in NormalBlocks, HandlePrepareMsg(v, b)
    PROVE  TypeOK' /\ Effect(v)
<1>1. b \in Blocks /\ "Prepare" \in Phases /\ {"Commit"} \in SUBSET Phases
  BY DEF Blocks, Phases
<1>2. chain' = chain /\ blockCache' = blockCache /\ validated' = validated
  BY DEF HandlePrepareMsg, caches
<1>3. FSMTyped' /\ validates' \subseteq Validators \X Blocks
  BY <1>1, <1>2, OnceTypes DEF HandlePrepareMsg, TypeOK
<1>4. Refuse \/ Signing(v, b)
  <2>1. CASE Sign(v, b, {"Commit"}) /\ signHeader(v, b, "Commit")
    <3>1. sigs \subseteq sigs' /\ V!Certificate(b, "Prepare")
      BY <2>1, NormalCertificates DEF Sign, HandlePrepareMsg
    <3>2. V!Certificate(b, "Prepare")'
      BY <1>1, <3>1, CertificatesGrow
    <3> QED
      BY <1>1, <2>1, <3>2 DEF Signing, signHeader
  <2> QED
    BY <2>1 DEF HandlePrepareMsg, composeCommitMsg
<1>5. /\ sigs' \subseteq Validators \X Blocks \X Phases
      /\ signed' \in [Validators -> [Heights -> Blocks \cup {Nil}]]
  BY <1>1, <1>4, SignTypes DEF Signing
<1>6. Effect(v)
  BY <1>1, <1>2, <1>4 DEF Effect, Refuse
<1> QED
  BY <1>2, <1>3, <1>5, <1>6 DEF TypeOK, FSMTyped

\* The commit handlers sign and insert nothing: they broadcast the block as validated.
LEMMA CommitStep ==
    ASSUME TypeOK, NEW v \in Validators, NEW b \in Blocks,
           HandleCommitMsg(v, b) \/ HandleImpeachCommitMsg(v, b)
    PROVE  TypeOK' /\ Effect(v)
<1>1. /\ chain' = chain /\ signed' = signed /\ sigs' = sigs
      /\ blockCache' = blockCache /\ validated' = validated
  BY DEF HandleCommitMsg, HandleImpeachCommitMsg, persistent, caches
<1>2. FSMTyped' /\ validates' \subseteq Validators \X Blocks
  BY <1>1, OnceTypes DEF HandleCommitMsg, HandleImpeachCommitMsg, TypeOK
<1> QED
  BY <1>1, <1>2 DEF TypeOK, FSMTyped, Effect

\* handleImpeachPrepareMsg makes a commit signature only with an impeach prepare certificate.
LEMMA ImpeachPrepareStep ==
    ASSUME TypeOK, NEW v \in Validators, NEW i \in ImpeachBlocks,
           HandleImpeachPrepareMsg(v, i)
    PROVE  TypeOK' /\ Effect(v)
<1>1. /\ i \in Blocks /\ i \notin NormalBlocks
      /\ "Prepare" \in Phases /\ {"Commit"} \in SUBSET Phases
  BY BlockAssumption DEF Blocks, Phases
<1>2. chain' = chain /\ blockCache' = blockCache /\ validated' = validated
  BY DEF HandleImpeachPrepareMsg, caches
<1>3. FSMTyped' /\ validates' \subseteq Validators \X Blocks
  BY <1>1, <1>2, OnceTypes DEF HandleImpeachPrepareMsg, TypeOK
<1>4. Refuse \/ Signing(v, i)
  <2>1. CASE Sign(v, i, {"Commit"})
    <3>1. sigs \subseteq sigs' /\ V!Certificate(i, "Prepare")
      BY <2>1, ImpeachCertificates DEF Sign, HandleImpeachPrepareMsg
    <3>2. V!Certificate(i, "Prepare")'
      BY <1>1, <3>1, CertificatesGrow
    <3> QED
      BY <1>1, <2>1, <3>2 DEF Signing
  <2> QED
    BY <2>1 DEF HandleImpeachPrepareMsg, composeImpeachCommitMsg
<1>5. /\ sigs' \subseteq Validators \X Blocks \X Phases
      /\ signed' \in [Validators -> [Heights -> Blocks \cup {Nil}]]
  BY <1>1, <1>4, SignTypes DEF Signing
<1>6. Effect(v)
  BY <1>1, <1>2, <1>4 DEF Effect, Refuse
<1> QED
  BY <1>2, <1>3, <1>5, <1>6 DEF TypeOK, FSMTyped

\* Insertion goes through verifySignatures, so an inserted block is certified.
LEMMA ValidateStep ==
    ASSUME TypeOK, NEW v \in Validators, NEW b \in Blocks,
           \/ b \in NormalBlocks /\ HandleValidateMsg(v, b)
           \/ b \in ImpeachBlocks /\ HandleImpeachValidateMsg(v, b)
    PROVE  TypeOK' /\ Effect(v)
<1>1. signed' = signed /\ sigs' = sigs /\ blockCache' = blockCache
  BY DEF HandleValidateMsg, HandleImpeachValidateMsg
<1>2. PICK onFailure \in Blocks \cup {Nil} : ValidateMsg(v, b, onFailure)
  BY DEF HandleValidateMsg, HandleImpeachValidateMsg
<1>3. chain' = chain \/ Extending(v, b)
  <2>1. Insertable(v, b) => V!Certificate(b, "Commit")
    BY NormalCertificates, ImpeachCertificates DEF Insertable
  <2> QED
    BY <1>2, <2>1 DEF ValidateMsg, InsertChain, Insertable, Extending
<1>4. chain' \in [Validators -> Seq(Blocks)]
  BY <1>3, ExtendingType DEF TypeOK
<1>5. validated' \in [Validators -> [Heights -> Blocks \cup {Nil}]]
  <2>1. \/ validated' = validated
        \/ \E c \in Blocks \cup {Nil} : validated' = [validated EXCEPT ![v][Number[b]] = c]
    BY <1>2 DEF ValidateMsg
  <2>2. Number[b] \in Heights
    BY BlockFacts
  <2>3. ASSUME NEW c \in Blocks \cup {Nil}, validated' = [validated EXCEPT ![v][Number[b]] = c]
        PROVE  validated' \in [Validators -> [Heights -> Blocks \cup {Nil}]]
    BY <2>2, <2>3 DEF TypeOK
  <2> QED
    BY <2>1, <2>3 DEF TypeOK
<1>6. FSMTyped' /\ validates' \subseteq Validators \X Blocks
  <2>1. CASE NoOutput(v, {})
    BY <1>4, <2>1, NoOutputTypes
  <2>2. CASE FSM(v, "Idle", Number[b], {}) /\ validates' = validates \cup {<<v, b>>}
    <3>1. FSMTyped'
      BY <1>4, <2>2, FSMTypes, BlockFacts DEF States
    <3> QED
      BY <2>2, <3>1 DEF TypeOK
  <2> QED
    BY <1>2, <2>1, <2>2 DEF ValidateMsg
<1>7. Effect(v)
  BY <1>1, <1>3 DEF Effect
<1> QED
  BY <1>1, <1>4, <1>5, <1>6, <1>7 DEF TypeOK, FSMTyped

\* handleImpeachPreprepareMsg signs the validator's own impeach block, or drops it.
LEMMA ImpeachPreprepareStep ==
    ASSUME TypeOK, NEW v \in Validators, NEW i \in ImpeachBlocks,
           HandleImpeachPreprepareMsg(v, i)
    PROVE  TypeOK' /\ Effect(v)
<1>1. /\ i \in Blocks /\ i \notin NormalBlocks
      /\ {"Prepare"} \in SUBSET Phases /\ "Commit" \notin {"Prepare"}
  BY BlockAssumption DEF Blocks, Phases
<1>2. chain' = chain /\ validated' = validated
  BY DEF HandleImpeachPreprepareMsg
<1>3. CASE /\ impeach' = [impeach EXCEPT ![v][i] = "done"]
           /\ UNCHANGED <<signed, fsm, blockCache, failback, restarts, network>>
  BY <1>2, <1>3 DEF TypeOK, Effect, fsm, network
<1>4. CASE Refuse /\ UNCHANGED blockCache /\ NoOutput(v, {i})
  <2>1. FSMTyped' /\ validates' \subseteq Validators \X Blocks
    BY <1>2, <1>4, NoOutputTypes DEF TypeOK
  <2> QED
    BY <1>2, <1>4, <2>1 DEF TypeOK, FSMTyped, Effect, Refuse
<1>5. CASE /\ blockCache' = [blockCache EXCEPT ![v] = @ \cup {i}]
           /\ \/ /\ composeImpeachPrepareMsg(v, i, {"Prepare"})
                 /\ FSM(v, "ImpeachPrepare", Number[i], {i})
                 /\ UNCHANGED validates
              \/ /\ composeImpeachPrepareMsg(v, i, Phases)
                 /\ impeachPrepareCertificate(i)'
                 /\ onceImpeachPrepareCertificateSatisfied(v, i, {i})
  <2>1. blockCache' \in [Validators -> SUBSET Blocks]
    BY <1>1, <1>5 DEF TypeOK
  <2>2. FSMTyped' /\ validates' \subseteq Validators \X Blocks
    <3>1. CASE FSM(v, "ImpeachPrepare", Number[i], {i}) /\ UNCHANGED validates
      BY <1>1, <1>2, <3>1, FSMTypes, BlockFacts DEF TypeOK, States
    <3>2. CASE onceImpeachPrepareCertificateSatisfied(v, i, {i})
      BY <1>1, <1>2, <3>2, OnceTypes DEF TypeOK
    <3> QED
      BY <1>5, <3>1, <3>2
  <2>3. Refuse \/ Signing(v, i)
    <3>1. CASE composeImpeachPrepareMsg(v, i, {"Prepare"})
      BY <1>1, <3>1 DEF composeImpeachPrepareMsg, Signing
    <3>2. CASE composeImpeachPrepareMsg(v, i, Phases) /\ impeachPrepareCertificate(i)'
      <4>1. V!Certificate(i, "Prepare")'
        BY <3>2, ImpeachCertificates
      <4> QED
        BY <1>1, <3>2, <4>1 DEF composeImpeachPrepareMsg, Signing
    <3> QED
      BY <1>5, <3>1, <3>2
  <2>4. /\ sigs' \subseteq Validators \X Blocks \X Phases
        /\ signed' \in [Validators -> [Heights -> Blocks \cup {Nil}]]
    BY <1>1, <2>3, SignTypes DEF Signing
  <2>5. Effect(v)
    BY <1>1, <1>2, <2>3 DEF Effect, Refuse
  <2> QED
    BY <1>2, <2>1, <2>2, <2>4, <2>5 DEF TypeOK, FSMTyped
<1> QED
  BY <1>3, <1>4, <1>5 DEF HandleImpeachPreprepareMsg

\* A proposal changes no validator.
LEMMA ProposeStep ==
    ASSUME TypeOK, NEW v \in Validators, NEW b \in NormalBlocks, Propose(b)
    PROVE  TypeOK' /\ Effect(v)
BY DEF Propose, TypeOK, Effect, persistent, fsm, caches, timers

\* A block taken from another chain is certified because that chain is.
LEMMA SyncStep ==
    ASSUME TypeOK, V!CertifiedChains, NEW v \in Validators, NEW u \in Validators,
           SyncFrom(v, u)
    PROVE  TypeOK' /\ Effect(v)
<1>1. /\ signed' = signed /\ sigs' = sigs /\ state' = state /\ number' = number
      /\ blockCache' = blockCache /\ validated' = validated /\ impeach' = impeach
      /\ failback' = failback /\ restarts' = restarts /\ proposed' = proposed
      /\ validates' = validates
  BY DEF SyncFrom, fsm, caches, timers, network
<1>2. chain[u] \in Seq(Blocks) /\ chain[v] \in Seq(Blocks) /\ Len(chain[u]) > Len(chain[v])
  BY DEF TypeOK, SyncFrom
<1>3. Len(chain[v]) + 1 \in DOMAIN chain[u]
  BY <1>2
<1>4. PICK b \in Blocks : b = chain[u][Len(chain[v]) + 1]
  BY <1>2, <1>3
<1>5. Number[b] = Len(chain[v]) + 1 /\ V!Certificate(b, "Commit")
  BY <1>3, <1>4 DEF V!CertifiedChains
<1>6. Extending(v, b)
  BY <1>4, <1>5 DEF Extending, SyncFrom
<1>7. chain' \in [Validators -> Seq(Blocks)]
  BY <1>6, ExtendingType
<1> QED
  BY <1>1, <1>6, <1>7 DEF TypeOK, Effect

\* A restart keeps the chain, the record and the signatures.
LEMMA RestartStep ==
    ASSUME TypeOK, NEW v \in Validators, Restart(v)
    PROVE  TypeOK' /\ Effect(v)
<1>1. /\ chain' = chain /\ signed' = signed /\ sigs' = sigs
      /\ proposed' = proposed /\ validates' = validates
  BY DEF Restart, persistent, network
<1>2. Len(chain[v]) + 1 \in Nat \ {0}
  BY DEF TypeOK
<1>3. /\ state' \in [Validators -> States] /\ number' \in [Validators -> Nat \ {0}]
      /\ failback' \in [Validators -> Nat]
  BY <1>2 DEF Restart, TypeOK, States
<1>4. /\ blockCache' \in [Validators -> SUBSET Blocks]
      /\ validated' \in [Validators -> [Heights -> Blocks \cup {Nil}]]
  BY DEF Restart, TypeOK
<1>5. impeach' \in [Validators -> [ImpeachBlocks -> {"none", "armed", "done"}]]
  BY DEF Restart, TypeOK, Armed
<1>6. restarts' \in 0..MaxRestarts
  BY BlockAssumption DEF Restart, TypeOK
<1> QED
  BY <1>1, <1>3, <1>4, <1>5, <1>6 DEF TypeOK, Effect

-----------------------------------------------------------------------------
(* The inductive invariant.                                                *)

IInv == TypeOK /\ RecordFaithful /\ V!VotingInv

\* Under the record, signing a proposed block means having signed nothing else
\* at its height.
LEMMA RecordMeansOnlySigned ==
    ASSUME IInv, NEW v \in Validators, NEW b \in NormalBlocks,
           signed[v][Number[b]] \in {Nil, b}
    PROVE  V!OnlySigned(v, b)
<1>1. b \notin ImpeachBlocks /\ Nil \notin ImpeachBlocks
  BY BlockAssumption DEF Blocks
<1> SUFFICES ASSUME NEW c \in Blocks, NEW p \in Phases,
                    Number[c] = Number[b], <<v, c, p>> \in sigs
             PROVE  c = b
  BY DEF V!OnlySigned, V!Blocks, Blocks, V!Phases, Phases
<1>2. signed[v][Number[c]] = c \/ signed[v][Number[c]] \in ImpeachBlocks
  BY DEF IInv, RecordFaithful
<1> QED
  BY <1>1, <1>2, BlockFacts

\* Every effect keeps the record faithful.
LEMMA EffectRecord ==
    ASSUME IInv, NEW v \in Validators, Effect(v)
    PROVE  RecordFaithful'
<1>1. CASE UNCHANGED <<signed, sigs>>
  BY <1>1 DEF IInv, RecordFaithful
<1>2. ASSUME NEW b \in Blocks, Signing(v, b) PROVE RecordFaithful'
  <2> SUFFICES ASSUME NEW w \in Validators, NEW c \in Blocks, NEW p \in Phases,
                      <<w, c, p>> \in sigs'
               PROVE  signed'[w][Number[c]] = c \/ signed'[w][Number[c]] \in ImpeachBlocks
    BY DEF RecordFaithful
  <2>1. PICK phases \in SUBSET Phases : Sign(v, b, phases)
    BY <1>2 DEF Signing
  <2>2. /\ signed \in [Validators -> [Heights -> Blocks \cup {Nil}]]
        /\ Number[b] \in Heights /\ Number[c] \in Heights
    BY BlockFacts DEF IInv, TypeOK
  <2>3. CASE w # v \/ Number[c] # Number[b]
    <3>1. <<w, c, p>> \in sigs /\ signed'[w][Number[c]] = signed[w][Number[c]]
      BY <2>1, <2>2, <2>3 DEF Sign
    <3> QED
      BY <3>1 DEF IInv, RecordFaithful
  <2>4. CASE w = v /\ Number[c] = Number[b]
    <3>1. signed'[w][Number[c]] = b
      BY <2>1, <2>2, <2>4 DEF Sign
    <3>2. CASE b \in ImpeachBlocks
      BY <3>1, <3>2
    <3>3. CASE b \in NormalBlocks
      <4>1. V!OnlySigned(v, b)
        BY <1>2, <3>3, RecordMeansOnlySigned DEF Signing
      <4>2. <<v, c, p>> \in sigs => c = b
        BY <2>4, <4>1 DEF V!OnlySigned, V!Blocks, Blocks, V!Phases, Phases
      <4> QED
        BY <2>1, <2>4, <3>1, <4>2 DEF Sign
    <3> QED
      BY <3>2, <3>3 DEF Blocks
  <2> QED
    BY <2>3, <2>4
<1> QED
  BY <1>1, <1>2 DEF Effect

\* Every effect is a step of the voting rules.
LEMMA EffectVotes ==
    ASSUME IInv, NEW v \in Validators, Effect(v)
    PROVE  [V!VotingNext]_(V!votingVars)
<1>1. CASE UNCHANGED <<chain, signed, sigs>>
  BY <1>1 DEF V!votingVars
<1>2. ASSUME UNCHANGED chain, NEW b \in Blocks, Signing(v, b)
      PROVE  [V!VotingNext]_(V!votingVars)
  <2>1. PICK phases \in SUBSET Phases :
            /\ Sign(v, b, phases)
            /\ b \in NormalBlocks => signed[v][Number[b]] \in {Nil, b}
            /\ "Commit" \in phases => V!Certificate(b, "Prepare")'
    BY <1>2 DEF Signing
  <2>2. V!Vote(v, b, phases)
    BY <1>2, <2>1, RecordMeansOnlySigned DEF V!Vote, Sign
  <2>3. CASE phases = {}
    BY <1>2, <2>1, <2>3 DEF Sign, V!votingVars
  <2>4. CASE phases # {}
    <3>1. b \in V!Blocks /\ phases \in (SUBSET V!Phases) \ {{}}
      BY <2>4 DEF V!Blocks, Blocks, V!Phases, Phases
    <3> QED
      BY <2>2, <3>1 DEF V!VotingNext
  <2> QED
    BY <2>3, <2>4
<1>3. ASSUME UNCHANGED <<signed, sigs>>, NEW b \in Blocks, Extending(v, b)
      PROVE  [V!VotingNext]_(V!votingVars)
  <2>1. V!Insert(v, b)
    BY <1>3 DEF V!Insert, Extending, V!ParentInChain, ParentInChain
  <2> QED
    BY <2>1 DEF V!VotingNext, V!Blocks, Blocks
<1> QED
  BY <1>1, <1>2, <1>3 DEF Effect

-----------------------------------------------------------------------------
(* The theorems.                                                           *)

\* The assumptions of the voting rules hold here, and the rules proved about
\* are the rules implemented.
LEMMA VotingAssumptions == P!CommitteeAssumption /\ P!BlockAssumption
<1>1. /\ P!Cardinality(Validators) = Cardinality(Validators)
      /\ P!IsFiniteSet(Validators) <=> IsFiniteSet(Validators)
  BY Zenon DEF P!Cardinality, Cardinality, P!IsFiniteSet, IsFiniteSet
<1> QED
  BY <1>1, CommitteeAssumption, BlockAssumption
     DEF P!CommitteeAssumption, P!BlockAssumption, P!Blocks, Blocks

\* The proofs about Voting are about the same rules that LBFT2 instantiates.
LEMMA SameRules ==
    /\ V!VotingInv <=> P!VotingInv
    /\ V!VotingInv' <=> P!VotingInv'
    /\ V!VotingNext <=> P!VotingNext
    /\ V!votingVars = P!votingVars
    /\ V!votingVars' = P!votingVars'
    /\ V!NormalAgreement <=> P!NormalAgreement
BY DEF V!VotingInv, P!VotingInv, V!VotingTypeOK, P!VotingTypeOK, V!OneVote, P!OneVote,
       V!CertifiedChains, P!CertifiedChains, V!Certificate, P!Certificate,
       V!Signers, P!Signers, V!Blocks, P!Blocks, V!Phases, P!Phases,
       V!Cardinality, P!Cardinality, V!VotingNext, P!VotingNext, V!Vote, P!Vote,
       V!Insert, P!Insert, V!OnlySigned, P!OnlySigned, V!ParentInChain, P!ParentInChain,
       V!votingVars, P!votingVars, V!NormalAgreement, P!NormalAgreement

\* The inductive invariant holds when the validators start (NewLBFT2).
LEMMA InitInv == Init => IInv
<1> SUFFICES ASSUME Init PROVE IInv
  OBVIOUS
<1>1. TypeOK
  BY BlockAssumption, CommitteeAssumption DEF Init, TypeOK, States, Armed
<1>2. RecordFaithful
  BY DEF Init, RecordFaithful
<1>3. V!VotingInv
  BY DEF Init, V!VotingInv, V!VotingTypeOK, V!OneVote, V!CertifiedChains
<1> QED
  BY <1>1, <1>2, <1>3 DEF IInv

\* Every step of the state machine keeps the types and has one of the effects.
LEMMA NextEffect ==
    ASSUME IInv, Next
    PROVE  TypeOK' /\ \E v \in Validators : Effect(v)
<1>1. TypeOK /\ V!CertifiedChains /\ Live \subseteq Validators
  BY CommitteeAssumption DEF IInv, V!VotingInv
<1>2. ASSUME NEW b \in NormalBlocks, Propose(b)
      PROVE  TypeOK' /\ \E v \in Validators : Effect(v)
  <2>1. PICK v : v \in Validators
    BY CommitteeAssumption, FS_EmptySet
  <2> QED
    BY <1>1, <1>2, <2>1, ProposeStep
<1>3. ASSUME NEW v \in Live, NEW b \in Blocks, Absorb(v, b)
      PROVE  TypeOK' /\ Effect(v)
  BY <1>1, <1>3, AbsorbStep
<1>4. ASSUME NEW v \in Live, NEW b \in NormalBlocks,
             \/ CachePreprepareMsg(v, b)
             \/ HandlePreprepareMsg(v, b)
             \/ HandlePrepareMsg(v, b)
             \/ HandleCommitMsg(v, b)
             \/ HandleValidateMsg(v, b)
      PROVE  TypeOK' /\ Effect(v)
  <2>1. v \in Validators /\ b \in Blocks
    BY <1>1 DEF Blocks
  <2> QED
    BY <1>1, <1>4, <2>1, CachePreprepareStep, PreprepareStep, PrepareStep, CommitStep, ValidateStep
<1>5. ASSUME NEW v \in Live, NEW i \in ImpeachBlocks,
             \/ HandleImpeachPreprepareMsg(v, i)
             \/ HandleImpeachPrepareMsg(v, i)
             \/ HandleImpeachCommitMsg(v, i)
             \/ HandleImpeachValidateMsg(v, i)
      PROVE  TypeOK' /\ Effect(v)
  <2>1. v \in Validators /\ i \in Blocks
    BY <1>1 DEF Blocks
  <2> QED
    BY <1>1, <1>5, <2>1, ImpeachPreprepareStep, ImpeachPrepareStep, CommitStep, ValidateStep
<1>6. ASSUME NEW v \in Live, NEW u \in Validators, SyncFrom(v, u)
      PROVE  TypeOK' /\ Effect(v)
  BY <1>1, <1>6, SyncStep
<1>7. ASSUME NEW v \in Live, Restart(v)
      PROVE  TypeOK' /\ Effect(v)
  BY <1>1, <1>7, RestartStep
<1> QED
  BY <1>1, <1>2, <1>3, <1>4, <1>5, <1>6, <1>7 DEF Next

\* Every step, stuttering included, keeps the invariant and is allowed by the
\* voting rules.
LEMMA StepInv ==
    ASSUME IInv, [Next]_vars
    PROVE  IInv' /\ [V!VotingNext]_(V!votingVars)
<1>1. TypeOK' /\ RecordFaithful' /\ [V!VotingNext]_(V!votingVars)
  <2>1. CASE Next
    BY <2>1, NextEffect, EffectRecord, EffectVotes
  <2>2. CASE UNCHANGED vars
    BY <2>2 DEF vars, IInv, TypeOK, RecordFaithful, V!votingVars
  <2> QED
    BY <2>1, <2>2
<1>2. V!VotingInv'
  BY <1>1, SameRules, VotingAssumptions, P!VotingStep DEF IInv
<1> QED
  BY <1>1, <1>2 DEF IInv

\* The inductive invariant holds in every behaviour.
THEOREM Invariant == Spec => []IInv
<1>1. IInv /\ [Next]_vars => IInv'
  BY StepInv
<1> QED
  BY <1>1, InitInv, PTL DEF Spec

\* The state machine keeps its variables in their types.
THEOREM TypeCorrect == Spec => []TypeOK
<1>1. IInv => TypeOK
  BY DEF IInv
<1> QED
  BY <1>1, Invariant, PTL

\* The sign-once record stays faithful to the signatures made, across
\* impeachment, restarts and synchronisation.
THEOREM RecordCorrect == Spec => []RecordFaithful
<1>1. IInv => RecordFaithful
  BY DEF IInv
<1> QED
  BY <1>1, Invariant, PTL

\* The state machine implements the voting rules.
THEOREM Refinement == Spec => ImplementsVoting
<1>1. Init => V!VotingInit
  BY DEF Init, V!VotingInit
<1>2. IInv /\ [Next]_vars => [V!VotingNext]_(V!votingVars)
  BY StepInv
<1> QED
  BY <1>1, <1>2, Invariant, PTL DEF Spec, ImplementsVoting, V!VotingSpec

\* Every chain is linked, and every block on it has a commit certificate.
THEOREM ChainsCertified == Spec => []CertifiedChains
<1>1. IInv => CertifiedChains
  BY DEF IInv, CertifiedChains, V!VotingInv
<1> QED
  BY <1>1, Invariant, PTL

\* No two proposed blocks of one height are both inserted, whatever is lost,
\* delayed or repeated, and whoever restarts.
THEOREM Agreement == Spec => []NormalAgreement
<1>1. IInv => NormalAgreement
  BY SameRules, VotingAssumptions, P!InvImpliesAgreement DEF IInv, NormalAgreement
<1> QED
  BY <1>1, Invariant, PTL

-----------------------------------------------------------------------------
(* What a handler does to the state and the number of its validator: the   *)
(* state it leaves behind is justified by signatures on record.            *)

\* What StateJustified asks of validator v in state st at number n.
Justified(v, st, n) ==
    /\ st = "Commit" =>
          \E b \in NormalBlocks : Number[b] = n /\ (prepareCertificate(b) \/ commitCertificate(b))
    /\ st = "ImpeachPrepare" =>
          \E i \in ImpeachBlocks : Number[i] = n /\ <<v, i, "Prepare">> \in sigs
    /\ st = "ImpeachCommit" =>
          \E i \in ImpeachBlocks :
              Number[i] = n /\ (impeachPrepareCertificate(i) \/ impeachCommitCertificate(i))
    /\ st = "Validate" =>
          \E b \in Blocks : Number[b] = n /\ <<v, b>> \in validates /\ verifySignatures(b)

AllJustified == \A v \in Validators : Justified(v, state[v], number[v])

\* A timer is armed for a block on v's chain, and only on the head when it is armed.
ArmedOnChain ==
    \A v \in Validators, i \in ImpeachBlocks : impeach[v][i] = "armed" => ParentInChain(v, i)

FsmInv == AllJustified /\ ArmedOnChain

\* What one step does to the state and the number of v.
Moved(v, st, n) ==
    /\ state' = [state EXCEPT ![v] = st]
    /\ number' = [number EXCEPT ![v] = n]
    /\ Justified(v, st, n)'
    /\ n >= number[v] \/ restarts' # restarts

Outcome(v) ==
    /\ sigs \subseteq sigs'
    /\ validates \subseteq validates'
    /\ \E st \in States, n \in Nat \ {0} : Moved(v, st, n)

-----------------------------------------------------------------------------
\* The machine's own certificates only grow with the signatures.
LEMMA MachineCertificatesGrow ==
    ASSUME sigs \subseteq sigs'
    PROVE  /\ \A b \in NormalBlocks : /\ prepareCertificate(b) => prepareCertificate(b)'
                                      /\ commitCertificate(b) => commitCertificate(b)'
           /\ \A i \in ImpeachBlocks : /\ impeachPrepareCertificate(i) => impeachPrepareCertificate(i)'
                                       /\ impeachCommitCertificate(i) => impeachCommitCertificate(i)'
<1>1. ASSUME NEW b \in Blocks, NEW p \in Phases
      PROVE  /\ Cardinality(Signers(b, p)) \in Nat
             /\ Cardinality(Signers(b, p)') \in Nat
             /\ Cardinality(Signers(b, p)) <= Cardinality(Signers(b, p)')
  <2>1. /\ Signers(b, p) \subseteq Signers(b, p)'
        /\ Signers(b, p)' \subseteq Validators
    BY DEF Signers
  <2>2. IsFiniteSet(Signers(b, p)) /\ IsFiniteSet(Signers(b, p)')
    BY <2>1, FS_Subset, CommitteeAssumption
  <2> QED
    BY <2>1, <2>2, FS_Subset, FS_CardinalityType
<1>2. "Prepare" \in Phases /\ "Commit" \in Phases /\ Faulty \in Nat
  BY CommitteeAssumption DEF Phases
<1>3. ASSUME NEW b \in Blocks, NEW p \in Phases
      PROVE  /\ Certificate(Cardinality(Signers(b, p))) => Certificate(Cardinality(Signers(b, p)'))
             /\ ImpeachCertificate(Cardinality(Signers(b, p))) =>
                    ImpeachCertificate(Cardinality(Signers(b, p)'))
  BY <1>1, <1>2 DEF Certificate, ImpeachCertificate
<1>4. NormalBlocks \subseteq Blocks /\ ImpeachBlocks \subseteq Blocks
  BY DEF Blocks
<1>5. ASSUME NEW b \in NormalBlocks
      PROVE  /\ prepareCertificate(b) => prepareCertificate(b)'
             /\ commitCertificate(b) => commitCertificate(b)'
  BY <1>2, <1>3, <1>4 DEF prepareCertificate, commitCertificate, Certificate
<1>6. ASSUME NEW i \in ImpeachBlocks
      PROVE  /\ impeachPrepareCertificate(i) => impeachPrepareCertificate(i)'
             /\ impeachCommitCertificate(i) => impeachCommitCertificate(i)'
  BY <1>2, <1>3, <1>4 DEF impeachPrepareCertificate, impeachCommitCertificate, ImpeachCertificate
<1> QED
  BY <1>5, <1>6

\* verifySignatures asks for the commit certificate of the block's kind.
LEMMA VerifyIsCertificate ==
    /\ \A b \in NormalBlocks : /\ verifySignatures(b) <=> commitCertificate(b)
                               /\ verifySignatures(b)' <=> commitCertificate(b)'
    /\ \A i \in ImpeachBlocks : /\ verifySignatures(i) <=> impeachCommitCertificate(i)
                                /\ verifySignatures(i)' <=> impeachCommitCertificate(i)'
<1>1. \A b \in NormalBlocks : b \notin ImpeachBlocks
  BY BlockAssumption
<1> QED
  BY <1>1 DEF verifySignatures

\* What justifies a state is never taken back.
LEMMA JustifiedGrows ==
    ASSUME NEW v, NEW st, NEW n, Justified(v, st, n),
           sigs \subseteq sigs', validates \subseteq validates'
    PROVE  Justified(v, st, n)'
<1>1. st = "Commit" => \E b \in NormalBlocks :
          Number[b] = n /\ (prepareCertificate(b)' \/ commitCertificate(b)')
  BY MachineCertificatesGrow DEF Justified
<1>2. st = "ImpeachCommit" => \E i \in ImpeachBlocks :
          Number[i] = n /\ (impeachPrepareCertificate(i)' \/ impeachCommitCertificate(i)')
  BY MachineCertificatesGrow DEF Justified
<1>3. st = "ImpeachPrepare" => \E i \in ImpeachBlocks : Number[i] = n /\ <<v, i, "Prepare">> \in sigs'
  BY DEF Justified
<1>4. st = "Validate" => \E b \in Blocks :
          Number[b] = n /\ <<v, b>> \in validates' /\ verifySignatures(b)'
  <2>1. \A b \in Blocks : verifySignatures(b) => verifySignatures(b)'
    BY MachineCertificatesGrow, VerifyIsCertificate DEF Blocks
  <2> QED
    BY <2>1 DEF Justified
<1> QED
  BY <1>1, <1>2, <1>3, <1>4 DEF Justified

\* The tail of FSM moves to the handler's state, or to Idle after the head.
LEMMA FSMOutcome ==
    ASSUME TypeOK, TypeOK', NEW v \in Validators, NEW st \in States, NEW n \in Nat \ {0}, NEW handled,
           FSM(v, st, n, handled), n >= number[v], Justified(v, st, n)',
           sigs \subseteq sigs', validates \subseteq validates'
    PROVE  Outcome(v)
<1>1. Len(chain'[v]) \in Nat /\ number[v] \in Nat
  BY DEF TypeOK
<1>2. CASE n < Len(chain'[v]) + 1
  <2>1. PICK next \in Nat \ {0} : next = Len(chain'[v]) + 1
    BY <1>1
  <2>2. state' = [state EXCEPT ![v] = "Idle"] /\ number' = [number EXCEPT ![v] = next]
    BY <1>2, <2>1 DEF FSM
  <2>3. Justified(v, "Idle", next)'
    BY DEF Justified
  <2>4. next >= number[v] /\ "Idle" \in States
    BY <1>1, <1>2, <2>1 DEF States
  <2>5. Moved(v, "Idle", next)
    BY <2>2, <2>3, <2>4 DEF Moved
  <2> QED
    BY <2>4, <2>5 DEF Outcome
<1>3. CASE ~(n < Len(chain'[v]) + 1)
  <2>1. /\ state' = [state EXCEPT ![v] = st]
        /\ number' = [number EXCEPT ![v] = n]
    BY <1>3 DEF FSM
  <2>2. Moved(v, st, n)
    BY <2>1 DEF Moved
  <2> QED
    BY <2>2 DEF Outcome
<1> QED
  BY <1>2, <1>3

\* A handler without output stays where the validator was, or catches up.
LEMMA NoOutputOutcome ==
    ASSUME TypeOK, TypeOK', AllJustified, NEW v \in Validators, NEW handled,
           NoOutput(v, handled), sigs \subseteq sigs'
    PROVE  Outcome(v)
<1>1. PICK st \in States, n \in Nat \ {0} : st = state[v] /\ n = number[v] /\ n >= number[v]
  BY DEF TypeOK
<1>2. FSM(v, st, n, handled) /\ validates \subseteq validates'
  BY <1>1 DEF NoOutput
<1>3. Justified(v, st, n)
  BY <1>1 DEF AllJustified
<1>4. Justified(v, st, n)'
  BY <1>2, <1>3, JustifiedGrows
<1> QED
  BY <1>1, <1>2, <1>4, FSMOutcome
\* A commit certificate ends in Validate, or in Commit when the block is not known.
LEMMA OnceCommitOutcome ==
    ASSUME TypeOK, TypeOK', NEW v \in Validators, NEW b \in NormalBlocks, NEW handled,
           Number[b] >= number[v], sigs \subseteq sigs', commitCertificate(b)',
           onceCommitCertificateSatisfied(v, b, handled)
    PROVE  Outcome(v)
<1>1. b \in Blocks /\ Number[b] \in Nat \ {0} /\ "Validate" \in States /\ "Commit" \in States
  BY BlockFacts DEF Blocks, States
<1>2. PICK n \in Nat \ {0} : n = Number[b] /\ n >= number[v]
  BY <1>1
<1>3. CASE FSM(v, "Validate", Number[b], handled) /\ validates' = validates \cup {<<v, b>>}
  <2>1. Justified(v, "Validate", n)'
    BY <1>1, <1>2, <1>3, VerifyIsCertificate DEF Justified
  <2> QED
    BY <1>1, <1>2, <1>3, <2>1, FSMOutcome
<1>4. CASE FSM(v, "Commit", Number[b], handled) /\ UNCHANGED validates
  <2>1. Justified(v, "Commit", n)'
    BY <1>2 DEF Justified
  <2> QED
    BY <1>1, <1>2, <1>4, <2>1, FSMOutcome
<1> QED
  BY <1>3, <1>4 DEF onceCommitCertificateSatisfied

\* The same for an impeach block.
LEMMA OnceImpeachCommitOutcome ==
    ASSUME TypeOK, TypeOK', NEW v \in Validators, NEW i \in ImpeachBlocks, NEW handled,
           Number[i] >= number[v], sigs \subseteq sigs', impeachCommitCertificate(i)',
           onceImpeachCommitCertificateSatisfied(v, i, handled)
    PROVE  Outcome(v)
<1>1. i \in Blocks /\ Number[i] \in Nat \ {0} /\ "Validate" \in States /\ "ImpeachCommit" \in States
  BY BlockFacts DEF Blocks, States
<1>2. PICK n \in Nat \ {0} : n = Number[i] /\ n >= number[v]
  BY <1>1
<1>3. CASE FSM(v, "Validate", Number[i], handled) /\ validates' = validates \cup {<<v, i>>}
  <2>1. Justified(v, "Validate", n)'
    BY <1>1, <1>2, <1>3, VerifyIsCertificate DEF Justified
  <2> QED
    BY <1>1, <1>2, <1>3, <2>1, FSMOutcome
<1>4. CASE FSM(v, "ImpeachCommit", Number[i], handled) /\ UNCHANGED validates
  <2>1. Justified(v, "ImpeachCommit", n)'
    BY <1>2 DEF Justified
  <2> QED
    BY <1>1, <1>2, <1>4, <2>1, FSMOutcome
<1> QED
  BY <1>3, <1>4 DEF onceImpeachCommitCertificateSatisfied

\* A prepare certificate ends in Commit, or goes on with the commit certificate.
LEMMA OncePrepareOutcome ==
    ASSUME TypeOK, TypeOK', NEW v \in Validators, NEW b \in NormalBlocks, NEW handled,
           Number[b] >= number[v], sigs \subseteq sigs', prepareCertificate(b)',
           oncePrepareCertificateSatisfied(v, b, handled)
    PROVE  Outcome(v)
<1>1. PICK n \in Nat \ {0} : n = Number[b] /\ n >= number[v]
  BY BlockFacts DEF Blocks
<1>2. CASE FSM(v, "Commit", Number[b], handled) /\ UNCHANGED validates
  <2>1. Justified(v, "Commit", n)' /\ "Commit" \in States
    BY <1>1 DEF Justified, States
  <2> QED
    BY <1>1, <1>2, <2>1, FSMOutcome
<1>3. CASE commitCertificate(b)' /\ onceCommitCertificateSatisfied(v, b, handled)
  BY <1>3, OnceCommitOutcome
<1> QED
  BY <1>2, <1>3 DEF oncePrepareCertificateSatisfied

\* The same for an impeach block.
LEMMA OnceImpeachPrepareOutcome ==
    ASSUME TypeOK, TypeOK', NEW v \in Validators, NEW i \in ImpeachBlocks, NEW handled,
           Number[i] >= number[v], sigs \subseteq sigs', impeachPrepareCertificate(i)',
           onceImpeachPrepareCertificateSatisfied(v, i, handled)
    PROVE  Outcome(v)
<1>1. PICK n \in Nat \ {0} : n = Number[i] /\ n >= number[v]
  BY BlockFacts DEF Blocks
<1>2. CASE FSM(v, "ImpeachCommit", Number[i], handled) /\ UNCHANGED validates
  <2>1. Justified(v, "ImpeachCommit", n)' /\ "ImpeachCommit" \in States
    BY <1>1 DEF Justified, States
  <2> QED
    BY <1>1, <1>2, <2>1, FSMOutcome
<1>3. CASE impeachCommitCertificate(i)' /\ onceImpeachCommitCertificateSatisfied(v, i, handled)
  BY <1>3, OnceImpeachCommitOutcome
<1> QED
  BY <1>2, <1>3 DEF onceImpeachPrepareCertificateSatisfied

\* Signatures are only ever added.
LEMMA SignaturesGrow ==
    ASSUME NEW v, NEW b, NEW phases,
           \/ Refuse
           \/ composePrepareMsg(v, b, phases)
           \/ composeCommitMsg(v, b)
           \/ composeImpeachPrepareMsg(v, b, phases)
           \/ composeImpeachCommitMsg(v, b)
    PROVE  sigs \subseteq sigs'
BY DEF Refuse, Sign, composePrepareMsg, composeCommitMsg, composeImpeachPrepareMsg, composeImpeachCommitMsg

-----------------------------------------------------------------------------
(* One lemma per handler.                                                  *)

\* The handlers of proposed blocks (handlePreprepareMsg, handlePrepareMsg, handleCommitMsg).
LEMMA NormalOutcome ==
    ASSUME TypeOK, TypeOK', AllJustified, NEW v \in Validators, NEW b \in NormalBlocks,
           \/ CachePreprepareMsg(v, b) \/ HandlePreprepareMsg(v, b)
           \/ HandlePrepareMsg(v, b) \/ HandleCommitMsg(v, b)
    PROVE  Outcome(v)
<1>1. PICK n \in Nat \ {0} : n = Number[b]
  BY BlockFacts DEF Blocks
<1>2. CASE CachePreprepareMsg(v, b)
  <2>1. sigs \subseteq sigs' /\ NoOutput(v, {})
    BY <1>2 DEF CachePreprepareMsg, Refuse
  <2> QED
    BY <2>1, NoOutputOutcome
<1>3. CASE HandlePreprepareMsg(v, b)
  <2>1. n >= number[v]
    BY <1>1, <1>3 DEF HandlePreprepareMsg, realFSM
  <2>2. CASE /\ composePrepareMsg(v, b, {"Prepare"})
             /\ FSM(v, "Prepare", Number[b], {}) /\ UNCHANGED validates
    <3>1. Justified(v, "Prepare", n)' /\ "Prepare" \in States
      BY DEF Justified, States
    <3>2. sigs \subseteq sigs'
      BY <2>2, SignaturesGrow
    <3> QED
      BY <1>1, <2>1, <2>2, <3>1, <3>2, FSMOutcome
  <2>3. CASE /\ composePrepareMsg(v, b, Phases) /\ prepareCertificate(b)'
             /\ oncePrepareCertificateSatisfied(v, b, {})
    BY <1>1, <2>1, <2>3, SignaturesGrow, OncePrepareOutcome
  <2> QED
    BY <1>3, <2>2, <2>3 DEF HandlePreprepareMsg
<1>4. CASE HandlePrepareMsg(v, b)
  <2>1. /\ n >= number[v] /\ prepareCertificate(b) /\ composeCommitMsg(v, b)
        /\ oncePrepareCertificateSatisfied(v, b, {})
    BY <1>1, <1>4 DEF HandlePrepareMsg, realFSM
  <2>2. sigs \subseteq sigs'
    BY <2>1, SignaturesGrow
  <2>3. prepareCertificate(b)'
    BY <2>1, <2>2, MachineCertificatesGrow
  <2> QED
    BY <1>1, <2>1, <2>2, <2>3, OncePrepareOutcome
<1>5. CASE HandleCommitMsg(v, b)
  <2>1. /\ n >= number[v] /\ commitCertificate(b) /\ sigs' = sigs
        /\ onceCommitCertificateSatisfied(v, b, {})
    BY <1>1, <1>5 DEF HandleCommitMsg, realFSM
  <2>2. commitCertificate(b)'
    BY <2>1, MachineCertificatesGrow
  <2> QED
    BY <1>1, <2>1, <2>2, OnceCommitOutcome
<1> QED
  BY <1>2, <1>3, <1>4, <1>5

\* Both validate handlers.
LEMMA ValidateOutcome ==
    ASSUME TypeOK, TypeOK', AllJustified, NEW v \in Validators, NEW b \in Blocks,
           HandleValidateMsg(v, b) \/ HandleImpeachValidateMsg(v, b)
    PROVE  Outcome(v)
<1>1. PICK n \in Nat \ {0} : n = Number[b]
  BY BlockFacts
<1>2. n >= number[v] /\ sigs' = sigs
  BY <1>1 DEF HandleValidateMsg, HandleImpeachValidateMsg, realFSM
<1>3. CASE NoOutput(v, {})
  BY <1>2, <1>3, NoOutputOutcome
<1>4. CASE FSM(v, "Idle", Number[b], {}) /\ validates' = validates \cup {<<v, b>>}
  <2>1. Justified(v, "Idle", n)' /\ "Idle" \in States
    BY DEF Justified, States
  <2> QED
    BY <1>1, <1>2, <1>4, <2>1, FSMOutcome
<1> QED
  BY <1>3, <1>4 DEF HandleValidateMsg, HandleImpeachValidateMsg, ValidateMsg

\* The handlers of impeach blocks.  The validator signs its own impeach block because
\* the timer it came from was armed on the chain.
LEMMA ImpeachOutcome ==
    ASSUME TypeOK, TypeOK', FsmInv, NEW v \in Validators, NEW i \in ImpeachBlocks,
           \/ HandleImpeachPreprepareMsg(v, i)
           \/ HandleImpeachPrepareMsg(v, i) \/ HandleImpeachCommitMsg(v, i)
    PROVE  Outcome(v)
<1>1. PICK n \in Nat \ {0} : n = Number[i]
  BY BlockFacts DEF Blocks
<1>2. CASE HandleImpeachPreprepareMsg(v, i)
  <2>1. ParentInChain(v, i)
    BY <1>2 DEF HandleImpeachPreprepareMsg, FsmInv, ArmedOnChain
  <2>2. CASE UNCHANGED <<signed, fsm, blockCache, failback, restarts, network>>
    <3>1. PICK st \in States, m \in Nat \ {0} : st = state[v] /\ m = number[v] /\ m >= number[v]
      BY DEF TypeOK
    <3>2. sigs \subseteq sigs' /\ validates \subseteq validates' /\ state' = state /\ number' = number
      BY <2>2 DEF fsm, network
    <3>3. Justified(v, st, m)
      BY <3>1 DEF FsmInv, AllJustified
    <3>4. Justified(v, st, m)'
      BY <3>2, <3>3, JustifiedGrows
    <3>5. Moved(v, st, m)
      BY <3>1, <3>2, <3>4 DEF Moved, TypeOK
    <3> QED
      BY <3>2, <3>5 DEF Outcome
  <2>3. CASE Refuse /\ NoOutput(v, {i})
    BY <2>3, SignaturesGrow, NoOutputOutcome DEF FsmInv
  <2>4. CASE /\ realFSM(v, "ImpeachPreprepare", i)
             /\ composeImpeachPrepareMsg(v, i, {"Prepare"})
             /\ FSM(v, "ImpeachPrepare", Number[i], {i}) /\ UNCHANGED validates
    <3>1. sigs \subseteq sigs' /\ <<v, i, "Prepare">> \in sigs'
      BY <2>1, <2>4 DEF composeImpeachPrepareMsg, signHeader, Sign
    <3>2. Justified(v, "ImpeachPrepare", n)' /\ "ImpeachPrepare" \in States
      BY <1>1, <3>1 DEF Justified, States
    <3>3. n >= number[v]
      BY <1>1, <2>4 DEF realFSM
    <3> QED
      BY <1>1, <2>4, <3>1, <3>2, <3>3, FSMOutcome
  <2>5. CASE /\ realFSM(v, "ImpeachPreprepare", i)
             /\ composeImpeachPrepareMsg(v, i, Phases) /\ impeachPrepareCertificate(i)'
             /\ onceImpeachPrepareCertificateSatisfied(v, i, {i})
    BY <2>5, SignaturesGrow, OnceImpeachPrepareOutcome DEF realFSM
  <2> QED
    BY <1>2, <2>2, <2>3, <2>4, <2>5 DEF HandleImpeachPreprepareMsg
<1>3. CASE HandleImpeachPrepareMsg(v, i)
  <2>1. /\ n >= number[v] /\ impeachPrepareCertificate(i) /\ composeImpeachCommitMsg(v, i)
        /\ onceImpeachPrepareCertificateSatisfied(v, i, {})
    BY <1>1, <1>3 DEF HandleImpeachPrepareMsg, realFSM
  <2>2. sigs \subseteq sigs'
    BY <2>1, SignaturesGrow
  <2>3. impeachPrepareCertificate(i)'
    BY <2>1, <2>2, MachineCertificatesGrow
  <2> QED
    BY <1>1, <2>1, <2>2, <2>3, OnceImpeachPrepareOutcome
<1>4. CASE HandleImpeachCommitMsg(v, i)
  <2>1. /\ n >= number[v] /\ impeachCommitCertificate(i) /\ sigs' = sigs
        /\ onceImpeachCommitCertificateSatisfied(v, i, {})
    BY <1>1, <1>4 DEF HandleImpeachCommitMsg, realFSM
  <2>2. impeachCommitCertificate(i)'
    BY <2>1, MachineCertificatesGrow
  <2> QED
    BY <1>1, <2>1, <2>2, OnceImpeachCommitOutcome
<1> QED
  BY <1>2, <1>3, <1>4

=============================================================================
