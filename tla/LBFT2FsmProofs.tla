--------------------------- MODULE LBFT2FsmProofs ---------------------------
(***************************************************************************)
(* Proofs about the states of the LBFT 2.0 machine and its impeachment     *)
(* timers, on top of LBFT2Proofs: what a validator's state stands          *)
(* for, that its number only moves forward, and that an idle validator     *)
(* never waits without a timer.                                            *)
(***************************************************************************)
EXTENDS LBFT2Proofs

(* The timers.                                                             *)

\* What the tail of FSM does to v's timers: it drops none; it arms only timers
\* for the next height on the head; in Idle it leaves all of those armed or used.
TailOfFsm(v) ==
    /\ failback' = failback
    /\ \A w \in Validators \ {v} :
          impeach'[w] = impeach[w] /\ state'[w] = state[w] /\ number'[w] = number[w]
    /\ \A i \in ImpeachBlocks :
          /\ impeach[v][i] # "none" => impeach'[v][i] # "none"
          /\ impeach'[v][i] = "armed" => impeach[v][i] = "armed" \/ i \in tryToImpeach(v)'
    /\ state'[v] = "Idle" =>
          /\ number'[v] <= Len(chain'[v]) + 1
          /\ \A i \in tryToImpeach(v)' : impeach'[v][i] # "none"

\* A step that leaves the machines alone and arms no timer.
Quiet(v) ==
    /\ state' = state /\ number' = number /\ failback' = failback
    /\ \A w \in Validators, i \in ImpeachBlocks :
          /\ impeach[w][i] # "none" => impeach'[w][i] # "none"
          /\ impeach'[w][i] = "armed" => impeach[w][i] = "armed"

\* The chain of v may have grown by its next block; the others are as they were.
Grown(v) ==
    /\ \A w \in Validators \ {v} : chain'[w] = chain[w]
    /\ \/ chain'[v] = chain[v]
       \/ \E b \in Blocks : Number[b] = Len(chain[v]) + 1 /\ chain'[v] = Append(chain[v], b)

\* An idle machine is not ahead of its chain, and the failback height is not either.
Level ==
    \A v \in Validators : /\ state[v] = "Idle" => number[v] <= Len(chain[v]) + 1
                          /\ failback[v] <= Len(chain[v]) + 1

\* Every effect on the chains is the growth of one.
LEMMA EffectGrows ==
    ASSUME TypeOK, NEW v \in Validators, Effect(v)
    PROVE  Grown(v)
<1>1. chain \in [Validators -> Seq(Blocks)]
  BY DEF TypeOK
<1>2. CASE UNCHANGED chain
  BY <1>2 DEF Grown
<1>3. ASSUME NEW b \in Blocks, Extending(v, b) PROVE Grown(v)
  <2>1. chain'[v] = Append(chain[v], b) /\ \A w \in Validators \ {v} : chain'[w] = chain[w]
    BY <1>1, <1>3 DEF Extending
  <2> QED
    BY <1>3, <2>1 DEF Grown, Extending
<1> QED
  BY <1>2, <1>3 DEF Effect

\* A chain that has grown still has its blocks, and is longer only by one.
LEMMA GrownChain ==
    ASSUME TypeOK, NEW v \in Validators, Grown(v), NEW w \in Validators
    PROVE  /\ Len(chain[w]) \in Nat /\ Len(chain'[w]) \in Nat
           /\ Len(chain'[w]) = Len(chain[w]) \/ Len(chain'[w]) = Len(chain[w]) + 1
           /\ Len(chain'[w]) = Len(chain[w]) => chain'[w] = chain[w]
           /\ \A i \in ImpeachBlocks : ParentInChain(w, i) => ParentInChain(w, i)'
<1>1. chain[w] \in Seq(Blocks) /\ chain[v] \in Seq(Blocks)
  BY DEF TypeOK
<1>2. CASE chain'[w] = chain[w]
  BY <1>1, <1>2 DEF ParentInChain
<1>3. ASSUME NEW b \in Blocks, chain'[w] = Append(chain[w], b)
      PROVE  /\ Len(chain'[w]) = Len(chain[w]) + 1 /\ Len(chain[w]) \in Nat
             /\ \A i \in ImpeachBlocks : ParentInChain(w, i) => ParentInChain(w, i)'
  <2>1. /\ Len(chain'[w]) = Len(chain[w]) + 1 /\ Len(chain[w]) \in Nat
        /\ DOMAIN chain[w] = 1 .. Len(chain[w]) /\ DOMAIN chain'[w] = 1 .. Len(chain[w]) + 1
        /\ \A n \in 1 .. Len(chain[w]) : chain'[w][n] = chain[w][n]
    BY <1>1, <1>3
  <2>2. \A i \in ImpeachBlocks : Number[i] \in Nat
    BY BlockFacts DEF Blocks
  <2> QED
    BY <2>1, <2>2 DEF ParentInChain
<1> QED
  BY <1>1, <1>2, <1>3 DEF Grown

\* The tail of FSM, when a handler that ends in Idle does not run ahead of the chain.
LEMMA FSMTail ==
    ASSUME TypeOK, TypeOK', NEW v \in Validators, NEW st \in States, NEW n \in Nat \ {0}, NEW handled,
           FSM(v, st, n, handled), st = "Idle" => n <= Len(chain'[v]) + 1
    PROVE  TailOfFsm(v)
<1>1. /\ failback' = failback
      /\ \A w \in Validators \ {v} :
            impeach'[w] = impeach[w] /\ state'[w] = state[w] /\ number'[w] = number[w]
  BY DEF FSM, TypeOK
<1>2. Len(chain'[v]) \in Nat
  BY DEF TypeOK
<1>3. PICK armed : /\ impeach'[v] = [i \in ImpeachBlocks |->
                         CASE i \in handled -> "done"
                           [] i \in armed \ handled /\ impeach[v][i] = "none" -> "armed"
                           [] OTHER -> impeach[v][i]]
                   /\ armed \subseteq tryToImpeach(v)'
                   /\ n < Len(chain'[v]) + 1 \/ st = "Idle" => armed = tryToImpeach(v)'
  <2> DEFINE A == IF n < Len(chain'[v]) + 1 \/ st = "Idle" THEN tryToImpeach(v)' ELSE {}
  <2>1. impeach'[v] = [i \in ImpeachBlocks |->
                         CASE i \in handled -> "done"
                           [] i \in A \ handled /\ impeach[v][i] = "none" -> "armed"
                           [] OTHER -> impeach[v][i]]
    BY Zenon DEF FSM, TypeOK
  <2>2. A \subseteq tryToImpeach(v)' /\ (n < Len(chain'[v]) + 1 \/ st = "Idle" => A = tryToImpeach(v)')
    BY Zenon
  <2> HIDE DEF A
  <2> QED
    BY <2>1, <2>2
<1>4. \A i \in ImpeachBlocks :
          /\ impeach[v][i] # "none" => impeach'[v][i] # "none"
          /\ impeach'[v][i] = "armed" => impeach[v][i] = "armed" \/ i \in tryToImpeach(v)'
          /\ i \in armed => impeach'[v][i] # "none"
  BY <1>3
<1>5. state'[v] = "Idle" => /\ n < Len(chain'[v]) + 1 \/ st = "Idle"
                            /\ number'[v] <= Len(chain'[v]) + 1
  BY <1>2 DEF FSM, TypeOK
<1>6. tryToImpeach(v)' \subseteq ImpeachBlocks
  BY DEF tryToImpeach
<1> QED
  BY <1>1, <1>3, <1>4, <1>5, <1>6 DEF TailOfFsm

\* A handler without output leaves an idle machine level with its chain.
LEMMA NoOutputTail ==
    ASSUME TypeOK, TypeOK', Level, NEW v \in Validators, Grown(v), NEW handled, NoOutput(v, handled)
    PROVE  TailOfFsm(v)
<1>1. PICK st \in States, n \in Nat \ {0} : st = state[v] /\ n = number[v]
  BY DEF TypeOK
<1>2. Len(chain[v]) \in Nat /\ Len(chain'[v]) \in Nat /\ Len(chain[v]) <= Len(chain'[v])
  BY GrownChain
<1>3. st = "Idle" => n <= Len(chain[v]) + 1
  BY <1>1 DEF Level
<1>4. st = "Idle" => n <= Len(chain'[v]) + 1
  BY <1>2, <1>3
<1> QED
  BY <1>1, <1>4, FSMTail DEF NoOutput

\* A complete certificate never ends in Idle by itself.
LEMMA OnceTail ==
    ASSUME TypeOK, TypeOK', NEW v \in Validators, NEW b \in Blocks, NEW handled,
           \/ onceCommitCertificateSatisfied(v, b, handled)
           \/ onceImpeachCommitCertificateSatisfied(v, b, handled)
           \/ oncePrepareCertificateSatisfied(v, b, handled)
           \/ onceImpeachPrepareCertificateSatisfied(v, b, handled)
    PROVE  TailOfFsm(v)
<1>1. \/ FSM(v, "Validate", Number[b], handled) \/ FSM(v, "Commit", Number[b], handled)
      \/ FSM(v, "ImpeachCommit", Number[b], handled)
  BY DEF onceCommitCertificateSatisfied, onceImpeachCommitCertificateSatisfied,
         oncePrepareCertificateSatisfied, onceImpeachPrepareCertificateSatisfied
<1>2. PICK n \in Nat \ {0} : n = Number[b]
  BY BlockFacts
<1> QED
  BY <1>1, <1>2, FSMTail DEF States

\* Every handler ends in the tail of FSM, but for an impeach block that is outdated.
LEMMA HandlerTail ==
    ASSUME TypeOK, TypeOK', Level, NEW v \in Validators, Grown(v), NEW b \in Blocks,
           \/ Absorb(v, b) \/ CachePreprepareMsg(v, b) \/ HandlePreprepareMsg(v, b)
           \/ HandlePrepareMsg(v, b) \/ HandleCommitMsg(v, b) \/ HandleValidateMsg(v, b)
           \/ b \in ImpeachBlocks /\ HandleImpeachPreprepareMsg(v, b)
           \/ HandleImpeachPrepareMsg(v, b) \/ HandleImpeachCommitMsg(v, b)
           \/ HandleImpeachValidateMsg(v, b)
    PROVE  TailOfFsm(v) \/ Quiet(v)
<1>0. PICK n \in Nat \ {0} : n = Number[b]
  BY BlockFacts
<1>1. CASE Absorb(v, b) \/ CachePreprepareMsg(v, b)
  BY <1>1, NoOutputTail DEF Absorb, CachePreprepareMsg
<1>2. CASE HandlePreprepareMsg(v, b)
  <2>1. CASE FSM(v, "Prepare", Number[b], {})
    BY <1>0, <2>1, FSMTail DEF States
  <2> QED
    BY <1>2, <2>1, OnceTail DEF HandlePreprepareMsg
<1>3. CASE HandlePrepareMsg(v, b) \/ HandleCommitMsg(v, b) \/ HandleImpeachPrepareMsg(v, b)
           \/ HandleImpeachCommitMsg(v, b)
  BY <1>3, OnceTail DEF HandlePrepareMsg, HandleCommitMsg, HandleImpeachPrepareMsg,
                        HandleImpeachCommitMsg
<1>4. CASE HandleValidateMsg(v, b) \/ HandleImpeachValidateMsg(v, b)
  <2>1. CASE NoOutput(v, {})
    BY <2>1, NoOutputTail
  <2>2. CASE InsertChain(v, b) /\ FSM(v, "Idle", Number[b], {})
    <3>1. Len(chain[v]) \in Nat /\ Len(chain'[v]) \in Nat /\ Len(chain[v]) <= Len(chain'[v])
      <4>1. /\ Len(chain[v]) \in Nat /\ Len(chain'[v]) \in Nat
            /\ Len(chain'[v]) = Len(chain[v]) \/ Len(chain'[v]) = Len(chain[v]) + 1
        BY GrownChain
      <4> QED
        BY <4>1
    <3>2. n <= Len(chain'[v]) + 1
      BY <1>0, <2>2, <3>1 DEF InsertChain, Insertable
    <3> QED
      BY <1>0, <2>2, <3>2, FSMTail DEF States
  <2> QED
    BY <1>4, <2>1, <2>2 DEF HandleValidateMsg, HandleImpeachValidateMsg, ValidateMsg
<1>5. CASE b \in ImpeachBlocks /\ HandleImpeachPreprepareMsg(v, b)
  <2>1. CASE NoOutput(v, {b})
    BY <2>1, NoOutputTail
  <2>2. CASE FSM(v, "ImpeachPrepare", Number[b], {b})
    BY <1>0, <2>2, FSMTail DEF States
  <2>3. CASE onceImpeachPrepareCertificateSatisfied(v, b, {b})
    BY <2>3, OnceTail
  <2>4. CASE /\ impeach' = [impeach EXCEPT ![v][b] = "done"]
             /\ UNCHANGED <<signed, fsm, blockCache, failback, restarts, network>>
    BY <2>4 DEF Quiet, fsm, TypeOK
  <2> QED
    BY <1>5, <2>1, <2>2, <2>3, <2>4 DEF HandleImpeachPreprepareMsg
<1> QED
  BY <1>1, <1>2, <1>3, <1>4, <1>5

-----------------------------------------------------------------------------
(* What a step of the whole committee does to one validator.               *)

StepOf(v) ==
    /\ TypeOK'
    /\ Grown(v)
    /\ Outcome(v)
    /\ TailOfFsm(v) \/ Quiet(v) \/ Restart(v)

\* A step that changes neither the machines nor what justifies them.
LEMMA UnmovedOutcome ==
    ASSUME TypeOK, AllJustified, NEW v \in Validators, state' = state, number' = number,
           sigs \subseteq sigs', validates \subseteq validates'
    PROVE  Outcome(v)
<1>1. PICK st \in States, n \in Nat \ {0} : st = state[v] /\ n = number[v] /\ n >= number[v]
  BY DEF TypeOK
<1>2. Justified(v, st, n)
  BY <1>1 DEF AllJustified
<1>3. Justified(v, st, n)'
  BY <1>2, JustifiedGrows
<1>4. Moved(v, st, n)
  BY <1>1, <1>3 DEF Moved, TypeOK
<1> QED
  BY <1>4 DEF Outcome

\* A restart returns to Idle.
LEMMA RestartOutcome ==
    ASSUME TypeOK, NEW v \in Validators, Restart(v)
    PROVE  Outcome(v)
<1>1. PICK n \in Nat \ {0} : n = Len(chain[v]) + 1
  BY DEF TypeOK
<1>2. Justified(v, "Idle", n)' /\ "Idle" \in States
  BY DEF Justified, States
<1>3. restarts' # restarts
  BY DEF Restart, TypeOK
<1>4. Moved(v, "Idle", n)
  BY <1>1, <1>2, <1>3 DEF Moved, Restart
<1> QED
  BY <1>2, <1>4 DEF Outcome, Restart, network

\* Every step is a step of one validator.
LEMMA NextStepOf ==
    ASSUME IInv, FsmInv, Level, Next
    PROVE  \E v \in Validators : StepOf(v)
<1>1. /\ TypeOK /\ V!CertifiedChains /\ AllJustified /\ Live \subseteq Validators
      /\ NormalBlocks \subseteq Blocks /\ ImpeachBlocks \subseteq Blocks
  BY CommitteeAssumption DEF IInv, V!VotingInv, FsmInv, Blocks
<1>2. ASSUME NEW b \in NormalBlocks, Propose(b)
      PROVE  \E v \in Validators : StepOf(v)
  <2>1. PICK v : v \in Validators
    BY CommitteeAssumption, FS_EmptySet
  <2>2. TypeOK' /\ Effect(v)
    BY <1>1, <1>2, <2>1, ProposeStep
  <2>3. Quiet(v) /\ sigs' = sigs /\ validates' = validates /\ state' = state /\ number' = number
    BY <1>2 DEF Propose, Quiet, fsm, timers
  <2>4. Outcome(v)
    BY <1>1, <2>1, <2>3, UnmovedOutcome
  <2> QED
    BY <1>1, <2>1, <2>2, <2>3, <2>4, EffectGrows DEF StepOf
<1>3. ASSUME NEW v \in Live, NEW b \in Blocks, Absorb(v, b)
      PROVE  StepOf(v)
  <2>1. v \in Validators /\ TypeOK' /\ Effect(v)
    BY <1>1, <1>3, AbsorbStep
  <2>2. Grown(v)
    BY <1>1, <2>1, EffectGrows
  <2>3. Outcome(v)
    BY <1>1, <1>3, <2>1, NoOutputOutcome DEF Absorb
  <2> QED
    BY <1>1, <1>3, <2>1, <2>2, <2>3, HandlerTail DEF StepOf
<1>4. ASSUME NEW v \in Live, NEW b \in NormalBlocks,
             \/ CachePreprepareMsg(v, b)
             \/ HandlePreprepareMsg(v, b)
             \/ HandlePrepareMsg(v, b)
             \/ HandleCommitMsg(v, b)
             \/ HandleValidateMsg(v, b)
      PROVE  StepOf(v)
  <2>1. v \in Validators /\ b \in Blocks
    BY <1>1
  <2>2. TypeOK' /\ Effect(v)
    BY <1>1, <1>4, <2>1, CachePreprepareStep, PreprepareStep, PrepareStep, CommitStep, ValidateStep
  <2>3. Grown(v)
    BY <1>1, <2>1, <2>2, EffectGrows
  <2>4. Outcome(v)
    BY <1>1, <1>4, <2>1, <2>2, NormalOutcome, ValidateOutcome
  <2>5. TailOfFsm(v) \/ Quiet(v)
    BY <1>1, <1>4, <2>1, <2>2, <2>3, HandlerTail
  <2> QED
    BY <2>2, <2>3, <2>4, <2>5 DEF StepOf
<1>5. ASSUME NEW v \in Live, NEW i \in ImpeachBlocks,
             \/ HandleImpeachPreprepareMsg(v, i)
             \/ HandleImpeachPrepareMsg(v, i)
             \/ HandleImpeachCommitMsg(v, i)
             \/ HandleImpeachValidateMsg(v, i)
      PROVE  StepOf(v)
  <2>1. v \in Validators /\ i \in Blocks
    BY <1>1
  <2>2. TypeOK' /\ Effect(v)
    BY <1>1, <1>5, <2>1, ImpeachPreprepareStep, ImpeachPrepareStep, CommitStep, ValidateStep
  <2>3. Grown(v)
    BY <1>1, <2>1, <2>2, EffectGrows
  <2>4. Outcome(v)
    BY <1>1, <1>5, <2>1, <2>2, ImpeachOutcome, ValidateOutcome
  <2>5. TailOfFsm(v) \/ Quiet(v)
    BY <1>1, <1>5, <2>1, <2>2, <2>3, HandlerTail
  <2> QED
    BY <2>2, <2>3, <2>4, <2>5 DEF StepOf
<1>6. ASSUME NEW v \in Live, NEW u \in Validators, SyncFrom(v, u)
      PROVE  StepOf(v)
  <2>1. v \in Validators /\ TypeOK' /\ Effect(v)
    BY <1>1, <1>6, SyncStep
  <2>2. Quiet(v) /\ sigs' = sigs /\ validates' = validates /\ state' = state /\ number' = number
    BY <1>6 DEF SyncFrom, Quiet, fsm, timers, network
  <2>3. Outcome(v)
    BY <1>1, <2>1, <2>2, UnmovedOutcome
  <2> QED
    BY <1>1, <2>1, <2>2, <2>3, EffectGrows DEF StepOf
<1>7. ASSUME NEW v \in Live, Restart(v)
      PROVE  StepOf(v)
  <2>1. v \in Validators /\ TypeOK' /\ Effect(v)
    BY <1>1, <1>7, RestartStep
  <2> QED
    BY <1>1, <1>7, <2>1, EffectGrows, RestartOutcome DEF StepOf
<1> QED
  BY <1>1, <1>2, <1>3, <1>4, <1>5, <1>6, <1>7 DEF Next

-----------------------------------------------------------------------------
(* The invariants.                                                         *)

\* A block that extends the head has its parent on the chain.
LEMMA OnHeadInChain ==
    ASSUME NEW v \in Validators, chain[v] \in Seq(Blocks), NEW i \in ImpeachBlocks,
           Parent[i] = Tip(v), Number[i] = Len(chain[v]) + 1
    PROVE  ParentInChain(v, i)
<1>1. CASE chain[v] = <<>>
  BY <1>1 DEF Tip, ParentInChain
<1>2. CASE chain[v] # <<>>
  <2>1. /\ Len(chain[v]) \in Nat \ {0} /\ DOMAIN chain[v] = 1 .. Len(chain[v])
        /\ Number[i] - 1 = Len(chain[v])
    BY <1>2
  <2>2. Parent[i] = chain[v][Len(chain[v])]
    BY <1>2 DEF Tip
  <2> QED
    BY <2>1, <2>2 DEF ParentInChain
<1> QED
  BY <1>1, <1>2

\* Both invariants hold when the validators start.
LEMMA FsmInitially == Init => FsmInv /\ Level
<1> SUFFICES ASSUME Init PROVE FsmInv /\ Level
  OBVIOUS
<1>1. AllJustified
  BY DEF Init, AllJustified, Justified
<1>2. Level
  <2>1. \A v \in Validators : Len(chain[v]) = 0 /\ number[v] = 1 /\ failback[v] \in {0, 1}
    BY DEF Init
  <2> QED
    BY <2>1 DEF Level
<1>3. ArmedOnChain
  <2> SUFFICES ASSUME NEW v \in Validators, NEW i \in ImpeachBlocks, impeach[v][i] = "armed"
               PROVE  ParentInChain(v, i)
    BY DEF ArmedOnChain
  <2>1. chain[v] = <<>> /\ chain[v] \in Seq(Blocks)
    BY DEF Init
  <2>2. Parent[i] = Tip(v) /\ Number[i] = Len(chain[v]) + 1
    BY DEF Init, Armed, FailbackBlocks, tryToImpeach
  <2> QED
    BY <2>1, <2>2, OnHeadInChain
<1> QED
  BY <1>1, <1>2, <1>3 DEF FsmInv

\* A timer is armed on a chain that only grows.
LEMMA ArmedStep ==
    ASSUME TypeOK, ArmedOnChain, NEW v \in Validators, StepOf(v)
    PROVE  ArmedOnChain'
<1> SUFFICES ASSUME NEW w \in Validators, NEW i \in ImpeachBlocks, impeach'[w][i] = "armed"
             PROVE  ParentInChain(w, i)'
  BY DEF ArmedOnChain
<1>1. chain'[w] \in Seq(Blocks) /\ Grown(v)
  BY DEF StepOf, TypeOK
<1>2. CASE impeach[w][i] = "armed"
  BY <1>1, <1>2, GrownChain DEF ArmedOnChain
<1>3. CASE Parent[i] = Tip(w)' /\ Number[i] = Len(chain'[w]) + 1
  <2>1. CASE chain'[w] = <<>>
    BY <1>3, <2>1 DEF Tip, ParentInChain
  <2>2. CASE chain'[w] # <<>>
    <3>1. /\ Len(chain'[w]) \in Nat \ {0} /\ DOMAIN chain'[w] = 1 .. Len(chain'[w])
          /\ Number[i] - 1 = Len(chain'[w])
      BY <1>1, <1>3, <2>2
    <3>2. Parent[i] = chain'[w][Len(chain'[w])]
      BY <1>3, <2>2 DEF Tip
    <3> QED
      BY <3>1, <3>2 DEF ParentInChain
  <2> QED
    BY <2>1, <2>2
<1>4. CASE TailOfFsm(v)
  BY <1>2, <1>3, <1>4 DEF TailOfFsm, tryToImpeach
<1>5. CASE Quiet(v)
  BY <1>2, <1>5 DEF Quiet
<1>6. CASE Restart(v)
  <2>1. chain' = chain
    BY <1>6 DEF Restart, persistent
  <2>2. PICK k \in Samples : impeach' = [impeach EXCEPT ![v] = Armed(FailbackBlocks(v, k))]
    BY <1>6 DEF Restart
  <2>3. CASE w = v
    <3>1. i \in FailbackBlocks(v, k)
      BY <2>2, <2>3 DEF Armed, TypeOK
    <3>2. Parent[i] = Tip(w) /\ Number[i] = Len(chain[w]) + 1
      BY <2>3, <3>1 DEF FailbackBlocks
    <3>3. Tip(w)' = Tip(w)
      BY <2>1 DEF Tip
    <3> QED
      BY <1>3, <2>1, <3>2, <3>3
  <2>4. CASE w # v
    BY <1>2, <2>2, <2>4 DEF TypeOK
  <2> QED
    BY <2>3, <2>4
<1> QED
  BY <1>4, <1>5, <1>6 DEF StepOf

\* No machine is left ahead of its chain.
LEMMA LevelStep ==
    ASSUME TypeOK, Level, NEW v \in Validators, StepOf(v)
    PROVE  Level'
<1> SUFFICES ASSUME NEW w \in Validators
             PROVE  /\ state'[w] = "Idle" => number'[w] <= Len(chain'[w]) + 1
                    /\ failback'[w] <= Len(chain'[w]) + 1
  BY DEF Level
<1>1. PICK k \in Nat, l \in Nat : k = Len(chain[w]) /\ l = Len(chain'[w]) /\ (l = k \/ l = k + 1)
  <2>1. Grown(v)
    BY DEF StepOf
  <2> QED
    BY <2>1, GrownChain
<1>2. PICK n \in Nat, f \in Nat : n = number[w] /\ f = failback[w]
  BY DEF TypeOK
<1>3. (state[w] = "Idle" => n <= k + 1) /\ f <= k + 1
  BY <1>1, <1>2 DEF Level
<1>4. (state[w] = "Idle" => n <= l + 1) /\ f <= l + 1
  BY <1>1, <1>3
<1>5. CASE state'[w] = state[w] /\ number'[w] = n /\ failback'[w] = f
  BY <1>1, <1>4, <1>5
<1>6. CASE TailOfFsm(v)
  <2>1. failback'[w] = f
    BY <1>2, <1>6 DEF TailOfFsm
  <2>2. CASE w = v
    <3>1. state'[w] = "Idle" => number'[w] <= Len(chain'[w]) + 1
      BY <1>6, <2>2 DEF TailOfFsm
    <3> QED
      BY <1>1, <1>4, <2>1, <3>1
  <2>3. CASE w # v
    <3>1. state'[w] = state[w] /\ number'[w] = number[w]
      BY <1>6, <2>3 DEF TailOfFsm
    <3> QED
      BY <1>2, <1>5, <2>1, <3>1
  <2> QED
    BY <2>2, <2>3
<1>7. CASE Quiet(v)
  BY <1>2, <1>5, <1>7 DEF Quiet
<1>8. CASE Restart(v)
  <2>1. /\ chain' = chain
        /\ number'[w] = IF w = v THEN Len(chain[v]) + 1 ELSE number[w]
        /\ failback'[w] = IF w = v THEN Len(chain[v]) + 1 ELSE failback[w]
        /\ state'[w] = IF w = v THEN "Idle" ELSE state[w]
    BY <1>8 DEF Restart, persistent, TypeOK
  <2>2. CASE w = v
    <3>1. number'[w] = k + 1 /\ failback'[w] = k + 1 /\ l = k
      BY <1>1, <2>1, <2>2
    <3> QED
      BY <1>1, <3>1
  <2>3. CASE w # v
    BY <1>2, <1>5, <2>1, <2>3
  <2> QED
    BY <2>2, <2>3
<1> QED
  BY <1>6, <1>7, <1>8 DEF StepOf

\* What every state stands for is kept, and no number goes back.
LEMMA JustifiedStep ==
    ASSUME TypeOK, AllJustified, NEW v \in Validators, StepOf(v)
    PROVE  /\ AllJustified'
           /\ \A w \in Validators : number'[w] >= number[w] \/ restarts' # restarts
<1>1. sigs \subseteq sigs' /\ validates \subseteq validates'
  BY DEF StepOf, Outcome
<1>2. PICK st \in States, n \in Nat \ {0} : Moved(v, st, n)
  BY DEF StepOf, Outcome
<1>3. \A w \in Validators : /\ state'[w] = IF w = v THEN st ELSE state[w]
                            /\ number'[w] = IF w = v THEN n ELSE number[w]
                            /\ number[w] \in Nat
  BY <1>2 DEF Moved, TypeOK
<1>4. \A w \in Validators : number'[w] >= number[w] \/ restarts' # restarts
  BY <1>2, <1>3 DEF Moved
<1>5. ASSUME NEW w \in Validators PROVE Justified(w, state[w], number[w])'
  <2>1. CASE w = v
    BY <1>2, <1>3, <2>1 DEF Moved, Justified
  <2>2. CASE w # v
    <3>1. PICK s, m : s = state[w] /\ m = number[w]
      OBVIOUS
    <3>2. Justified(w, s, m)
      BY <3>1 DEF AllJustified
    <3>3. Justified(w, s, m)'
      BY <1>1, <3>2, JustifiedGrows
    <3> QED
      BY <1>3, <2>2, <3>1, <3>3 DEF Justified
  <2> QED
    BY <2>1, <2>2
<1> QED
  BY <1>4, <1>5 DEF AllJustified

\* The inductive invariant of the machines: the voting rules are kept, every state
\* is justified, every timer is on the chain, no idle machine is ahead.
MachineInv == IInv /\ FsmInv /\ Level

\* Every step from the invariant, stuttering included, is a step of one validator.
LEMMA SomeStepOf ==
    ASSUME MachineInv, [Next]_vars
    PROVE  \E v \in Validators : StepOf(v)
<1>1. TypeOK /\ AllJustified /\ TypeOK'
  BY StepInv DEF MachineInv, IInv, FsmInv
<1>2. CASE Next
  BY <1>2, NextStepOf DEF MachineInv
<1>3. CASE UNCHANGED vars
  <2>1. PICK v : v \in Validators
    BY CommitteeAssumption, FS_EmptySet
  <2>2. Quiet(v) /\ Grown(v)
    BY <1>3 DEF vars, Quiet, Grown
  <2>3. Outcome(v)
    BY <1>1, <1>3, <2>1, UnmovedOutcome DEF vars
  <2> QED
    BY <1>1, <2>1, <2>2, <2>3 DEF StepOf
<1> QED
  BY <1>2, <1>3

\* One step from the invariant.
LEMMA MachineStep ==
    ASSUME MachineInv, [Next]_vars
    PROVE  /\ MachineInv'
           /\ \A w \in Validators : number'[w] >= number[w] \/ restarts' # restarts
<1>1. IInv'
  BY StepInv DEF MachineInv
<1>2. TypeOK /\ AllJustified /\ ArmedOnChain /\ Level
  BY DEF MachineInv, IInv, FsmInv
<1>3. PICK v \in Validators : StepOf(v)
  BY SomeStepOf
<1> QED
  BY <1>1, <1>2, <1>3, ArmedStep, LevelStep, JustifiedStep DEF MachineInv, FsmInv

\* The invariant holds in every behaviour.
THEOREM MachineInvariant == Spec => []MachineInv
<1>1. Init => MachineInv
  BY InitInv, FsmInitially DEF MachineInv
<1>2. MachineInv /\ [Next]_vars => MachineInv'
  BY MachineStep
<1> QED
  BY <1>1, <1>2, PTL DEF Spec

\* The state of every validator stands for what it says, in every behaviour:
\* certificates it acts on exist, it has signed what it impeaches with, and what
\* it calls validated carries the signatures verifySignatures asks for.
THEOREM StatesJustified == Spec => []StateJustified
<1>1. ASSUME MachineInv PROVE StateJustified
  <2> SUFFICES ASSUME NEW v \in Validators
               PROVE  LET At(S) == {b \in S : Number[b] = number[v]}
                      IN  CASE state[v] = "Commit" ->
                                   \E b \in At(NormalBlocks) : prepareCertificate(b) \/ commitCertificate(b)
                            [] state[v] = "ImpeachPrepare" ->
                                   \E i \in At(ImpeachBlocks) : <<v, i, "Prepare">> \in sigs
                            [] state[v] = "ImpeachCommit" ->
                                   \E i \in At(ImpeachBlocks) :
                                       impeachPrepareCertificate(i) \/ impeachCommitCertificate(i)
                            [] state[v] = "Validate" ->
                                   \E b \in At(Blocks) : <<v, b>> \in validates /\ verifySignatures(b)
                            [] OTHER -> TRUE
    BY DEF StateJustified
  <2>1. Justified(v, state[v], number[v])
    BY <1>1 DEF MachineInv, FsmInv, AllJustified
  <2> QED
    BY <2>1 DEF Justified
<1> QED
  BY <1>1, MachineInvariant, PTL

\* LBFT2.number never goes back, but for a restart.
THEOREM NumbersMonotone == Spec => NumberMonotone
<1>1. ASSUME MachineInv, [Next]_vars
      PROVE  [\A v \in Validators : number'[v] >= number[v] \/ restarts' # restarts]_vars
  BY <1>1, MachineStep
<1> QED
  BY <1>1, MachineInvariant, PTL DEF Spec, NumberMonotone

-----------------------------------------------------------------------------
(* An idle validator has a timer.                                          *)

TimeoutBlockOn(p, n) == \E i \in ImpeachBlocks : Parent[i] = p /\ Number[i] = n /\ Tick[i] = 0
FailbackBlockOn(p, n, k) ==
    \E i \in ImpeachBlocks : Parent[i] = p /\ Number[i] = n /\ Tick[i] \in {k, k + 1}
\* The impeach blocks validators would make exist among the blocks considered: on
\* every possible head, at every height considered, the timeout block and one of the
\* two failback blocks of every sample.
ImpeachBlocksExist ==
    \A p \in Blocks \cup {Genesis}, n \in Heights :
        n = (IF p = Genesis THEN 1 ELSE Number[p] + 1) =>
            /\ TimeoutBlockOn(p, n)
            /\ \A k \in Samples \cup {Sample[v] : v \in Validators} : k > 0 => FailbackBlockOn(p, n, k)

HasTimer(v) ==
    \E i \in ImpeachBlocks : /\ Number[i] = Len(chain[v]) + 1
                             /\ Parent[i] = Tip(v)
                             /\ impeach[v][i] # "none"

\* The failback height has a timer until the chain has passed it.
FailbackHasTimer ==
    \A v \in Validators :
        failback[v] = Len(chain[v]) + 1 /\ failback[v] \in Heights => HasTimer(v)

\* Where the impeach blocks exist, there are blocks for both kinds of timers on the
\* head of every chain s whose blocks are at their heights.
LEMMA TimerBlocks ==
    ASSUME ImpeachBlocksExist, NEW s \in Seq(Blocks), \A n \in DOMAIN s : Number[s[n]] = n,
           Len(s) + 1 \in Heights, NEW t, t = IF s = <<>> THEN Genesis ELSE s[Len(s)]
    PROVE  /\ TimeoutBlockOn(t, Len(s) + 1)
           /\ \A k \in Samples \cup {Sample[v] : v \in Validators} :
                 k > 0 => FailbackBlockOn(t, Len(s) + 1, k)
<1>1. /\ t \in Blocks \cup {Genesis}
      /\ Len(s) + 1 = IF t = Genesis THEN 1 ELSE Number[t] + 1
  <2>1. CASE s = <<>>
    BY <2>1
  <2>2. CASE s # <<>>
    <3>1. Len(s) \in DOMAIN s /\ t = s[Len(s)] /\ t \in Blocks
      BY <2>2
    <3>2. Number[t] = Len(s) /\ t # Genesis
      BY <3>1, BlockAssumption
    <3> QED
      BY <3>1, <3>2
  <2> QED
    BY <2>1, <2>2
<1> QED
  BY <1>1 DEF ImpeachBlocksExist

\* The same for the chain of v.
LEMMA TimersForHead ==
    ASSUME ImpeachBlocksExist, NEW v \in Validators, chain[v] \in Seq(Blocks), V!CertifiedChains,
           Len(chain[v]) + 1 \in Heights
    PROVE  /\ failback[v] # Len(chain[v]) + 1 => tryToImpeach(v) # {}
           /\ \A k \in Samples \cup {Sample[w] : w \in Validators} : k > 0 => FailbackBlocks(v, k) # {}
<1>1. \A n \in DOMAIN chain[v] : Number[chain[v][n]] = n
  BY DEF V!CertifiedChains
<1>2. /\ TimeoutBlockOn(Tip(v), Len(chain[v]) + 1)
      /\ \A k \in Samples \cup {Sample[w] : w \in Validators} :
            k > 0 => FailbackBlockOn(Tip(v), Len(chain[v]) + 1, k)
  BY <1>1, TimerBlocks DEF Tip
<1> QED
  BY <1>2 DEF TimeoutBlockOn, FailbackBlockOn, tryToImpeach, FailbackBlocks

\* Both parts of the timer invariant hold when the validators start.
LEMMA TimersInitially ==
    ASSUME Init, ImpeachBlocksExist
    PROVE  FailbackHasTimer /\ IdleHasTimer
<1>1. IInv
  BY InitInv
<1>2. ASSUME NEW v \in Validators, Len(chain[v]) + 1 \in Heights PROVE HasTimer(v)
  <2>1. chain[v] \in Seq(Blocks) /\ V!CertifiedChains /\ Sample[v] \in Nat
    BY <1>1, CommitteeAssumption DEF IInv, TypeOK, V!VotingInv
  <2>2. CASE Sample[v] > 0
    <3>1. PICK i : i \in FailbackBlocks(v, Sample[v])
      BY <1>2, <2>1, <2>2, TimersForHead
    <3>2. impeach[v][i] = "armed" /\ i \in ImpeachBlocks
      BY <2>2, <3>1 DEF Init, Armed, FailbackBlocks
    <3> QED
      BY <3>1, <3>2 DEF HasTimer, FailbackBlocks
  <2>3. CASE ~(Sample[v] > 0)
    <3>1. failback[v] # Len(chain[v]) + 1
      BY <2>3 DEF Init
    <3>2. PICK i : i \in tryToImpeach(v)
      BY <1>2, <2>1, <3>1, TimersForHead
    <3>3. impeach[v][i] = "armed" /\ i \in ImpeachBlocks
      BY <2>3, <3>2 DEF Init, Armed, tryToImpeach
    <3> QED
      BY <3>2, <3>3 DEF HasTimer, tryToImpeach
  <2> QED
    BY <2>2, <2>3
<1>3. FailbackHasTimer
  BY <1>2 DEF FailbackHasTimer
<1>4. IdleHasTimer
  BY <1>2 DEF IdleHasTimer, HasTimer
<1> QED
  BY <1>3, <1>4

\* A timer on an unchanged head is kept by every step but a restart.
LEMMA TimerKept ==
    ASSUME TypeOK, NEW v \in Validators, TailOfFsm(v) \/ Quiet(v),
           NEW w \in Validators, chain'[w] = chain[w], HasTimer(w)
    PROVE  HasTimer(w)'
<1>1. PICK i \in ImpeachBlocks : /\ Number[i] = Len(chain[w]) + 1
                                 /\ Parent[i] = Tip(w)
                                 /\ impeach[w][i] # "none"
  BY DEF HasTimer
<1>2. impeach'[w][i] # "none"
  BY <1>1 DEF TailOfFsm, Quiet
<1>3. Tip(w)' = Tip(w)
  BY DEF Tip
<1> QED
  BY <1>1, <1>2, <1>3 DEF HasTimer

\* The failback height keeps its timer: it can only be passed, or set again by a
\* restart that arms the failback timers.
LEMMA FailbackStep ==
    ASSUME MachineInv, ImpeachBlocksExist, FailbackHasTimer, NEW v \in Validators, StepOf(v)
    PROVE  FailbackHasTimer'
<1> SUFFICES ASSUME NEW w \in Validators, failback'[w] = Len(chain'[w]) + 1, failback'[w] \in Heights
             PROVE  HasTimer(w)'
  BY DEF FailbackHasTimer
<1>1. /\ TypeOK /\ Level /\ Grown(v) /\ V!CertifiedChains
  BY DEF MachineInv, IInv, StepOf, V!VotingInv
<1>2. /\ Len(chain[w]) \in Nat /\ Len(chain'[w]) \in Nat /\ Len(chain[w]) <= Len(chain'[w])
      /\ Len(chain'[w]) = Len(chain[w]) => chain'[w] = chain[w]
  BY <1>1, GrownChain
<1>3. failback[w] \in Nat /\ failback[w] <= Len(chain[w]) + 1 /\ chain[w] \in Seq(Blocks)
  BY <1>1 DEF Level, TypeOK
<1>4. CASE failback'[w] = failback[w] /\ (TailOfFsm(v) \/ Quiet(v))
  <2>1. Len(chain'[w]) = Len(chain[w])
    BY <1>2, <1>3, <1>4
  <2>2. chain'[w] = chain[w] /\ HasTimer(w)
    BY <1>2, <1>4, <2>1 DEF FailbackHasTimer
  <2> QED
    BY <1>1, <1>4, <2>2, TimerKept
<1>5. CASE TailOfFsm(v) \/ Quiet(v)
  BY <1>4, <1>5 DEF TailOfFsm, Quiet
<1>6. CASE Restart(v)
  <2>1. chain' = chain
    BY <1>6 DEF Restart, persistent
  <2>2. PICK k \in Samples : impeach' = [impeach EXCEPT ![v] = Armed(FailbackBlocks(v, k))]
    BY <1>6 DEF Restart
  <2>3. Tip(w)' = Tip(w)
    BY <2>1 DEF Tip
  <2>4. CASE w = v
    <3>1. k > 0
      BY BlockAssumption DEF Samples
    <3>2. PICK i : i \in FailbackBlocks(v, k)
      BY <1>1, <1>3, <2>1, <2>4, <3>1, TimersForHead
    <3>3. impeach'[v][i] = "armed" /\ i \in ImpeachBlocks
      BY <1>1, <2>2, <3>2 DEF Armed, FailbackBlocks, TypeOK
    <3> QED
      BY <2>1, <2>3, <2>4, <3>2, <3>3 DEF HasTimer, FailbackBlocks
  <2>5. CASE w # v
    <3>1. impeach'[w] = impeach[w] /\ failback'[w] = failback[w]
      BY <1>1, <1>6, <2>2, <2>5 DEF Restart, TypeOK
    <3> QED
      BY <2>1, <2>3, <3>1 DEF FailbackHasTimer, HasTimer
  <2> QED
    BY <2>4, <2>5
<1> QED
  BY <1>5, <1>6 DEF StepOf

\* A machine that comes to be idle and level with its chain has its timer: the tail
\* of FSM arms it, unless the height is the failback one, which has its own.
LEMMA IdleStep ==
    ASSUME MachineInv, MachineInv', ImpeachBlocksExist, IdleHasTimer, FailbackHasTimer',
           NEW v \in Validators, StepOf(v)
    PROVE  IdleHasTimer'
<1> SUFFICES ASSUME NEW w \in Validators, state'[w] = "Idle", number'[w] = Len(chain'[w]) + 1,
                    number'[w] \in Heights
             PROVE  HasTimer(w)'
  BY DEF IdleHasTimer, HasTimer
<1>1. TypeOK /\ Level /\ Grown(v)
  BY DEF MachineInv, IInv, StepOf
<1>2. /\ Len(chain[w]) \in Nat /\ Len(chain'[w]) \in Nat /\ Len(chain[w]) <= Len(chain'[w])
      /\ Len(chain'[w]) = Len(chain[w]) => chain'[w] = chain[w]
  <2>1. /\ Len(chain[w]) \in Nat /\ Len(chain'[w]) \in Nat
        /\ Len(chain'[w]) = Len(chain[w]) \/ Len(chain'[w]) = Len(chain[w]) + 1
        /\ Len(chain'[w]) = Len(chain[w]) => chain'[w] = chain[w]
    BY <1>1, GrownChain, Zenon
  <2>2. PICK k \in Nat, l \in Nat : k = Len(chain[w]) /\ l = Len(chain'[w])
    BY <2>1
  <2>3. k <= l
    BY <2>1, <2>2
  <2> QED
    BY <2>1, <2>2, <2>3
<1>3. CASE failback'[w] = Len(chain'[w]) + 1
  BY <1>3 DEF FailbackHasTimer
<1>4. CASE state'[w] = state[w] /\ number'[w] = number[w] /\ (TailOfFsm(v) \/ Quiet(v))
  <2>1. number[w] <= Len(chain[w]) + 1
    BY <1>1, <1>4 DEF Level
  <2>2. chain'[w] = chain[w]
    <3>1. PICK k \in Nat, l \in Nat : k = Len(chain[w]) /\ l = Len(chain'[w])
      BY <1>2
    <3>2. number[w] = l + 1
      BY <1>4, <3>1
    <3>3. k = l
      BY <1>2, <2>1, <3>1, <3>2
    <3> QED
      BY <1>2, <3>1, <3>3
  <2>3. HasTimer(w)
    BY <1>4, <2>2 DEF IdleHasTimer, HasTimer
  <2> QED
    BY <1>1, <1>4, <2>2, <2>3, TimerKept
<1>5. CASE Quiet(v)
  BY <1>4, <1>5 DEF Quiet
<1>6. CASE TailOfFsm(v) /\ failback'[w] # Len(chain'[w]) + 1
  <2>1. CASE w # v
    BY <1>4, <1>6, <2>1 DEF TailOfFsm
  <2>2. CASE w = v
    <3>1. chain'[v] \in Seq(Blocks) /\ V!CertifiedChains'
      BY DEF MachineInv, IInv, TypeOK, V!VotingInv
    <3>2. \A n \in DOMAIN chain'[v] : Number[chain'[v][n]] = n
      BY <3>1 DEF V!CertifiedChains
    <3>3. PICK i : i \in tryToImpeach(v)'
      <4>1. TimeoutBlockOn(Tip(v)', Len(chain'[v]) + 1)
        BY <2>2, <3>1, <3>2, TimerBlocks DEF Tip
      <4> QED
        BY <1>6, <2>2, <4>1 DEF TimeoutBlockOn, tryToImpeach
    <3>4. impeach'[v][i] # "none" /\ i \in ImpeachBlocks
      BY <1>6, <2>2, <3>3 DEF TailOfFsm, tryToImpeach
    <3> QED
      BY <2>2, <3>3, <3>4 DEF HasTimer, tryToImpeach
  <2> QED
    BY <2>1, <2>2
<1>7. CASE Restart(v)
  <2>1. CASE w = v
    <3>1. failback'[w] = Len(chain'[w]) + 1
      BY <1>1, <1>7, <2>1 DEF Restart, persistent, TypeOK
    <3> QED
      BY <1>3, <3>1
  <2>2. CASE w # v
    <3>1. /\ impeach'[w] = impeach[w] /\ state'[w] = state[w] /\ number'[w] = number[w]
          /\ chain' = chain
      BY <1>1, <1>7, <2>2 DEF Restart, persistent, TypeOK
    <3>2. Tip(w)' = Tip(w)
      BY <3>1 DEF Tip
    <3> QED
      BY <3>1, <3>2 DEF IdleHasTimer, HasTimer
  <2> QED
    BY <2>1, <2>2
<1> QED
  BY <1>3, <1>5, <1>6, <1>7 DEF StepOf

\* Where the impeach blocks exist, an idle validator that is level with its chain has
\* a timer for the next height or has used it, so that it never waits for a silent
\* proposer for ever: FSM, NewLBFT2 and restarts between them leave no gap.
THEOREM IdleTimers == ImpeachBlocksExist => (Spec => []IdleHasTimer)
<1> SUFFICES ASSUME ImpeachBlocksExist PROVE Spec => []IdleHasTimer
  OBVIOUS
<1> DEFINE TimerInv == MachineInv /\ FailbackHasTimer /\ IdleHasTimer
<1>1. Init => TimerInv
  BY InitInv, FsmInitially, TimersInitially DEF MachineInv
<1>2. ASSUME TimerInv, [Next]_vars PROVE TimerInv'
  <2>1. MachineInv /\ MachineInv'
    BY <1>2, MachineStep
  <2>2. PICK v \in Validators : StepOf(v)
    BY <1>2, <2>1, SomeStepOf
  <2>3. FailbackHasTimer'
    BY <1>2, <2>1, <2>2, FailbackStep
  <2> QED
    BY <1>2, <2>1, <2>2, <2>3, IdleStep
<1>3. TimerInv => IdleHasTimer
  OBVIOUS
<1> HIDE DEF TimerInv
<1> QED
  BY <1>1, <1>2, <1>3, PTL DEF Spec

=============================================================================
