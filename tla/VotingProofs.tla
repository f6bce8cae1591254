---------------------------- MODULE VotingProofs ----------------------------
(***************************************************************************)
(* Proof that the voting rules keep the chains in agreement about proposed *)
(* blocks, for every committee of 3f+1 validators and every set of blocks. *)
(***************************************************************************)
EXTENDS Voting, FiniteSetTheorems, TLAPS

\* Signers are committee members, so a set of them is finite.
LEMMA SignersFinite ==
    ASSUME NEW b \in Blocks, NEW p \in Phases
    PROVE  /\ Signers(b, p) \subseteq Validators
           /\ IsFiniteSet(Signers(b, p))
           /\ Cardinality(Signers(b, p)) \in Nat
BY FS_Subset, FS_CardinalityType, CommitteeAssumption DEF Signers

\* Two sets of 2f+1 signers, on whatever blocks, have a validator in common.
LEMMA QuorumsIntersect ==
    ASSUME NEW b \in NormalBlocks, NEW c \in NormalBlocks, NEW p \in Phases,
           Certificate(b, p), Certificate(c, p)
    PROVE  \E v \in Validators : <<v, b, p>> \in sigs /\ <<v, c, p>> \in sigs
<1>1. b \in Blocks /\ c \in Blocks /\ b \notin ImpeachBlocks /\ c \notin ImpeachBlocks
  BY BlockAssumption DEF Blocks
<1>2. /\ Cardinality(Signers(b, p)) >= 2 * Faulty + 1
      /\ Cardinality(Signers(c, p)) >= 2 * Faulty + 1
  BY <1>1 DEF Certificate
<1>3. Cardinality(Signers(b, p)) + Cardinality(Signers(c, p)) > Cardinality(Validators)
  BY <1>1, <1>2, SignersFinite, CommitteeAssumption
<1>4. Signers(b, p) \cap Signers(c, p) # {}
  BY <1>1, <1>3, SignersFinite, FS_MajoritiesIntersect, CommitteeAssumption
<1> QED
  BY <1>4 DEF Signers

\* More signatures keep a certificate complete.
LEMMA CertificatesGrow ==
    ASSUME NEW b \in Blocks, NEW p \in Phases, sigs \subseteq sigs', Certificate(b, p)
    PROVE  Certificate(b, p)'
<1>1. Signers(b, p) \subseteq Signers(b, p)' /\ IsFiniteSet(Signers(b, p)')
  BY FS_Subset, CommitteeAssumption DEF Signers
<1>2. Cardinality(Signers(b, p)) <= Cardinality(Signers(b, p)')
  BY <1>1, FS_Subset
<1>3. Cardinality(Signers(b, p)) \in Nat /\ Cardinality(Signers(b, p)') \in Nat
  BY <1>1, SignersFinite, FS_CardinalityType
<1> QED
  BY <1>2, <1>3, CommitteeAssumption DEF Certificate

\* The invariant implies agreement: the committers of two proposed blocks share
\* a validator, and it has signed one block only.
LEMMA InvImpliesAgreement == VotingInv => NormalAgreement
<1> SUFFICES ASSUME VotingInv,
                    NEW u \in Validators, NEW v \in Validators,
                    NEW n \in DOMAIN chain[u] \cap DOMAIN chain[v],
                    chain[u][n] \in NormalBlocks, chain[v][n] \in NormalBlocks
             PROVE  chain[u][n] = chain[v][n]
  BY DEF NormalAgreement
<1>1. /\ Certificate(chain[u][n], "Commit") /\ Number[chain[u][n]] = n
      /\ Certificate(chain[v][n], "Commit") /\ Number[chain[v][n]] = n
  BY DEF VotingInv, CertifiedChains
<1>2. PICK w \in Validators : /\ <<w, chain[u][n], "Commit">> \in sigs
                              /\ <<w, chain[v][n], "Commit">> \in sigs
  BY <1>1, QuorumsIntersect DEF Phases
<1> QED
  BY <1>1, <1>2 DEF VotingInv, OneVote, Phases

\* Signatures alone do not undo what the invariant says of the chains.
LEMMA ChainsStayCertified ==
    ASSUME VotingInv, chain' = chain, sigs \subseteq sigs'
    PROVE  CertifiedChains'
<1>1. ASSUME NEW w \in Validators, NEW n \in DOMAIN chain[w]
      PROVE  Certificate(chain[w][n], "Commit")'
  <2>1. PICK c \in Blocks : c = chain[w][n]
    BY DEF VotingInv, VotingTypeOK
  <2>2. Certificate(c, "Commit")
    BY <2>1 DEF VotingInv, CertifiedChains
  <2>3. Certificate(c, "Commit")'
    BY <2>2, CertificatesGrow DEF Phases
  <2> QED
    BY <2>1, <2>3
<1> QED
  BY <1>1 DEF VotingInv, CertifiedChains

\* A vote keeps the invariant: OnlySigned is what keeps the votes of a
\* validator on one proposed block.
LEMMA VoteInv ==
    ASSUME VotingInv, NEW v \in Validators, NEW b \in Blocks,
           NEW phases \in SUBSET Phases, Vote(v, b, phases)
    PROVE  VotingInv'
<1>1. VotingTypeOK'
  BY DEF VotingInv, VotingTypeOK, Vote
<1>2. OneVote'
  <2> SUFFICES ASSUME NEW w \in Validators, NEW c \in NormalBlocks, NEW d \in NormalBlocks,
                      NEW p \in Phases, NEW q \in Phases,
                      <<w, c, p>> \in sigs', <<w, d, q>> \in sigs', Number[c] = Number[d]
               PROVE  c = d
    BY DEF OneVote
  <2>1. c \in Blocks /\ d \in Blocks
    BY DEF Blocks
  <2>2. CASE <<w, c, p>> \in sigs /\ <<w, d, q>> \in sigs
    BY <2>2 DEF VotingInv, OneVote
  <2>3. CASE <<w, c, p>> \notin sigs
    <3>1. w = v /\ c = b
      BY <2>3 DEF Vote
    <3> QED
      BY <2>1, <3>1 DEF Vote, OnlySigned
  <2>4. CASE <<w, d, q>> \notin sigs
    <3>1. w = v /\ d = b
      BY <2>4 DEF Vote
    <3> QED
      BY <2>1, <3>1 DEF Vote, OnlySigned
  <2> QED
    BY <2>2, <2>3, <2>4
<1>3. CertifiedChains'
  BY ChainsStayCertified DEF Vote
<1> QED
  BY <1>1, <1>2, <1>3 DEF VotingInv

\* An insertion keeps the invariant: the new block is the next one, on its
\* parent, with a commit certificate.
LEMMA InsertInv ==
    ASSUME VotingInv, NEW v \in Validators, NEW b \in Blocks, Insert(v, b)
    PROVE  VotingInv'
<1>1. /\ chain' = [chain EXCEPT ![v] = Append(chain[v], b)]
      /\ sigs' = sigs /\ chain[v] \in Seq(Blocks)
  BY DEF Insert, VotingInv, VotingTypeOK
<1>2. VotingTypeOK'
  BY <1>1 DEF VotingInv, VotingTypeOK
<1>3. OneVote'
  BY <1>1 DEF VotingInv, OneVote
<1>4. CertifiedChains'
  <2>0. ASSUME NEW w \in Validators, NEW n \in DOMAIN chain'[w],
               Certificate(chain'[w][n], "Commit")
        PROVE  Certificate(chain[w][n], "Commit")'
    <3>1. PICK c \in Blocks : c = chain'[w][n]
      BY <1>2 DEF VotingTypeOK
    <3>2. Certificate(c, "Commit")'
      BY <1>1, <2>0, <3>1, CertificatesGrow DEF Phases
    <3> QED
      BY <3>1, <3>2
  <2> SUFFICES ASSUME NEW w \in Validators, NEW n \in DOMAIN chain'[w]
               PROVE  /\ Number[chain'[w][n]] = n
                      /\ Certificate(chain'[w][n], "Commit")
                      /\ Parent[chain'[w][n]] = IF n = 1 THEN Genesis ELSE chain'[w][n - 1]
    BY <2>0 DEF CertifiedChains
  <2>1. CASE w # v \/ n \in DOMAIN chain[v]
    <3>1. n \in DOMAIN chain[w] /\ chain[w] \in Seq(Blocks)
      BY <1>1, <2>1 DEF VotingInv, VotingTypeOK
    <3>2. chain'[w][n] = chain[w][n] /\ (n # 1 => chain'[w][n - 1] = chain[w][n - 1])
      BY <1>1, <3>1 DEF VotingInv, VotingTypeOK
    <3> QED
      BY <3>1, <3>2 DEF VotingInv, CertifiedChains
  <2>2. CASE w = v /\ n \notin DOMAIN chain[v]
    <3>1. n = Len(chain[v]) + 1 /\ chain'[v][n] = b
      BY <1>1, <2>2 DEF VotingInv, VotingTypeOK
    <3>2. n # 1 => n - 1 \in DOMAIN chain[v] /\ chain'[v][n - 1] = chain[v][n - 1]
      BY <1>1, <3>1 DEF VotingInv, VotingTypeOK
    <3> QED
      BY <1>1, <2>2, <3>1, <3>2 DEF Insert, ParentInChain
  <2> QED
    BY <2>1, <2>2
<1> QED
  BY <1>2, <1>3, <1>4 DEF VotingInv

\* The invariant is inductive.
LEMMA VotingStep ==
    ASSUME VotingInv, [VotingNext]_votingVars
    PROVE  VotingInv'
<1>1. ASSUME NEW v \in Validators, NEW b \in Blocks,
             NEW phases \in SUBSET Phases, Vote(v, b, phases)
      PROVE  VotingInv'
  BY <1>1, VoteInv
<1>2. ASSUME NEW v \in Validators, NEW b \in Blocks, Insert(v, b)
      PROVE  VotingInv'
  BY <1>2, InsertInv
<1>3. CASE UNCHANGED votingVars
  <2>1. chain' = chain /\ sigs' = sigs
    BY <1>3 DEF votingVars
  <2>2. VotingTypeOK' /\ OneVote'
    BY <2>1 DEF VotingInv, VotingTypeOK, OneVote
  <2>3. CertifiedChains'
    BY <2>1, ChainsStayCertified
  <2> QED
    BY <2>2, <2>3 DEF VotingInv
<1> QED
  BY <1>1, <1>2, <1>3 DEF VotingNext

\* The invariant holds in every behaviour of the voting rules.
THEOREM VotingInvariant == VotingSpec => []VotingInv
<1>1. VotingInit => VotingInv
  BY DEF VotingInit, VotingInv, VotingTypeOK, OneVote, CertifiedChains
<1>2. VotingInv /\ [VotingNext]_votingVars => VotingInv'
  BY VotingStep
<1> QED
  BY <1>1, <1>2, PTL DEF VotingSpec

\* Lemma 1 of the consensus documentation, for every committee: no two proposed
\* blocks of one height are both inserted.
THEOREM VotingAgreement == VotingSpec => []NormalAgreement
BY VotingInvariant, InvImpliesAgreement, PTL

=============================================================================
