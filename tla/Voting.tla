------------------------------- MODULE Voting -------------------------------
(***************************************************************************)
(* What LBFT 2.0 promises, without state machine, messages or timers: the  *)
(* validators put signatures on blocks and insert the blocks that have     *)
(* enough of them.  A normal block needs 2f+1 signatures, an impeach block *)
(* f+1; a commit signature needs a prepare certificate.  A validator signs *)
(* a normal block only if it has signed nothing else at that height.       *)
(***************************************************************************)
EXTENDS Integers, Sequences, FiniteSets

CONSTANTS
    Validators,      \* the validator committee
    Faulty,          \* f: the committee has 3f+1 members
    NormalBlocks,    \* blocks made by proposers
    ImpeachBlocks,   \* blocks made by validators on behalf of a proposer
    Genesis,         \* the common block every chain starts from
    Number,          \* height of a block above Genesis
    Parent           \* parent of a block

Blocks == NormalBlocks \cup ImpeachBlocks
Phases == {"Prepare", "Commit"}

ASSUME CommitteeAssumption ==
    /\ Faulty \in Nat
    /\ IsFiniteSet(Validators)
    /\ Cardinality(Validators) = 3 * Faulty + 1

ASSUME BlockAssumption ==
    /\ NormalBlocks \cap ImpeachBlocks = {}
    /\ Genesis \notin Blocks
    /\ Number \in [Blocks -> Nat \ {0}]
    /\ Parent \in [Blocks -> Blocks \cup {Genesis}]

VARIABLES
    chain,   \* chain[v]: the blocks v has inserted, by height
    sigs     \* every signature made, as <<signer, block, phase>>

votingVars == <<chain, sigs>>

Signers(b, phase) == {v \in Validators : <<v, b, phase>> \in sigs}

\* (f+1 for every block: a faulty variant.)
WeakCertificate(b, phase) == Cardinality(Signers(b, phase)) >= Faulty + 1
\* Certificate and ImpeachCertificate of the chain configuration.
Certificate(b, phase) ==
    Cardinality(Signers(b, phase)) >=
        IF b \in ImpeachBlocks THEN Faulty + 1 ELSE 2 * Faulty + 1

\* The block is the next one on v's chain.
ParentInChain(v, b) ==
    \/ Number[b] = 1 /\ Parent[b] = Genesis
    \/ Number[b] - 1 \in DOMAIN chain[v] /\ chain[v][Number[b] - 1] = Parent[b]

-----------------------------------------------------------------------------
VotingInit ==
    /\ chain = [v \in Validators |-> <<>>]
    /\ sigs = {}

\* Every signature of v at b's height is on b.
OnlySigned(v, b) ==
    \A c \in Blocks, p \in Phases :
        Number[c] = Number[b] /\ <<v, c, p>> \in sigs => c = b

Vote(v, b, phases) ==
    /\ b \in NormalBlocks => OnlySigned(v, b)
    /\ sigs' = sigs \cup {<<v, b, p>> : p \in phases}
    /\ "Commit" \in phases => Certificate(b, "Prepare")'
    /\ UNCHANGED chain

\* (A faulty variant: the signatures are not checked.)
InsertUncertified(v, b) ==
    /\ Number[b] = Len(chain[v]) + 1
    /\ ParentInChain(v, b)
    /\ chain' = [chain EXCEPT ![v] = Append(@, b)]
    /\ UNCHANGED sigs
Insert(v, b) ==
    /\ Number[b] = Len(chain[v]) + 1
    /\ ParentInChain(v, b)
    /\ Certificate(b, "Commit")
    /\ chain' = [chain EXCEPT ![v] = Append(@, b)]
    /\ UNCHANGED sigs

VotingNext ==
    \E v \in Validators, b \in Blocks :
        \/ \E phases \in (SUBSET Phases) \ {{}} : Vote(v, b, phases)
        \/ Insert(v, b)

VotingSpec == VotingInit /\ [][VotingNext]_votingVars

-----------------------------------------------------------------------------
\* Chains are sequences of blocks, signatures are by validators on blocks.
VotingTypeOK ==
    /\ chain \in [Validators -> Seq(Blocks)]
    /\ sigs \subseteq Validators \X Blocks \X Phases

\* What holds the chains together, and makes NormalAgreement inductive: no
\* validator has signed two proposed blocks of one height, and every block of a
\* chain stands at its height, on its parent, with a commit certificate.
OneVote ==
    \A v \in Validators, b, c \in NormalBlocks, p, q \in Phases :
        <<v, b, p>> \in sigs /\ <<v, c, q>> \in sigs /\ Number[b] = Number[c] => b = c
\* Every block of a chain stands at its height, on its parent, certified.
CertifiedChains ==
    \A v \in Validators : \A n \in DOMAIN chain[v] :
        /\ Number[chain[v][n]] = n
        /\ Certificate(chain[v][n], "Commit")
        /\ Parent[chain[v][n]] = IF n = 1 THEN Genesis ELSE chain[v][n - 1]
\* The inductive invariant of the voting rules.
VotingInv == VotingTypeOK /\ OneVote /\ CertifiedChains

\* Lemma 1 of the consensus documentation: two blocks made by proposers are
\* never both validated at one height.  Chains that disagree on a height
\* disagree about an impeach block.
NormalAgreement ==
    \A u, v \in Validators : \A n \in DOMAIN chain[u] \cap DOMAIN chain[v] :
        chain[u][n] \in NormalBlocks /\ chain[v][n] \in NormalBlocks
            => chain[u][n] = chain[v][n]

=============================================================================
