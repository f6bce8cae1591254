----------------------------- MODULE MCVoting ------------------------------
(* An instance of Voting for TLC: one height, with the proposed blocks b1   *)
(* and b2 and the impeach block i0.                                         *)
EXTENDS Voting, TLC

CONSTANTS v1, v2, v3, v4, b1, b2, i0, genesis

MCNumber == [b \in Blocks |-> 1]
MCParent == [b \in Blocks |-> genesis]
Symmetry == Permutations(Validators)

=============================================================================
