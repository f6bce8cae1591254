------------------------------ MODULE MCLBFT2 ------------------------------
(* Instances of LBFT2 for TLC.  Height 1: the proposed blocks b1 and b2, the *)
(* timeout impeach block i0 and the failback blocks i1 to i3.  Height 2: c1  *)
(* on b1, and the timeout impeach blocks j0 to j3 on i0 to i3.               *)
EXTENDS LBFT2, TLC

CONSTANTS v1, v2, v3, v4, b1, b2, c1, i0, i1, i2, i3, j0, j1, j2, j3, genesis

MCNumber == [b \in Blocks |-> IF b \in {c1, j0, j1, j2, j3} THEN 2 ELSE 1]
MCParent == [b \in Blocks |-> CASE b = c1 -> b1 [] b = j0 -> i0 [] b = j1 -> i1
                                [] b = j2 -> i2 [] b = j3 -> i3 [] OTHER -> genesis]
MCTick == [i \in ImpeachBlocks |-> CASE i = i1 -> 1 [] i = i2 -> 2 [] i = i3 -> 3 [] OTHER -> 0]
\* All validators have been up for a while; all have just been started; v3 has
\* been started a sample later than the others.
Steady == [v \in Validators |-> 0]
Symmetry == Permutations(Live)
\* Bound of the two heights: the second is only reached where nothing is proposed
\* for the first.
SecondHeightByImpeachment == proposed = {} \/ \A v \in Validators : impeach[v][j0] = "none"

=============================================================================
