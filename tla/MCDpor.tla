------------------------------- MODULE MCDpor --------------------------------
(* Instances of the modules that decide who may sign and what is signed: the  *)
(* votes a validator collects, reputations and elections, snapshots, and the  *)
(* engine that makes and admits blocks.  The parts share no state; a          *)
(* behaviour is one of the part it starts with.                               *)
EXTENDS SignatureCache, Election, Snapshots, Engine

CONSTANTS Parts
VARIABLE part

\* Election: histories of three candidates over eight blocks.
MCHistories == {[bal |-> b, txs |-> t, rpt |-> b, coinbase |-> c,
                 committee |-> [n \in 0 .. 7 |-> IF n < 4 THEN {"x"} ELSE {"y"}]] :
                   b \in {[x |-> i, y |-> 10, z |-> k] : i \in {0, 20, 70}, k \in {0, 20}},
                   t \in {[a \in RankedNodes |-> IF a = "x" THEN 1 ELSE 0]},
                   c \in {[n \in 0 .. 7 |-> "x"], [n \in 0 .. 7 |-> IF n < 4 THEN "y" ELSE "z"]}}
MCMethod(num) == num - 1
MCRules == {[alpha |-> 1, beta |-> 1, gamma |-> 1, psi |-> 1, omega |-> 1],
            [alpha |-> 5, beta |-> 1, gamma |-> 0, psi |-> 0, omega |-> 1]}

\* Snapshots: a chain of eight blocks and a branch that leaves it before the second.
MCHeaders == (0 .. 8) \cup (102 .. 105)
MCNumber(h) == h % 100
MCParent(h) == IF h = 102 THEN 1 ELSE IF h = 0 THEN 0 ELSE h - 1

\* Engine: two default proposers, and the two elected for every later term.
MCDefault == <<"p1", "p2">>
MCElected(t) == <<"p3", "p1">>

vars == <<part, cacheVars, rptVars, electVars, snapVars, makeVars, admitVars>>

\* The parts that are not looked at start in one state.
Still ==
    /\ part # "rpt" => contract.alpha = 1
    /\ part # "snapshots" => isMiner

Init ==
    /\ part \in Parts
    /\ CacheInit /\ RptInit /\ ElectInit
    /\ SnapInit /\ MakeInit /\ AdmitInit
    /\ Still

Next ==
    \/ part = "votes" /\ CacheNext
       /\ UNCHANGED <<part, rptVars, electVars, snapVars, makeVars, admitVars>>
    \/ part = "rpt" /\ RptNext
       /\ UNCHANGED <<part, cacheVars, electVars, snapVars, makeVars, admitVars>>
    \/ part = "election" /\ ElectNext
       /\ UNCHANGED <<part, cacheVars, rptVars, snapVars, makeVars, admitVars>>
    \/ part = "snapshots" /\ SnapNext
       /\ UNCHANGED <<part, cacheVars, rptVars, electVars, makeVars, admitVars>>
    \/ part = "make" /\ MakeNext
       /\ UNCHANGED <<part, cacheVars, rptVars, electVars, snapVars, admitVars>>
    \/ part = "admit" /\ AdmitNext
       /\ UNCHANGED <<part, cacheVars, rptVars, electVars, snapVars, makeVars>>

Spec == Init /\ [][Next]_vars

\* What each part keeps besides the invariants that have a name of their own here: the types, and what
\* the component's module says of reputations, elections, snapshots, impeach blocks and campaigns.
DporInv ==
    /\ part = "votes" => CacheTypeOK
    /\ part = "rpt" => RptTypeOK /\ OneRule /\ RanksFair
    /\ part = "election" => ElectTypeOK /\ NearestPicked /\ CommitteeMixed
    /\ part = "snapshots" => SnapTypeOK /\ CommitteeKnown
    /\ part = "make" => DporTypeOK /\ OneImpeachBlock /\ BlocksSpaced
    /\ part = "admit" => DporTypeOK /\ ClaimsProven /\ RunningHasWaiter /\ FundedOnce
==============================================================================
