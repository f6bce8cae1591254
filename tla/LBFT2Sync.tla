----------------------------- MODULE LBFT2Sync -----------------------------
(***************************************************************************)
(* LBFT2 under the timing the parameters are chosen for: a proposed block  *)
(* is accepted during the first quarter of the impeachment timeout only,   *)
(* and the rest of the timeout is long enough for every prepare, commit    *)
(* and validate message sent meanwhile to be delivered and acted on.       *)
(* Clocks are synchronised, and nobody restarts.                           *)
(***************************************************************************)
EXTENDS LBFT2

VARIABLE expired    \* <<n, t>>: the timers of height n and tick t have expired

syncVars == <<vars, expired>>

TickOf(i) == <<Number[i], Tick[i]>>
Ticks == {TickOf(i) : i \in ImpeachBlocks}

\* (Faulty variant: no block delay, a proposed block is accepted at any time.)
LatePreprepareMsg(v, b) == HandlePreprepareMsg(v, b)
\* A proposed block is processed within the block delay only, long before the
\* first timer of its height.
TimelyPreprepareMsg(v, b) ==
    /\ \A t \in expired : t[1] # Number[b]
    /\ HandlePreprepareMsg(v, b)
NormalCase(v, b) == HandlePrepareMsg(v, b) \/ HandleCommitMsg(v, b) \/ HandleValidateMsg(v, b)

FireTimer(v, i) == TickOf(i) \in expired /\ HandleImpeachPreprepareMsg(v, i)
Impeachment(v, i) ==
    \/ HandleImpeachPrepareMsg(v, i)
    \/ HandleImpeachCommitMsg(v, i)
    \/ HandleImpeachValidateMsg(v, i)

\* Every message a validator that is up would act on has been delivered.
Quiet ==
    \A v \in Live :
        /\ \A b \in NormalBlocks : ~ENABLED <<NormalCase(v, b)>>_vars
        /\ \A i \in ImpeachBlocks : /\ ~ENABLED <<Impeachment(v, i)>>_vars
                                    /\ ~ENABLED <<FireTimer(v, i)>>_vars

\* Time reaches the next timers: those of the previous ones, a sample or a
\* timeout earlier, have fired, and the messages they caused have arrived.
Expire(t) ==
    /\ t \in Ticks \ expired
    /\ \A s \in Ticks \ expired : t[1] < s[1] \/ (t[1] = s[1] /\ t[2] <= s[2])
    /\ \E v \in Live : Len(chain[v]) >= t[1] - 1
    /\ Quiet
    /\ expired' = expired \cup {t}
    /\ UNCHANGED vars

SyncInit == Init /\ expired = {}

SyncNext ==
    \/ \E t \in Ticks : Expire(t)
    \/ /\ UNCHANGED expired
       /\ \/ \E b \in NormalBlocks : Propose(b)
          \/ \E v \in Live :
                \/ \E b \in Blocks : Absorb(v, b)
                \/ \E b \in NormalBlocks : \/ CachePreprepareMsg(v, b)
                                           \/ TimelyPreprepareMsg(v, b)
                                           \/ NormalCase(v, b)
                \/ \E i \in ImpeachBlocks : FireTimer(v, i) \/ Impeachment(v, i)
                \/ \E u \in Validators : SyncFrom(v, u)

\* A timer that has expired fires, and a message of each kind that changes its
\* receiver as long as it is not delivered is delivered.  Nothing is assumed of
\* proposers, of the delivery of proposed blocks, or of block synchronisation.
SyncFairness ==
    /\ \A t \in Ticks : WF_syncVars(Expire(t))
    /\ \A v \in Live :
          /\ \A b \in Blocks : WF_syncVars(Absorb(v, b) /\ UNCHANGED expired)
          /\ \A b \in NormalBlocks : /\ WF_syncVars(HandlePrepareMsg(v, b) /\ UNCHANGED expired)
                                     /\ WF_syncVars(HandleCommitMsg(v, b) /\ UNCHANGED expired)
                                     /\ WF_syncVars(HandleValidateMsg(v, b) /\ UNCHANGED expired)
          /\ \A i \in ImpeachBlocks : /\ WF_syncVars(FireTimer(v, i) /\ UNCHANGED expired)
                                      /\ WF_syncVars(HandleImpeachPrepareMsg(v, i) /\ UNCHANGED expired)
                                      /\ WF_syncVars(HandleImpeachCommitMsg(v, i) /\ UNCHANGED expired)
                                      /\ WF_syncVars(HandleImpeachValidateMsg(v, i) /\ UNCHANGED expired)

SyncSpec == SyncInit /\ [][SyncNext]_syncVars
FairSyncSpec == SyncSpec /\ SyncFairness

\* Every height is decided: each validator that is up gets a block for it, from
\* the proposer or by impeachment, whatever the proposers do.
EveryHeightDecided == <>(\A v \in Live, n \in Heights : Len(chain[v]) >= n)

=============================================================================
