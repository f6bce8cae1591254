------------------------------- MODULE Engine -------------------------------
(* The consensus engine around LBFT 2.0, in two independent parts.            *)
(*  - "make": a block is prepared and sealed by the proposer in turn          *)
(*    (consensus.go), checked by every validator (dpor_helper.go), or         *)
(*    replaced by the impeach block each validator creates for itself         *)
(*    (dpor_service.go).  Agreement on the outcome is LBFT2's part: here a     *)
(*    block is decided once enough validators accepted the same one.          *)
(*  - "admit": the campaign of a node for the proposers' committee            *)
(*    (TryCampaign and the package admission): proofs of work searched by     *)
(*    goroutines, awaited, claimed or aborted, and the deposit of a new       *)
(*    RNode.                                                                  *)
EXTENDS Integers, Sequences, FiniteSets, FiniteSetsExt

CONSTANTS Validators, Faulty,
          DefaultProposers,          \* the committee of the initial terms, in order
          ElectedProposers(_),       \* the committee elected for a term
          TermLen, ViewLen, MaxInitBlockNumber, TermDist,
          Period, BlockDelay, ImpeachTimeout,
          MinGasLimit, MaxGasLimit, TargetGasLimit, GasLimitBoundDivisor, GenesisGas,
          UsedGas,                   \* what the transactions of a block use
          MaxHeight, MaxClock,       \* bounds
          Nobody, NoBlock

VARIABLES clock,
          decided,      \* the blocks of heights 1, 2, ... LBFT2 decided
          head,         \* validator -> the number of its current block
          currentSnap,  \* validator -> the number its current snapshot is of
          work,         \* the block the proposer in turn prepared and has not sealed
          proposal,     \* the sealed block
          verdict,      \* validator -> what it answered to the proposal
          timers,       \* validator -> the impeach blocks waiting for their time
          impeaches     \* validator -> the impeach blocks it signed for the next height
makeVars == <<clock, decided, head, currentSnap, work, proposal, verdict, timers, impeaches>>
-----------------------------------------------------------------------------
(* Snapshots: which committees the snapshot of block n knows.  Snapshots.tla   *)
(* models how they are computed and cached.                                    *)
Term == TermLen * ViewLen
TermOf(n) == IF n = 0 THEN 0 ELSE (n - 1) \div Term
ProposersIn(n, t) ==
    IF t = 0 \/ t * Term <= Min({n, MaxInitBlockNumber}) THEN DefaultProposers
    ELSE IF LET c == (t - TermDist) * Term IN c \in 1 .. n /\ c >= MaxInitBlockNumber - TermDist * Term
         THEN ElectedProposers(t) ELSE <<>>
KnowsValidators(n, t) == t <= n \div Term

ProposersOf(snap, number) == ProposersIn(snap, TermOf(number))
IsProposerOf(snap, signer, number) ==
    /\ number # 0
    /\ LET proposers == ProposersOf(snap, number)
           idx == ((number - 1) % Term) \div ViewLen
       IN  idx < Len(proposers) /\ proposers[idx + 1] = signer

\* snapshot(): the newer of the two becomes the current one.
Advance(snap, number) == Max({snap, number})
-----------------------------------------------------------------------------
(* Headers.  A block of no coinbase is an impeach block.                       *)
GenesisBlock == [number |-> 0, parent |-> NoBlock, time |-> 0, coinbase |-> Nobody, proposers |-> DefaultProposers,
                 seal |-> Nobody, gasLimit |-> GenesisGas, gasUsed |-> 0]
Height == Len(decided)
BlockAt(n) == IF n = 0 THEN GenesisBlock ELSE decided[n]
Impeachment(b) == b.coinbase = Nobody
HashOf(b) == [b EXCEPT !.parent = NoBlock, !.seal = Nobody]

\* Faulty variant: the limit is not held at the maximum.
CalcGasLimitUncapped(p) ==
    LET decay == p.gasLimit \div GasLimitBoundDivisor - 1
    IN  p.gasLimit - decay + (p.gasUsed + p.gasUsed \div 2) \div GasLimitBoundDivisor
CalcGasLimit(p) ==
    LET contrib == (p.gasUsed + p.gasUsed \div 2) \div GasLimitBoundDivisor
        decay == p.gasLimit \div GasLimitBoundDivisor - 1
        limit == Max({p.gasLimit - decay + contrib, MinGasLimit})
        raised == IF limit < TargetGasLimit THEN Min({p.gasLimit + decay, TargetGasLimit}) ELSE limit
    IN  Min({raised, MaxGasLimit})

TimeOf(p) == Max({p.time + Period, clock})

PrepareBlock(n, signer, used) ==
    LET p == BlockAt(n - 1) IN
    [number |-> n, parent |-> HashOf(p), time |-> TimeOf(p), coinbase |-> signer,
     proposers |-> ProposersOf(n - 1, n), seal |-> Nobody,
     gasLimit |-> CalcGasLimit(p), gasUsed |-> Min({used, CalcGasLimit(p)})]

\* The impeach block on p, with the proposers the given snapshot has for it.
CreateImpeachBlockAt(p, snap) ==
    [number |-> p.number + 1, parent |-> HashOf(p), time |-> p.time + Period + ImpeachTimeout,
     coinbase |-> Nobody, proposers |-> ProposersOf(snap, p.number + 1), seal |-> Nobody,
     gasLimit |-> p.gasLimit, gasUsed |-> 0]
CreateImpeachBlock(v) == CreateImpeachBlockAt(BlockAt(head[v]), currentSnap[v])
-----------------------------------------------------------------------------
(* What a validator checks; each gives the error or "ok".                      *)
OutsideWindow(b, p) == b.time < p.time + Period \/ b.time > p.time + Period + ImpeachTimeout
verifyBasicImpeach(b, p) ==
    IF b.gasLimit # p.gasLimit THEN "impeach gas limit" ELSE IF b.gasUsed # 0 THEN "impeach gas used" ELSE "ok"
verifyBasic(v, b) ==
    IF b.number = 0 THEN "ok"
    ELSE IF b.number - 1 > head[v] \/ HashOf(BlockAt(b.number - 1)) # b.parent THEN "unknown ancestor"
    ELSE LET p == BlockAt(b.number - 1) IN
         IF b.number > MaxInitBlockNumber /\ ~Impeachment(b) /\ OutsideWindow(b, p) THEN "timestamp"
         ELSE IF b.gasLimit > MaxGasLimit \/ b.gasLimit < MinGasLimit \/ b.gasUsed > b.gasLimit THEN "gas limit"
         ELSE IF Impeachment(b) THEN verifyBasicImpeach(b, p) ELSE "ok"

verifyDporSnapImpeach(v, b) ==
    LET expected == CreateImpeachBlockAt(BlockAt(b.number - 1), currentSnap[v]) IN
    IF b.seal # expected.seal \/ b.proposers # expected.proposers THEN "impeach snap" ELSE "ok"

verifyProposers(b) == IF b.proposers # ProposersOf(b.number - 1, b.number) THEN "proposers" ELSE "ok"
verifySeal(b) == IF IsProposerOf(b.number - 1, b.seal, b.number) THEN "ok" ELSE "unauthorized"

verifyHeader(v, b) ==
    IF verifyBasic(v, b) # "ok" THEN verifyBasic(v, b)
    ELSE IF Impeachment(b) THEN verifyDporSnapImpeach(v, b)
    ELSE IF verifyProposers(b) # "ok" THEN verifyProposers(b) ELSE verifySeal(b)

Certificate(n) == n >= 2 * Faulty + 1
ImpeachCertificate(n) == n >= Faulty + 1
-----------------------------------------------------------------------------
MakeInit ==
    /\ clock = 0 /\ decided = <<>>
    /\ head = [v \in Validators |-> 0] /\ currentSnap = [v \in Validators |-> 0]
    /\ work = NoBlock /\ proposal = NoBlock
    /\ verdict = [v \in Validators |-> "none"]
    /\ timers = [v \in Validators |-> {CreateImpeachBlockAt(GenesisBlock, 0)}]
    /\ impeaches = [v \in Validators |-> {}]

Tick == /\ clock < MaxClock /\ clock' = clock + 1
        /\ UNCHANGED <<decided, head, currentSnap, work, proposal, verdict, timers, impeaches>>

\* commitNewWork at the proposer in turn: CanMakeBlock, PrepareBlock.
Prepare(used) ==
    /\ Height < MaxHeight /\ work = NoBlock /\ proposal = NoBlock
    /\ \E signer \in {ProposersOf(Height, Height + 1)[i] : i \in 1 .. TermLen} :
          /\ IsProposerOf(Height, signer, Height + 1)
          /\ work' = PrepareBlock(Height + 1, signer, used)
    /\ UNCHANGED <<clock, decided, head, currentSnap, proposal, verdict, timers, impeaches>>

\* Seal waits for the time of the block, then signs.
Seal ==
    /\ work # NoBlock /\ clock >= work.time
    /\ IsProposerOf(work.number - 1, work.coinbase, work.number)
    /\ proposal' = [work EXCEPT !.seal = work.coinbase]
    /\ work' = NoBlock
    /\ UNCHANGED <<clock, decided, head, currentSnap, verdict, timers, impeaches>>

\* The preprepare message reaches v: dropped when it is late, verified otherwise.
Receive(v) ==
    /\ proposal # NoBlock /\ verdict[v] = "none" /\ head[v] = proposal.number - 1
    /\ clock >= proposal.time
    /\ LET late == clock > BlockAt(head[v]).time + Period + BlockDelay
           result == verifyHeader(v, proposal)
       IN  /\ verdict' = [verdict EXCEPT ![v] = IF late THEN "late" ELSE result]
           /\ currentSnap' = [currentSnap EXCEPT ![v] = IF late \/ verifyBasic(v, proposal) # "ok" THEN @
                                                        ELSE Advance(@, head[v])]
    /\ UNCHANGED <<clock, decided, head, work, proposal, timers, impeaches>>

Ended == /\ work' = NoBlock /\ proposal' = NoBlock
         /\ verdict' = [v \in Validators |-> "none"]
Decide ==
    /\ proposal # NoBlock /\ proposal.number = Height + 1
    /\ Certificate(Cardinality({v \in Validators : verdict[v] = "ok"}))
    /\ decided' = Append(decided, proposal)
    /\ Ended
    /\ UNCHANGED <<clock, head, currentSnap, timers, impeaches>>
DecideImpeach(b) ==
    /\ Height < MaxHeight /\ b.number = Height + 1
    /\ ImpeachCertificate(Cardinality({v \in Validators : b \in impeaches[v]}))
    /\ decided' = Append(decided, b)
    /\ Ended
    /\ UNCHANGED <<clock, head, currentSnap, timers, impeaches>>

\* v inserts the next decided block: its signatures are verified against the parent's
\* snapshot, and the state machine, idle again, creates the next impeach block.
Insert(v) ==
    /\ head[v] < Height
    /\ head' = [head EXCEPT ![v] = @ + 1]
    /\ currentSnap' = [currentSnap EXCEPT ![v] = Advance(@, head[v])]
    /\ timers' = [timers EXCEPT ![v] = {CreateImpeachBlockAt(BlockAt(head[v] + 1), currentSnap'[v])}]
    /\ impeaches' = [impeaches EXCEPT ![v] = {}]
    /\ UNCHANGED <<clock, decided, work, proposal, verdict>>

\* Any message while v is idle makes the state machine create an impeach block again.
Message(v) ==
    /\ head[v] > 0 /\ verdict[v] # "ok" /\ impeaches[v] = {}
    /\ timers' = [timers EXCEPT ![v] = @ \cup {CreateImpeachBlock(v)}]
    /\ UNCHANGED <<clock, decided, head, currentSnap, work, proposal, verdict, impeaches>>

\* The engine of v's own miner prepares the pending block, mining or not.
NewWork(v) ==
    /\ currentSnap' = [currentSnap EXCEPT ![v] = Advance(@, head[v])]
    /\ UNCHANGED <<clock, decided, head, work, proposal, verdict, timers, impeaches>>

\* The time of an impeach block has come: only validators can impeach, then it is verified.
Fire(v, b) ==
    /\ clock >= b.time
    /\ timers' = [timers EXCEPT ![v] = @ \ {b}]
    /\ impeaches' = [impeaches EXCEPT ![v] =
          IF b.number > head[v] /\ KnowsValidators(currentSnap[v], TermOf(b.number)) /\ verifyHeader(v, b) = "ok"
          THEN @ \cup {b} ELSE @]
    /\ UNCHANGED <<clock, decided, head, currentSnap, work, proposal, verdict>>

MakeNext ==
    \/ Tick \/ Seal \/ Decide
    \/ \E used \in UsedGas : Prepare(used)
    \/ \E v \in Validators : Receive(v) \/ Insert(v) \/ Message(v) \/ NewWork(v) \/ \E b \in timers[v] : Fire(v, b)
    \/ \E v \in Validators : \E b \in impeaches[v] : DecideImpeach(b)
-----------------------------------------------------------------------------
\* What the proposer in turn prepares and seals passes every check of every validator it
\* reaches in time, at whatever height the validator's current snapshot is.
HonestAccepted == \A v \in Validators : verdict[v] \in {"none", "late", "ok"}

\* Every validator that impeaches a height signs the same impeach block, whichever snapshots
\* its timers were set with: the votes of f+1 of them add up.
OneImpeachBlock ==
    \A v, w \in Validators : \A b \in impeaches[v], c \in impeaches[w] : b.number = c.number => b = c

\* Consecutive blocks, proposed or impeached, are at least one period apart, and none is
\* decided before its time.
BlocksSpaced ==
    \A i \in 1 .. Height : decided[i].time >= BlockAt(i - 1).time + Period /\ decided[i].time <= clock
-----------------------------------------------------------------------------
(* Part "admit": campaigns and the deposit.                                    *)
CONSTANTS CampaignTerms,             \* how many terms one campaign is for
          StartTerm,                 \* the first term campaigns are held in
          MaxTerm, MaxFunds          \* bounds
Kinds == {"cpu", "memory"}
Gens == 1 .. MaxTerm

VARIABLES snapTerm,       \* the term of the current snapshot
          lastCampaignTerm,
          acStatus,       \* AcIdle or AcRunning
          acGen,          \* which campaign cpuWork, memoryWork, wg and done are of
          works,          \* campaign -> kind -> how its proof work stands
          abortOf,        \* the campaign that listens to ac.abort, 0 when none does
          aborted,        \* the campaigns whose abort channel is closed
          waiter,         \* campaign -> where waitSendCampaignMsg stands
          sender,         \* campaign -> where sendCampaignResult stands
          claims,         \* the claims sent: by which campaign, of which works, what they were
          aborting,       \* where the caller of Abort stands, and on which done it waits
          sendingFund, isRNode,
          joins,          \* deposits sent -> "pending", "done", "failed"
          givenUp         \* a deposit was not processed within the 30 seconds
workVars == <<works, waiter, sender, claims>>
fundVars == <<sendingFund, isRNode, joins, givenUp>>
admitVars == <<snapTerm, lastCampaignTerm, acStatus, acGen, works, abortOf, aborted, waiter, sender,
               claims, aborting, sendingFund, isRNode, joins, givenUp>>

AdmitInit ==
    /\ snapTerm = 0 /\ lastCampaignTerm = 0
    /\ acStatus = "idle" /\ acGen = 0
    /\ works = [g \in Gens |-> [k \in Kinds |-> "none"]]
    /\ abortOf = 0 /\ aborted = {}
    /\ waiter = [g \in Gens |-> "none"] /\ sender = [g \in Gens |-> "none"]
    /\ claims = {}
    /\ aborting = [pc |-> "no", done |-> 0]
    /\ sendingFund = FALSE /\ isRNode = FALSE /\ joins = <<>> /\ givenUp = FALSE

\* FundForRNode, with money enough.
FundForRNode ==
    /\ Len(joins) < MaxFunds
    /\ IF isRNode \/ sendingFund THEN UNCHANGED <<sendingFund, joins>>
       ELSE joins' = Append(joins, "pending") /\ sendingFund' = TRUE

buildWorks(g) == [works EXCEPT ![g] = [k \in Kinds |-> "searching"]]
\* Campaign: nothing while one runs, and only an RNode may.
Campaign ==
    IF acStatus = "running" \/ ~isRNode THEN UNCHANGED <<acStatus, acGen, works, abortOf, waiter>>
    ELSE /\ acStatus' = "running" /\ acGen' = acGen + 1 /\ abortOf' = acGen + 1
         /\ works' = buildWorks(acGen + 1)
         /\ waiter' = [waiter EXCEPT ![acGen + 1] = "waiting"]

\* TryCampaign, on a new block that may begin a term.
TryCampaign(term) ==
    /\ term \in {snapTerm, snapTerm + 1} /\ term <= MaxTerm
    /\ snapTerm' = term
    /\ IF term >= StartTerm - 1 /\ ~isRNode THEN FundForRNode ELSE UNCHANGED <<sendingFund, joins>>
    /\ IF term >= StartTerm /\ term > lastCampaignTerm + CampaignTerms - 1
       THEN lastCampaignTerm' = term /\ Campaign
       ELSE UNCHANGED <<lastCampaignTerm, acStatus, acGen, works, abortOf, waiter>>
    /\ UNCHANGED <<aborted, sender, claims, aborting, isRNode, givenUp>>

\* The same when IsRNode or FundForRNode fails (no money, or no answer): TryCampaign returns, and
\* the next block tries again.
TryCampaignFails(term) ==
    /\ term \in {snapTerm, snapTerm + 1} /\ StartTerm - 1 <= term /\ term <= MaxTerm
    /\ snapTerm' = term
    /\ UNCHANGED <<lastCampaignTerm, acStatus, acGen, abortOf, aborted, workVars, aborting, fundVars>>

\* prove: the nonce is found, the time is over, or the campaign was aborted.
Prove(g, k, outcome) ==
    /\ works[g][k] = "searching"
    /\ outcome = "aborted" => g \in aborted
    /\ works' = [works EXCEPT ![g][k] = outcome]
    /\ UNCHANGED <<snapTerm, lastCampaignTerm, acStatus, acGen, abortOf, aborted, waiter, sender, claims, aborting, fundVars>>

\* No work ended in an error; getWorks gives those of the campaign begun last.
Passed(g) == \A k \in Kinds : works[acGen][k] \notin {"aborted", "timeout"}

\* Faulty variant: the status is only reset after a success.
BackToIdleOnSuccess(g) == IF Passed(g) THEN "idle" ELSE acStatus
BackToIdle(g) == "idle"
\* waitSendCampaignMsg: both works ended; the status is reset, then done is closed.
WaitersTurn(g) ==
    /\ waiter[g] = "waiting" /\ \A k \in Kinds : works[g][k] # "searching"
    /\ sender' = [sender EXCEPT ![g] = IF Passed(g) THEN "ready" ELSE @]
    /\ acStatus' = BackToIdle(g)
    /\ waiter' = [waiter EXCEPT ![g] = "closing"]
    /\ UNCHANGED <<snapTerm, lastCampaignTerm, acGen, works, abortOf, aborted, claims, aborting, fundVars>>
CloseDone(g) ==
    /\ waiter[g] = "closing" /\ waiter' = [waiter EXCEPT ![g] = "ended"]
    /\ UNCHANGED <<snapTerm, lastCampaignTerm, acStatus, acGen, works, abortOf, aborted, sender, claims, aborting, fundVars>>

\* sendCampaignResult claims with what cpuWork and memoryWork are now.
SendCampaignResult(g) ==
    /\ sender[g] = "ready" /\ sender' = [sender EXCEPT ![g] = "sent"]
    /\ claims' = claims \cup {[by |-> g, of |-> acGen, proven |-> \A k \in Kinds : works[acGen][k] = "found"]}
    /\ UNCHANGED <<snapTerm, lastCampaignTerm, acStatus, acGen, works, abortOf, aborted, waiter, aborting, fundVars>>

\* Abort, one caller at a time: the status is read under the lock, the channels are not.
AbortCalled ==
    /\ aborting.pc = "no" /\ acStatus = "running"
    /\ aborting' = [aborting EXCEPT !.pc = "running seen"]
    /\ UNCHANGED <<snapTerm, lastCampaignTerm, acStatus, acGen, abortOf, aborted, workVars, fundVars>>
AbortCloses ==
    /\ aborting.pc = "running seen"
    /\ aborted' = aborted \cup {abortOf}
    /\ aborting' = [aborting EXCEPT !.pc = "closed"]
    /\ UNCHANGED <<snapTerm, lastCampaignTerm, acStatus, acGen, abortOf, workVars, fundVars>>
AbortWaits ==
    /\ aborting.pc = "closed" /\ aborting' = [pc |-> "waits", done |-> acGen]
    /\ UNCHANGED <<snapTerm, lastCampaignTerm, acStatus, acGen, abortOf, aborted, workVars, fundVars>>
AbortReturnsNow ==
    /\ aborting.pc = "waits" /\ waiter[aborting.done] = "ended"
    /\ acStatus' = "idle" /\ abortOf' = 0
    /\ aborting' = [pc |-> "no", done |-> 0]
    /\ UNCHANGED <<snapTerm, lastCampaignTerm, acGen, aborted, workVars, fundVars>>

\* The deposit is mined (external); waitForTxDone sees its receipt, or gives up after 30 seconds.
JoinMined(i, ok) ==
    /\ joins[i] = "pending"
    /\ joins' = [joins EXCEPT ![i] = IF ok /\ ~isRNode THEN "done" ELSE "failed"]
    /\ isRNode' = (isRNode \/ ok)
    /\ UNCHANGED <<snapTerm, lastCampaignTerm, acStatus, acGen, abortOf, aborted, workVars, aborting, sendingFund, givenUp>>
WaitForTxDone ==
    /\ sendingFund /\ sendingFund' = FALSE
    /\ givenUp' = (givenUp \/ joins[Len(joins)] = "pending")
    /\ UNCHANGED <<snapTerm, lastCampaignTerm, acStatus, acGen, abortOf, aborted, workVars, aborting, isRNode, joins>>

WorkSteps ==
    \E g \in Gens : \/ \E k \in Kinds, outcome \in {"found", "timeout", "aborted"} : Prove(g, k, outcome)
                    \/ WaitersTurn(g) \/ CloseDone(g) \/ SendCampaignResult(g)
AdmitNext ==
    \/ \E term \in 0 .. MaxTerm : TryCampaign(term) \/ TryCampaignFails(term)
    \/ WorkSteps
    \/ AbortCalled \/ AbortCloses \/ AbortWaits \/ AbortReturnsNow
    \/ \E i \in DOMAIN joins, ok \in BOOLEAN : JoinMined(i, ok)
    \/ WaitForTxDone
-----------------------------------------------------------------------------
\* Types of both parts: timers and impeachments are of the height after the validator's head,
\* snapshots are not ahead of it.
DporTypeOK ==
    /\ clock \in 0 .. MaxClock /\ Height <= MaxHeight
    /\ \A v \in Validators : /\ head[v] \in 0 .. Height /\ currentSnap[v] \in 0 .. head[v]
                             /\ \A b \in timers[v] \cup impeaches[v] : Impeachment(b) /\ b.number = head[v] + 1
    /\ \A i \in 1 .. Height : decided[i].number = i /\ decided[i].gasLimit \in MinGasLimit .. MaxGasLimit
    /\ acStatus \in {"idle", "running"} /\ acGen \in 0 .. MaxTerm /\ abortOf \in 0 .. acGen
    /\ \A g \in Gens : (waiter[g] = "none") = (g > acGen)

\* A claim made with the works of its own campaign carries two nonces that were found: a
\* campaign that was aborted or ran out of time never claims.
ClaimsProven == \A c \in claims : c.of = c.by => c.proven

\* While the status says running, the goroutine that will reset it is there to do so.
RunningHasWaiter == acStatus = "running" => waiter[acGen] = "waiting"

\* At most one deposit is on its way or made, unless the node gave up waiting for one.
FundedOnce == givenUp \/ Cardinality({i \in DOMAIN joins : joins[i] # "failed"}) <= 1
=============================================================================
