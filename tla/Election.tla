------------------------------ MODULE Election -------------------------------
(* The reputation (RPT) of the candidates of an election: rpt/rpt.go and the  *)
(* collectors of rpt/rpt_calc2.go to rpt_calc5.go, of which the block number  *)
(* chooses one.  The chain's history is chosen once; the coefficients live in *)
(* a contract that may change between two readings, and readings may fail.    *)
EXTENDS Integers, Sequences, SequencesExt, FiniteSets, FiniteSetsExt

CONSTANTS RankedNodes,
          Histories,      \* records [bal, txs, rpt: candidate -> Nat; coinbase, committee: number -> ...]
          Numbers,        \* the block numbers asked for
          Method(_),      \* which calculation a number uses: 1 .. 5
          WindowSize,
          Rules,          \* the coefficients the contract may hold: [alpha, beta, gamma, psi, omega]
          minRptScore, defaultRank, Cpc,
          Word,           \* 2^64: the width of the integers
          MaxLists, MaxReadFails

VARIABLES history,
          contract,       \* the coefficients now in the rpt contract
          coefficients, currentNum,  \* of each collector
          cache,          \* collector -> what -> number -> sorted values
          job,            \* the CalcRptInfoList under way
          lists, fails
rptVars == <<history, contract, coefficients, currentNum, cache, job, lists, fails>>

Collectors == 2 .. 5
NoJob == [num |-> 0, todo |-> <<>>, rpts |-> <<>>, used |-> {}, clean |-> TRUE]

offset(num) == Max({0, num - WindowSize})
Window(num) == offset(num) .. num - 1

\* What the chain says of a candidate at a number; ok: the reading succeeds.
\* A balance is a big integer, cut to 64 bits unsigned by the second and third method,
\* signed by the fourth; the fifth divides it first.
Balance(a) == history.bal[a]
Uint64(n) == n % Word
Int64(n) == LET u == n % Word IN IF u >= Word \div 2 THEN u - Word ELSE u
TxCount(a) == history.txs[a]
Mined(a, num) == Cardinality({i \in Window(num) : history.coinbase[i] = a})
InCommittee(a, num) == Cardinality({i \in Window(num) : history.coinbase[i] # a /\ a \in history.committee[i]})

\* sort.SearchFloat64s: the binary search, whatever the order of the values.
SearchFloat64s(values, x) ==
    LET search[r \in (0 .. Len(values)) \X (0 .. Len(values))] ==
            LET h == (r[1] + r[2]) \div 2
            IN  IF r[1] >= r[2] THEN r[1]
                ELSE IF values[h + 1] < x THEN search[<<h + 1, r[2]>>] ELSE search[<<r[1], h>>]
    IN  search[<<0, Len(values)>>]
Increasing(values) == SortSeq(values, LAMBDA x, y : x < y)
Decreasing(values) == SortSeq(values, LAMBDA x, y : x > y)
searchIndex(item, values) == IF item \in Range(values)
                             THEN Min({i \in DOMAIN values : values[i] = item}) - 1 ELSE Len(values)
getRank(item, values) == ((Len(values) - searchIndex(item, values)) * 100) \div Len(values)
Percentile(item, values) == (SearchFloat64s(values, item) * 100) \div Len(values)

Steps(rank, bounds, scores) == scores[Min({i \in DOMAIN bounds : rank < bounds[i]} \cup {Len(scores)})]
RankValue2(rank) == Steps(rank, <<2, 5, 15, 35, 60, 80>>, <<100, 90, 80, 70, 60, 40, 20>>)
percentage(rank) == Steps(rank, <<20, 40, 65, 85, 95, 98>>, <<20, 40, 60, 70, 80, 90, 100>>)
RankValue3(rank) == Steps(rank, <<20, 40, 65, 85, 95, 98>>, <<20, 40, 60, 70, 80, 90, 100>>)

\* The sorted values of all candidates at a number: cached by the number alone.
Cached(m, what, num) == num \in DOMAIN cache[m][what]
Values(m, what, num, fresh) == IF Cached(m, what, num) THEN cache[m][what][num] ELSE fresh
Remember(c, m, what, num, fresh) ==
    IF num \in DOMAIN c[m][what] THEN c
    ELSE [c EXCEPT ![m][what] = [n \in DOMAIN @ \cup {num} |-> IF n = num THEN fresh ELSE @[n]]]

AddressSeq == SetToSeq(RankedNodes)
All(f(_)) == [i \in 1 .. Len(AddressSeq) |-> f(AddressSeq[i])]

MaintenanceInfo2(a, num) ==
    LET n == Cardinality(Window(num)) IN
    IF history.coinbase[num] = a THEN 100 * n
    ELSE IF a \in history.committee[num] THEN 140 * n ELSE 60 * n
MaintenanceValue3(a, num) ==
    LET mtn == 2 * Mined(a, num) + InCommittee(a, num)
    IN  IF offset(num) = 0 \/ mtn <= 12 THEN 60 ELSE IF mtn < 24 THEN 80 ELSE 100

Weigh(r, rank, txs, mtn, upload, proxy) ==
    r.alpha * rank + r.beta * txs + r.gamma * mtn + r.psi * upload + r.omega * proxy

\* The old method: the contract's own scores over the window.
Score1(a, num, ok) == IF ok THEN history.rpt[a] * (Cardinality(Window(num)) + 1) ELSE minRptScore
Score2(a, num, r, ok) ==
    LET values == Values(2, "bal", num, Decreasing(All(LAMBDA b : Uint64(Balance(b)))))
    IN  Weigh(r, RankValue2(IF ok THEN Percentile(Uint64(Balance(a)), values) ELSE defaultRank),
              IF ok THEN Min({TxCount(a), 100}) ELSE 0, IF ok THEN MaintenanceInfo2(a, num) ELSE 0, 0, 0)
Score3(a, num, r, ok) ==
    LET values == Values(3, "bal", num, Increasing(All(LAMBDA b : Uint64(Balance(b)))))
    IN  Weigh(r, RankValue3(IF ok THEN Percentile(Uint64(Balance(a)), values) ELSE defaultRank),
              IF ok THEN Min({TxCount(a), 100}) ELSE 0, IF ok THEN MaintenanceValue3(a, num) ELSE 60, 0, 0)
\* When readings fail a balance counts as defaultRank, a count as 0.
ReadState(value, ok, default) == IF ok THEN value ELSE default
Score4(a, num, r, ok) ==
    LET bal(b) == ReadState(Int64(Balance(b)), ok, defaultRank)
        txs(b) == ReadState(TxCount(b), ok, 0)
        mtn(b) == ReadState(Mined(b, num), ok, 0)
        rank(what, f(_)) == percentage(Percentile(f(a), Values(4, what, num, Increasing(All(f)))))
    IN  Weigh(r, rank("bal", bal), rank("txs", txs), rank("mtn", mtn), percentage(0), percentage(0))
Score5(a, num, r, ok) ==
    LET bal(b) == ReadState(Uint64(Balance(b) \div Cpc), ok, 0)
        txs(b) == ReadState(TxCount(b), ok, 0)
        mtn(b) == ReadState(Mined(b, num), ok, 0)
        rank(what, f(_)) == getRank(f(a), Values(5, what, num, Decreasing(All(f))))
    IN  Weigh(r, rank("bal", bal), rank("txs", txs), rank("mtn", mtn), 1, 1)

\* What a calculation leaves in the caches.
CachesAfter(m, num, ok) ==
    LET bal(b) == CASE m = 5 -> ReadState(Uint64(Balance(b) \div Cpc), ok, 0)
                    [] m = 4 -> ReadState(Int64(Balance(b)), ok, defaultRank)
                    [] OTHER -> Uint64(Balance(b))
        txs(b) == ReadState(TxCount(b), ok, 0)
        mtn(b) == ReadState(Mined(b, num), ok, 0)
        sorted(f(_)) == IF m \in {2, 5} THEN Decreasing(All(f)) ELSE Increasing(All(f))
        c1 == IF m \in {2, 3} /\ ~ok THEN cache ELSE Remember(cache, m, "bal", num, sorted(bal))
        c2 == Remember(c1, m, "txs", num, sorted(txs))
    IN  IF m \in {4, 5} THEN Remember(c2, m, "mtn", num, sorted(mtn)) ELSE c1

AtLeastMin(score) == Max({score, minRptScore})

\* Alpha, Beta, ... read the contract once for a number.
Rule(m, num, ok) == IF num = currentNum[m] \/ ~ok THEN coefficients[m] ELSE contract
-----------------------------------------------------------------------------
NoHistory == [bal |-> <<>>]

RptInit ==
    /\ history = NoHistory
    /\ contract \in Rules
    /\ coefficients = [m \in Collectors |-> contract]
    /\ currentNum = [m \in Collectors |-> 0]
    /\ cache = [m \in Collectors |-> [w \in {"bal", "txs", "mtn"} |-> <<>>]]
    /\ job = NoJob
    /\ lists = 0 /\ fails = 0

Happen == /\ history = NoHistory
          /\ history' \in Histories
          /\ UNCHANGED <<contract, coefficients, currentNum, cache, job, lists, fails>>

CalcRptInfoList(num) ==
    /\ history # NoHistory /\ job.todo = <<>> /\ lists < MaxLists
    /\ lists' = lists + 1
    /\ job' = [NoJob EXCEPT !.num = num, !.todo = AddressSeq,
                            !.clean = IF Method(num) \in {4, 5} /\ Cached(Method(num), "bal", num) THEN job.clean ELSE TRUE]
    /\ UNCHANGED <<history, contract, coefficients, currentNum, cache, fails>>

\* CalcRptInfo for the next candidate.
CalcRptInfo(ok) ==
    LET m == Method(job.num)
        a == Head(job.todo)
        r == Rule(m, job.num, ok)
        score == CASE m = 1 -> Score1(a, job.num, ok)
                   [] m = 2 -> Score2(a, job.num, r, ok)
                   [] m = 3 -> Score3(a, job.num, r, ok)
                   [] m = 4 -> Score4(a, job.num, r, ok)
                   [] m = 5 -> Score5(a, job.num, r, ok)
    IN  /\ job.todo # <<>>
        /\ ok \/ fails < MaxReadFails
        /\ fails' = IF ok THEN fails ELSE fails + 1
        /\ job' = [job EXCEPT !.todo = Tail(@), !.rpts = Append(@, AtLeastMin(score)),
                              !.used = IF m = 1 THEN @ ELSE @ \cup {r}, !.clean = @ /\ ok]
        /\ IF m = 1 THEN UNCHANGED <<coefficients, currentNum, cache>>
           ELSE /\ coefficients' = [coefficients EXCEPT ![m] = r]
                /\ currentNum' = [currentNum EXCEPT ![m] = job.num]
                /\ cache' = CachesAfter(m, job.num, ok)
        /\ UNCHANGED <<history, contract, lists>>

\* A transaction changes the coefficients.
SetRule == \E r \in Rules : /\ contract # r /\ contract' = r
                            /\ history # NoHistory
                            /\ UNCHANGED <<history, coefficients, currentNum, cache, job, lists, fails>>

RptNext == Happen \/ (\E n \in Numbers : CalcRptInfoList(n)) \/ (\E ok \in BOOLEAN : CalcRptInfo(ok)) \/ SetRule
RptSpec == RptInit /\ [][RptNext]_rptVars
-----------------------------------------------------------------------------
\* The scores are at least the minimum: the election divides by a third of the
\* highest score, which must not be zero.
RptTypeOK ==
    /\ \A i \in DOMAIN job.rpts : job.rpts[i] >= minRptScore /\ job.rpts[i] \div 3 > 0
    /\ Len(job.rpts) + Len(job.todo) \in {0, Len(AddressSeq)}
    /\ fails \in 0 .. MaxReadFails

\* All candidates of an election are weighed with the same coefficients, although the
\* contract may change, or a reading fail, while the list is being calculated.
OneRule == Cardinality(job.used) <= 1

\* From the third method on, a candidate that is at least as good in balance, in
\* transactions and in mined blocks never has a lower score, when the chain can be read.
\* The third and fourth method need the balances to fit a word; the fifth does not,
\* which divides by Cpc before it cuts.
Fits == \A a \in RankedNodes : Balance(a) < Word \div 2
Better(a, b) == /\ Balance(a) >= Balance(b) /\ TxCount(a) >= TxCount(b)
                /\ Mined(a, job.num) >= Mined(b, job.num)
                /\ InCommittee(a, job.num) + 2 * Mined(a, job.num) >= InCommittee(b, job.num) + 2 * Mined(b, job.num)
\* A candidate that is no worse in anything the collectors read is ranked no lower.
RanksFair ==
    job.clean /\ Len(job.rpts) = Len(AddressSeq) /\ Method(job.num) \in (IF Fits THEN 3 .. 5 ELSE {5}) =>
        \A i, j \in DOMAIN job.rpts : Better(AddressSeq[i], AddressSeq[j]) => job.rpts[i] >= job.rpts[j]

------------------------------------------------------------------------------
(* The election at a checkpoint: election/elect.go and the mixing of default   *)
(* proposers into the elected ones in snapshot.go.  Targets are in half units  *)
(* so that a target may lie between two scaled reputations.                    *)
CONSTANTS Candidates,          \* numbered addresses
          Scores,              \* the reputations a candidate may have
          FallbackProposers,
          SeatsOfTerm, defaultProposersNum,
          MaxTarget            \* 2 * log2(1 + upper), rounded down

ASSUME ElectionAssumption ==
    /\ SeatsOfTerm % defaultProposersNum = 0
    /\ Cardinality(Candidates) >= SeatsOfTerm - defaultProposersNum
    /\ Cardinality(FallbackProposers) >= defaultProposersNum
    /\ Candidates \cap FallbackProposers = {}

VARIABLES scaledRpts,   \* the candidates not yet elected, sorted: <<address, scaled reputation>>
          target,       \* the last target
          elected, chosen, committee,
          pick          \* the last round: target, elected reputation, those there were
electVars == <<scaledRpts, target, elected, chosen, committee, pick>>

\* RptList.Less: by reputation, then by address.
Sorted(rpts) == SortSeq(SetToSeq({<<a, rpts[a]>> : a \in Candidates}),
                        LAMBDA x, y : x[2] < y[2] \/ (x[2] = y[2] /\ x[1] < y[1]))
Scaled(list) == LET scale == list[Len(list)][2] \div 3 IN [i \in DOMAIN list |-> <<list[i][1], list[i][2] \div scale>>]

\* The binary search of findNearest: two neighbours around t.
Narrowed(array, t) ==
    LET search[r \in (1 .. Len(array)) \X (1 .. Len(array))] ==
            LET mid == r[1] + (r[2] - r[1]) \div 2
            IN  IF r[1] + 1 >= r[2] THEN r ELSE IF 2 * array[mid] >= t THEN search[<<r[1], mid>>] ELSE search[<<mid, r[2]>>]
    IN  search[<<1, Len(array)>>]
findNearest(array, t) ==
    LET lo == Narrowed(array, t)[1]
        hi == Narrowed(array, t)[2]
    IN  IF 2 * array[lo] >= t THEN lo
        ELSE IF 2 * array[hi] <= t THEN hi
        ELSE IF t - 2 * array[lo] <= 2 * array[hi] - t THEN lo ELSE hi

Without(list, pos) == RemoveAt(list, pos)

Elections == SeatsOfTerm - defaultProposersNum
step == SeatsOfTerm \div defaultProposersNum

\* A slice of the elected proposers with a default one moved from its end to pos.
Slice(i) == SubSeq(elected, (i - 1) * (step - 1) + 1, i * (step - 1))
Inserted(i, pos) == InsertAt(Slice(i), pos, chosen[i])
-----------------------------------------------------------------------------
ElectInit == scaledRpts = <<>> /\ target = 0 /\ elected = <<>> /\ chosen = <<>> /\ committee = <<>> /\ pick = <<0, 0, {0}>>

Begin(rpts) ==
    /\ scaledRpts = <<>> /\ elected = <<>>
    /\ scaledRpts' = Scaled(Sorted(rpts))
    /\ UNCHANGED <<target, elected, chosen, committee, pick>>

\* One round of Elect: the targets of the rounds increase.
Elect(t) ==
    LET pos == findNearest([i \in DOMAIN scaledRpts |-> scaledRpts[i][2]], t) IN
    /\ scaledRpts # <<>> /\ Len(elected) < Elections
    /\ t >= target /\ target' = t
    /\ elected' = Append(elected, scaledRpts[pos][1])
    /\ scaledRpts' = Without(scaledRpts, pos)
    /\ pick' = <<t, scaledRpts[pos][2], {scaledRpts[i][2] : i \in DOMAIN scaledRpts}>>
    /\ UNCHANGED <<chosen, committee>>

choseSomeProposers(p) ==
    /\ Len(elected) = Elections /\ Len(chosen) < defaultProposersNum
    /\ p \notin Range(chosen)
    /\ chosen' = Append(chosen, p)
    /\ UNCHANGED <<scaledRpts, target, elected, committee, pick>>

evenlyInsertDefaultProposers(pos) ==
    LET i == Len(committee) \div step + 1 IN
    /\ Len(chosen) = defaultProposersNum /\ Len(committee) < SeatsOfTerm
    /\ committee' = committee \o Inserted(i, pos)
    /\ UNCHANGED <<scaledRpts, target, elected, chosen, pick>>

ElectNext ==
    \/ \E rpts \in [Candidates -> Scores] : Begin(rpts)
    \/ \E t \in 0 .. MaxTarget : Elect(t)
    \/ \E p \in FallbackProposers : choseSomeProposers(p)
    \/ \E pos \in 1 .. step : evenlyInsertDefaultProposers(pos)

ElectSpec == ElectInit /\ [][ElectNext]_electVars
-----------------------------------------------------------------------------
\* Nobody is elected twice, and only candidates are.
ElectTypeOK ==
    IsInjective(elected) /\ Range(elected) \subseteq Candidates

\* The binary search finds a nearest reputation among those left: no other is closer
\* to the target.
NearestPicked ==
    LET far(x) == IF 2 * x >= pick[1] THEN 2 * x - pick[1] ELSE pick[1] - 2 * x
    IN  \A r \in pick[3] : far(pick[2]) <= far(r)

\* A finished committee has the length of a term; every stretch of TermLen / 4 proposers
\* has exactly one default proposer, and the elected ones stand in the order of election.
CommitteeMixed ==
    Len(committee) >= SeatsOfTerm =>
        /\ Len(committee) = SeatsOfTerm
        /\ \A s \in 0 .. defaultProposersNum - 1 :
              Cardinality({i \in s * step + 1 .. (s + 1) * step : committee[i] \in FallbackProposers}) = 1
        /\ SelectSeq(committee, LAMBDA a : a \in Candidates) = elected
==============================================================================
