------------------------------- MODULE Queries -------------------------------
(* Answering a peer's queries: the Get...Msg cases of handleSyncMsg in          *)
(* protocols/cpc/handler.go and GetAncestor of core/headerchain.go.  The chain  *)
(* may be reorganised between two reads of one answer.                          *)
EXTENDS Integers, Sequences, FiniteSets, FiniteSetsExt

CONSTANTS Hashes, NumberOf(_), ParentOf(_), NoHash,
          Heads,            \* the heads the canonical chain may have
          Word,             \* 2^64
          Skips, Amounts,
          MaxHeaderFetch, MaxBlocksAnswered, MaxNonCanonical,
          MaxReorgs

VARIABLES canonicalHead, query, response, done, nonCanonical, reorgs
queryVars == <<canonicalHead, query, response, done, nonCanonical, reorgs>>

Above(h, n) == LET up[g \in Hashes] == IF NumberOf(g) <= n THEN g ELSE up[ParentOf(g)] IN up[h]
\* The canonical hash of a number.
GetHeaderByNumber(n) == IF n > NumberOf(canonicalHead) THEN NoHash ELSE Above(canonicalHead, n)

\* GetAncestor, with the number of blocks it has checked one by one.
GetAncestor(h, ancestor, allowed) ==
    LET climb[g \in Hashes] ==
            LET left == ancestor - (NumberOf(h) - NumberOf(g)) IN
            IF left = 0 THEN g
            ELSE IF GetHeaderByNumber(NumberOf(g)) = g THEN GetHeaderByNumber(NumberOf(g) - left)
            ELSE IF NumberOf(h) - NumberOf(g) >= allowed THEN NoHash
            ELSE climb[ParentOf(g)]
        onChain == Max({n \in 0 .. NumberOf(h) : GetHeaderByNumber(n) = Above(h, n)})
    IN  CASE ancestor > NumberOf(h) -> [hash |-> NoHash, used |-> 0]
          [] ancestor = 1 -> [hash |-> ParentOf(h), used |-> 0]
          [] OTHER -> [hash |-> climb[h], used |-> Min({allowed, ancestor, NumberOf(h) - onChain})]

Step(q) == (q.skip + 1) % Word
NoQuery == [kind |-> "none"]
-----------------------------------------------------------------------------
QueryInit ==
    /\ canonicalHead \in Heads /\ query = NoQuery /\ response = <<>> /\ done = FALSE
    /\ nonCanonical = MaxNonCanonical /\ reorgs = 0

AskQuery(q) == /\ query = NoQuery
          /\ query' = q
          /\ UNCHANGED <<canonicalHead, response, done, nonCanonical, reorgs>>

\* The loop ends, and the answer is sent.
FinishQuery(r) == response' = r /\ done' = TRUE /\ UNCHANGED <<query, nonCanonical>>
Advance(r, origin, used) == /\ response' = r /\ query' = [query EXCEPT !.origin = origin]
                            /\ nonCanonical' = nonCanonical - used /\ UNCHANGED done
More(r, limit) == Len(r) < query.amount /\ Len(r) < limit

\* GetBlockHeadersMsg, from a hash: one header of the loop.
HeadersByHash ==
    LET origin == query.origin
        r == Append(response, origin)
        back == GetAncestor(origin, Step(query), nonCanonical)
        ahead == NumberOf(origin) + query.skip + 1
        next == GetHeaderByNumber(ahead)
        old == GetAncestor(next, Step(query), nonCanonical)
    IN  /\ query.kind = "hash" /\ ~done
        /\ IF ~More(response, MaxHeaderFetch) \/ origin = NoHash THEN FinishQuery(response)
           ELSE IF query.reverse
           THEN IF Step(query) = 0 \/ back.hash = NoHash THEN FinishQuery(r) ELSE Advance(r, back.hash, back.used)
           ELSE IF ahead % Word <= NumberOf(origin) \/ next = NoHash THEN FinishQuery(r)
           ELSE IF old.hash # origin THEN FinishQuery(r) ELSE Advance(r, next, old.used)
        /\ UNCHANGED <<canonicalHead, reorgs>>

\* GetBlockHeadersMsg, from a number.
HeadersByNumber ==
    LET h == GetHeaderByNumber(query.origin)
        r == Append(response, h)
    IN  /\ query.kind = "number" /\ ~done
        /\ IF ~More(response, MaxHeaderFetch) \/ h = NoHash THEN FinishQuery(response)
           ELSE IF ~query.reverse THEN Advance(r, (query.origin + Step(query)) % Word, 0)
           ELSE IF query.origin >= Step(query) THEN Advance(r, query.origin - Step(query), 0) ELSE FinishQuery(r)
        /\ UNCHANGED <<canonicalHead, reorgs>>

\* GetBlocksMsg: the end is fixed by the head at the beginning.
LastBlock(start, head) == Min({start + MaxBlocksAnswered - 1, head})
Blocks ==
    LET head == NumberOf(canonicalHead)
        i == query.start + Len(response)
        end == IF query.end = 0 THEN LastBlock(query.start, head) ELSE query.end
    IN  /\ query.kind = "blocks" /\ ~done
        /\ IF query.end = 0 /\ query.start >= head THEN FinishQuery(<<>>)
           ELSE IF i > end THEN FinishQuery(response)
           ELSE /\ response' = Append(response, GetHeaderByNumber(i))
                /\ query' = [query EXCEPT !.end = end]
                /\ UNCHANGED <<done, nonCanonical>>
        /\ UNCHANGED <<canonicalHead, reorgs>>

\* GetBlockBodiesMsg, GetReceiptsMsg and GetNodeDataMsg: the known ones of the asked list.
Skipped(rest) == Tail(rest)
Bodies ==
    /\ query.kind = "bodies" /\ ~done
    /\ IF query.list = <<>> \/ Len(response) >= MaxBlocksAnswered THEN FinishQuery(response)
       ELSE /\ response' = IF Head(query.list) \in Hashes THEN Append(response, Head(query.list)) ELSE response
            /\ query' = [query EXCEPT !.list = IF Head(query.list) \in Hashes THEN Tail(@) ELSE Skipped(@)]
            /\ UNCHANGED <<done, nonCanonical>>
    /\ UNCHANGED <<canonicalHead, reorgs>>

Reorg == /\ query # NoQuery /\ ~done /\ reorgs < MaxReorgs
         /\ canonicalHead' \in Heads \ {canonicalHead} /\ reorgs' = reorgs + 1
         /\ UNCHANGED <<query, response, done, nonCanonical>>

AskedQueries ==
    {[kind |-> "hash", origin |-> o, amount |-> a, skip |-> s, reverse |-> r] :
        o \in Hashes \cup {NoHash}, a \in Amounts, s \in Skips, r \in BOOLEAN}
    \cup {[kind |-> "number", origin |-> n, amount |-> a, skip |-> s, reverse |-> r] :
        n \in 0 .. 5, a \in Amounts, s \in Skips, r \in BOOLEAN}
    \cup {[kind |-> "blocks", start |-> n, end |-> 0] : n \in 0 .. 4}
    \cup {[kind |-> "bodies", list |-> l, all |-> l] :
        l \in {<<a, NoHash, b, a>> : a, b \in Hashes}}

QueryNext == (\E q \in AskedQueries : AskQuery(q)) \/ HeadersByHash \/ HeadersByNumber \/ Blocks \/ Bodies \/ Reorg
QuerySpec == QueryInit /\ [][QueryNext]_queryVars /\ WF_queryVars(HeadersByHash \/ HeadersByNumber \/ Blocks \/ Bodies)
-----------------------------------------------------------------------------
\* No answer is longer than its limit.
QueryTypeOK ==
    /\ Len(response) <= (IF query.kind = "none" THEN 0
                         ELSE IF query.kind \in {"blocks", "bodies"} THEN MaxBlocksAnswered ELSE MaxHeaderFetch)
    /\ nonCanonical \in 0 .. MaxNonCanonical

\* The headers of an answer by hash are of one branch, each skip + 1 blocks from the one
\* before, in the direction asked, although the chain is reorganised between two of them.
AnswerIsOneBranch ==
    query.kind = "hash" =>
        \A i \in 1 .. Len(response) - 1 :
            LET low == IF query.reverse THEN response[i + 1] ELSE response[i]
                high == IF query.reverse THEN response[i] ELSE response[i + 1]
            IN  NumberOf(high) = NumberOf(low) + query.skip + 1 /\ Above(high, NumberOf(low)) = low

\* The blocks of an answer to GetBlocksMsg are consecutive from the number asked, and one
\* is missing only where the chain has changed meanwhile.
BlocksInOrder ==
    query.kind = "blocks" =>
        \A i \in DOMAIN response :
            IF response[i] = NoHash THEN reorgs > 0 ELSE NumberOf(response[i]) = query.start + i - 1

\* Every query is answered, whatever the asked distance, and hashes not known are passed over.
Answered == query # NoQuery ~> done
==============================================================================
