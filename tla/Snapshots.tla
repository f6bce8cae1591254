------------------------------ MODULE Snapshots ------------------------------
(* The committee snapshots of a node: snapshot.go and the lookup of           *)
(* dpor_helper.go.  A snapshot is asked for by header hash, found in memory,   *)
(* on disk or at genesis, and brought up to the header by applying the         *)
(* headers in between.  Whether that runs the elections depends on the node's  *)
(* role and on how far it is behind.  A committee is abstracted to how it was  *)
(* chosen: the election's seed is the hash of the checkpoint header.           *)
EXTENDS Integers, FiniteSets, FiniteSetsExt, Functions, TLC

CONSTANTS Headers, Number(_), Parent(_), GenesisHeader,
          SnapTermLen, SnapViewLen, SnapInitBlocks, SnapTermDist,
          DefaultFullSyncPivot, MaxSizeOfRecent, inMemorySnapshots,
          Unseen, Batched,    \* the headers that may come by synchronisation, in a batch
          PeerHeights,        \* the heights that peers announce
          MaxRestarts, MaxFails, NoSnapshot

VARIABLES inserted,      \* the headers of the chain's database
          snapHead,      \* the chain's current block
          knownHead,     \* the highest number heard of: the chain's own, or a peer's
          recentSnaps,   \* header -> snapshot, in memory
          storedSnaps,   \* header -> snapshot, on disk
          snapNow,
          isMiner,       \* IsMiner() or IsValidator()
          snapRestarts, snapFails
snapVars == <<inserted, snapHead, knownHead, recentSnaps, storedSnaps, snapNow, isMiner, snapRestarts, snapFails>>

T == SnapTermLen * SnapViewLen
IsCheckPoint(n) == n # 0 /\ n % T = 0
TermOfHeader(n) == IF n = 0 THEN 0 ELSE (n - 1) \div T
FutureTermOf(n) == TermOfHeader(n) + SnapTermDist + 1
isStartElection(n) == n >= SnapInitBlocks - SnapTermDist * T
isUseDefaultProposers(n) == n <= SnapInitBlocks

Ancestor(h, n) == LET up[g \in Headers] == IF Number(g) <= n THEN g ELSE up[Parent(g)] IN up[h]

Default == [kind |-> "default", at |-> GenesisHeader, read |-> TRUE]
Elected(h, read) == [kind |-> "elected", at |-> h, read |-> read]

\* RecentProposers and RecentValidators keep the committees of MaxSizeOfRecent terms.
setRecent(recent, term, committee) ==
    [t \in (DOMAIN recent \cup {term}) \ {term - MaxSizeOfRecent} |-> IF t = term THEN committee ELSE recent[t]]

\* since (history): the headers from that number on were applied with the elections.
newSnapshot == [header |-> GenesisHeader, proposers |-> setRecent(<<>>, 0, Default),
                validators |-> setRecent(<<>>, 0, Default), since |-> 1]

\* updateCandidates falls back on the default candidates when the contract cannot be read.
updateProposers(proposers, h, ok) ==
    LET n == Number(h)
        elected == IF isStartElection(n) THEN setRecent(proposers, FutureTermOf(n), Elected(h, ok)) ELSE proposers
    IN  IF isUseDefaultProposers(n) THEN setRecent(elected, TermOfHeader(n) + 1, Default) ELSE elected

validatorsAfter(s, n, ifUpdateCommittee) ==
    IF IsCheckPoint(n) /\ TermOfHeader(n) \in DOMAIN s.validators
    THEN setRecent(s.validators, TermOfHeader(n) + 1, s.validators[TermOfHeader(n)]) ELSE s.validators
applyHeader(s, h, ifUpdateCommittee, ok) ==
    LET n == Number(h) IN
    [header |-> h,
     proposers |-> IF ifUpdateCommittee /\ IsCheckPoint(n) THEN updateProposers(s.proposers, h, ok) ELSE s.proposers,
     validators |-> validatorsAfter(s, n, ifUpdateCommittee),
     since |-> IF ifUpdateCommittee THEN s.since ELSE n + 1]

\* apply: the headers after the snapshot's, up to h.
apply(s, h, ifUpdateCommittee, ok) ==
    LET ap[g \in Headers] == IF Number(g) <= Number(s.header) THEN s
                             ELSE applyHeader(ap[Parent(g)], g, ifUpdateCommittee, ok)
    IN  ap[h]

\* Where the search of snapshot() ends, going back from h.
\* Faulty variant: the memory is searched by the number.
InMemoryByNumber(g) == {s \in Range(recentSnaps) : Number(s.header) = Number(g)}
InMemory(g) == {s \in Range(recentSnaps) : s.header = g}
OnDisk(g) == IF IsCheckPoint(Number(g)) /\ g \in DOMAIN storedSnaps THEN {storedSnaps[g]} ELSE {}
Known(g) == IF InMemory(g) # {} THEN InMemory(g) ELSE OnDisk(g)
Base(h) ==
    LET back[g \in Headers] == IF Known(g) # {} THEN CHOOSE s \in Known(g) : TRUE
                               ELSE IF Number(g) = 0 THEN newSnapshot ELSE back[Parent(g)]
    IN  back[h]
Gathered(h) == {g \in Headers : /\ Number(g) \in Number(Base(h).header) + 1 .. Number(h)
                                /\ Ancestor(h, Number(g)) = g}

timeToUpdateCommittee(s, known) ==
    /\ isMiner
    /\ Number(s.header) > Max({0, known - DefaultFullSyncPivot})

\* The cache keeps the newest and forgets any other when it is full.
Remembering(s) == {[h \in keep \cup {s.header} |-> IF h = s.header THEN s ELSE recentSnaps[h]] :
                      keep \in {k \in SUBSET (DOMAIN recentSnaps \ {s.header}) :
                                  Cardinality(k) = Min({inMemorySnapshots - 1, Cardinality(DOMAIN recentSnaps \ {s.header})})}}

\* snapshot(number, hash, chainSeg); force: the caller sets the current snapshot itself; known: the known
\* head that it reads.
snapshot(h, chainSeg, force, ok, known) ==
    IF snapNow # NoSnapshot /\ snapNow.header = h
    THEN UNCHANGED <<recentSnaps, storedSnaps, snapNow>>
    ELSE IF ~(Gathered(h) \subseteq inserted \cup chainSeg)
    THEN /\ snapNow' = IF force THEN NoSnapshot ELSE snapNow
         /\ UNCHANGED <<recentSnaps, storedSnaps>>
    ELSE LET base == Base(h)
             s == apply(base, h, timeToUpdateCommittee(base, known), ok)
             genesis == IF base.header = GenesisHeader THEN GenesisHeader :> newSnapshot ELSE <<>>
             stored == IF IsCheckPoint(Number(h)) /\ base.header # h THEN h :> s ELSE <<>>
         IN  /\ recentSnaps' \in Remembering(s)
             /\ storedSnaps' = stored @@ genesis @@ storedSnaps
             /\ snapNow' = IF force \/ snapNow = NoSnapshot \/ Number(h) >= Number(snapNow.header)
                               THEN s ELSE snapNow

ReadSnap(ok) == /\ ok \/ snapFails < MaxFails
            /\ snapFails' = IF ok THEN snapFails ELSE snapFails + 1
-----------------------------------------------------------------------------
SnapInit ==
    /\ inserted = {GenesisHeader} /\ snapHead = GenesisHeader /\ knownHead = 0
    /\ recentSnaps = <<>> /\ storedSnaps = <<>> /\ snapNow = NoSnapshot
    /\ isMiner \in BOOLEAN
    /\ snapRestarts = 0 /\ snapFails = 0

\* A higher block becomes the head.
HeadAfter(h) == IF Number(h) > Number(snapHead) THEN h ELSE snapHead
\* insertChain makes the head known before each block, while the verifier it has started may already be at
\* work, and again after it.
Heard(head) == Max({knownHead, Number(head)})
\* A header is verified against its parent's snapshot and joins the chain.
VerifyAndInsert(h, ok) ==
    /\ h \notin inserted /\ Parent(h) \in inserted
    /\ ReadSnap(ok)
    /\ \E known \in {knownHead, Heard(snapHead)} : snapshot(Parent(h), {}, FALSE, ok, known)
    /\ inserted' = inserted \cup {h}
    /\ snapHead' = HeadAfter(h) /\ knownHead' = Heard(HeadAfter(h))
    /\ UNCHANGED <<isMiner, snapRestarts>>

\* Blocks arrive by synchronisation, which looks at no snapshot.
InsertUnseen(h) ==
    /\ h \in Unseen /\ h \notin inserted /\ Parent(h) \in inserted
    /\ inserted' = inserted \cup {h}
    /\ snapHead' = HeadAfter(h)
    /\ UNCHANGED <<knownHead, recentSnaps, storedSnaps, snapNow, isMiner, snapRestarts, snapFails>>
\* Synchronise tells the chain of the peer's height before it fetches anything; the known head only rises.
SetKnownHead(n) ==
    /\ n > knownHead /\ knownHead' = n
    /\ UNCHANGED <<inserted, snapHead, recentSnaps, storedSnaps, snapNow, isMiner, snapRestarts, snapFails>>

\* A batch: h is verified while its parent is only in the batch.
VerifyInBatch(h, ok) ==
    /\ h \in Batched /\ h \notin inserted /\ Parent(h) \notin inserted /\ Parent(Parent(h)) \in inserted
    /\ ReadSnap(ok)
    /\ snapshot(Parent(h), {Parent(h)}, FALSE, ok, knownHead)
    /\ UNCHANGED <<inserted, snapHead, knownHead, isMiner, snapRestarts>>

\* Seal: the snapshot of the head, the parent of the new block, becomes the current one.
SealOn(h, ok) ==
    /\ isMiner /\ h = snapHead
    /\ ReadSnap(ok)
    /\ snapshot(h, {}, TRUE, ok, knownHead)
    /\ UNCHANGED <<inserted, snapHead, knownHead, isMiner, snapRestarts>>

\* SetAsMiner or SetAsValidator, then initMinerAndValidator.
StartMining(ok) ==
    /\ ~isMiner /\ isMiner' = TRUE
    /\ ReadSnap(ok)
    /\ snapshot(snapHead, {}, TRUE, ok, knownHead)
    /\ UNCHANGED <<inserted, snapHead, knownHead, snapRestarts>>

\* The role is what the node is started with; the known head is the chain's again.
RestartNode ==
    /\ snapRestarts < MaxRestarts /\ snapRestarts' = snapRestarts + 1
    /\ recentSnaps' = <<>> /\ snapNow' = NoSnapshot
    /\ knownHead' = Number(snapHead) /\ isMiner' \in BOOLEAN
    /\ UNCHANGED <<inserted, snapHead, storedSnaps, snapFails>>

SnapNext ==
    \/ \E h \in Headers \ {GenesisHeader} : InsertUnseen(h)
    \/ \E h \in Headers \ {GenesisHeader}, ok \in BOOLEAN : VerifyAndInsert(h, ok) \/ VerifyInBatch(h, ok)
    \/ \E ok \in BOOLEAN : SealOn(snapHead, ok) \/ StartMining(ok)
    \/ RestartNode \/ \E n \in PeerHeights : SetKnownHead(n)

SnapSpec == SnapInit /\ [][SnapNext]_snapVars
-----------------------------------------------------------------------------
Snaps == Range(recentSnaps) \cup Range(storedSnaps) \cup ({snapNow} \ {NoSnapshot})
NextTerm(s) == TermOfHeader(Number(s.header) + 1)

\* Every snapshot names the validators of the next block, whatever was skipped, and no
\* validators of a term before the window.
SnapTypeOK ==
    /\ \A h \in DOMAIN recentSnaps : recentSnaps[h].header = h
    /\ \A s \in Snaps : /\ NextTerm(s) \in DOMAIN s.validators
                        /\ \A t \in DOMAIN s.validators : t > NextTerm(s) - MaxSizeOfRecent
    /\ Cardinality(DOMAIN recentSnaps) <= inMemorySnapshots

\* A node that has run the elections since the checkpoint two terms before the next
\* block's term (or from the start) knows the proposers of the next block: the default
\* committees and the elected ones leave no term out.
CommitteeKnown ==
    \A s \in Snaps : s.since <= Max({T, (NextTerm(s) - SnapTermDist) * T}) => NextTerm(s) \in DOMAIN s.proposers

\* What a block's own ancestors determine: the default committee for the terms up to the one that
\* MaxInitBlockNumber is followed by, then the one elected at the ancestor two terms back.
Reference(h, t) == IF t * T <= SnapInitBlocks THEN Default ELSE Elected(Ancestor(h, (t - SnapTermDist) * T), TRUE)
\* The term after MaxInitBlockNumber: the election two terms before has named a committee for it, which only
\* applying the checkpoint at MaxInitBlockNumber with the elections replaces by the default one.
Unreplaced(s, t) == t * T = SnapInitBlocks /\ s.since > SnapInitBlocks
\* The committee that a snapshot names for the next block is the one that the block's own ancestors
\* determine, whatever other branches, restarts, roles, batches and peers' heights the node has been through,
\* and its candidates are the contract's unless reading failed.  The one exception is the term after
\* MaxInitBlockNumber on a node that took that checkpoint without the elections: there the committee may still
\* be the one elected for it, again by the block's own ancestors.
CommitteeOfAncestors ==
    \A s \in Snaps : NextTerm(s) \in DOMAIN s.proposers =>
        LET t == NextTerm(s)
            c == s.proposers[t]
            named(r) == c.kind = r.kind /\ c.at = r.at
        IN  /\ named(Reference(s.header, t)) \/ (Unreplaced(s, t) /\ named(Elected(Ancestor(s.header, (t - SnapTermDist) * T), TRUE)))
            /\ snapFails = 0 => c.read
==============================================================================
