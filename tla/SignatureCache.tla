--------------------------- MODULE SignatureCache ---------------------------
(***************************************************************************)
(* What a validator remembers of blocks and of their signatures: the two    *)
(* caches signaturesForBlockCaches (prepare and commit), the RecentBlocks   *)
(* of LBFT2 and the one for unknown ancestors, and the database below them, *)
(* in which all four use the block's hash as the key.  The encoding of      *)
(* signaturesOfBlock holds none of its fields, as they are not exported:    *)
(* the database gets an empty list, and nothing can be read back from it.   *)
(***************************************************************************)
EXTENDS Integers, FiniteSets

CONSTANTS
    Hashes,         \* blocks, by hash
    Committee,      \* the validators of the term
    Strangers,      \* other accounts whose signatures a header may carry
    CacheSize       \* entries an ARC cache holds

ASSUME CacheAssumption ==
    /\ IsFiniteSet(Hashes) /\ IsFiniteSet(Committee)
    /\ CacheSize \in Nat \ {0}
    /\ "out" \notin Committee

VoteKinds == {"prepare", "commit"}
Stores == {"blockCache", "unknownAncestors"}
Out == {"out"}      \* an entry that is not in a cache

VARIABLES
    signatures,     \* signatures[k][h]: the signers cached, or Out
    recent,         \* recent[s]: the blocks cached
    stored,         \* stored[h]: what the database holds under h
    received        \* received[k][h]: validators whose signatures were taken in since the start

cacheVars == <<signatures, recent, stored, received>>

CacheInit ==
    /\ signatures = [k \in VoteKinds |-> [h \in Hashes |-> Out]]
    /\ recent = [s \in Stores |-> {}]
    /\ stored = [h \in Hashes |-> "nothing"]
    /\ received = [k \in VoteKinds |-> [h \in Hashes |-> {}]]

CachedVotes(k) == {h \in Hashes : signatures[k][h] # Out}

\* The decoded copy has no signatures, whatever bytes the database returns.
getSignaturesCountOf(k, h) ==
    IF signatures[k][h] # Out THEN Cardinality(signatures[k][h]) ELSE 0

\* The entry that makes room for a new one.
Evicted(keys, h) ==
    IF h \notin keys /\ Cardinality(keys) = CacheSize THEN {{e} : e \in keys} ELSE {{}}

\* Signatures of others than the validators are left out.
OfValidators(signers) == signers \cap Committee

\* Faulty variant: an entry starts from the validators that are being added.
addSignatureAfresh(k, h, signers, gone) ==
    [g \in Hashes |->
        CASE g = h -> signers
          [] g \in gone -> Out
          [] OTHER -> signatures[k][g]]

\* addSignatureFor, once for each signer: only the first one can evict another
\* entry; an entry evicted before starts again from the empty set.
addSignatureFor(k, h, signers, gone) ==
    [g \in Hashes |->
        CASE g = h -> signers \cup (IF signatures[k][h] = Out THEN {} ELSE signatures[k][h])
          [] g \in gone -> Out
          [] OTHER -> signatures[k][g]]

\* refreshSignatures: cacheSignaturesFromHeader; what writeSignaturesToHeader then
\* copies into the header is the entry as it is now.
refreshSignatures(k, h, signers) ==
    /\ IF OfValidators(signers) = {}
       THEN UNCHANGED <<signatures, stored>>
       ELSE /\ \E gone \in Evicted(CachedVotes(k), h) :
                  signatures' = [signatures EXCEPT ![k] = addSignatureFor(k, h, OfValidators(signers), gone)]
            /\ stored' = [stored EXCEPT ![h] = "empty list"]
    /\ received' = [received EXCEPT ![k][h] = @ \cup (signers \cap Committee)]
    /\ UNCHANGED recent

AddBlock(s, h) ==
    /\ \E gone \in Evicted(recent[s], h) : recent' = [recent EXCEPT ![s] = (@ \ gone) \cup {h}]
    /\ stored' = [stored EXCEPT ![h] = "block"]
    /\ UNCHANGED <<signatures, received>>

\* Deletes the database's entry as well, whoever wrote it.
RemoveBlock(s, h) ==
    /\ h \in recent[s]
    /\ recent' = [recent EXCEPT ![s] = @ \ {h}]
    /\ stored' = [stored EXCEPT ![h] = "nothing"]
    /\ UNCHANGED <<signatures, received>>

\* GetBlock finds the block in memory, or in the database if its bytes are still
\* the block's.  (Faulty variant: any bytes will do.)
AnyBytes(s, h) == h \in recent[s] \/ stored[h] # "nothing"
GetBlock(s, h) == h \in recent[s] \/ stored[h] = "block"

\* NewLBFT2 and NewHandler on the same database.
CacheRestart ==
    /\ signatures' = [k \in VoteKinds |-> [h \in Hashes |-> Out]]
    /\ recent' = [s \in Stores |-> {}]
    /\ received' = [k \in VoteKinds |-> [h \in Hashes |-> {}]]
    /\ UNCHANGED stored

CacheNext ==
    \/ \E k \in VoteKinds, h \in Hashes, signers \in SUBSET (Committee \cup Strangers) :
          refreshSignatures(k, h, signers)
    \/ \E s \in Stores, h \in Hashes : AddBlock(s, h)
    \/ \E h \in Hashes : RemoveBlock("unknownAncestors", h)
    \/ CacheRestart

CacheSpec == CacheInit /\ [][CacheNext]_cacheVars
-----------------------------------------------------------------------------
\* The types of the caches and of what the database holds for a hash.
CacheTypeOK ==
    /\ signatures \in [VoteKinds -> [Hashes -> (SUBSET Committee) \cup {Out}]]
    /\ recent \in [Stores -> SUBSET Hashes]
    /\ stored \in [Hashes -> {"nothing", "block", "empty list"}]
    /\ \A k \in VoteKinds : Cardinality(CachedVotes(k)) <= CacheSize
    /\ \A s \in Stores : Cardinality(recent[s]) <= CacheSize

\* What is counted towards a certificate are signatures that validators of the
\* term really made for that block in that phase, through evictions and restarts;
\* and while the signed blocks fit in the cache, none of them is forgotten.
CountIsOfVotes ==
    \A k \in VoteKinds :
        /\ \A h \in Hashes : signatures[k][h] # Out => signatures[k][h] \subseteq received[k][h]
        /\ Cardinality({h \in Hashes : received[k][h] # {}}) <= CacheSize =>
              \A h \in Hashes : getSignaturesCountOf(k, h) = Cardinality(received[k][h])

\* A block that GetBlock finds is one that was added: bytes that signatures left
\* under its hash are never taken for it.
FoundBlocksWereAdded ==
    [][\A s \in Stores, h \in Hashes :
         GetBlock(s, h)' /\ ~GetBlock(s, h) => \E t \in Stores : h \in recent'[t]]_cacheVars

=============================================================================
