----------------------------- MODULE ChainFiles -----------------------------
(***************************************************************************)
(* What a node keeps on disk and moves through files: the genesis block    *)
(* that `chain init' or the start of the node writes (core/genesis.go),    *)
(* the export and import of blocks by the command line and by the admin    *)
(* API (cmd/cpchain/commons/chain.go, protocols/cpc/api.go), and what the  *)
(* debug API reads page by page or as a difference of two states.  The     *)
(* three are independent state machines.                                    *)
(*                                                                         *)
(* Blocks, configurations and hashes are names.  A put is atomic and the   *)
(* puts of a process reach the database in their order (LevelDB); a crash  *)
(* of the process comes between any two of them.                           *)
(***************************************************************************)
EXTENDS Integers, Sequences, FiniteSets

CONSTANTS
  Specs,        \* the genesis files and values that commands are given
  BlockOf,      \* the genesis block each one makes, as its hash
  ConfigOf,     \* its chain configuration, or None
  NumberOf,     \* the block number it claims
  Defaults,     \* the specs DefaultGenesisBlock returns, by run mode
  MainnetHash,  \* MainnetGenesisHash
  DefaultConfig,\* configs.ChainConfigInfo()
  MaxSetupCrashes,   \* crashes of a process while it writes
  MaxRuns       \* commands run

CONSTANTS
  Length,       \* the highest block of the chain that is copied
  Batch,        \* importBatchSize
  MaxCopies,    \* exports and imports run
  StorageKeys,  \* the hashed keys a contract's storage may have: 0 .. n
  MaxResult,    \* the longest page asked for
  Holders,      \* accounts of the state
  Flush         \* preimages gathered before they are written

VARIABLES
  store,        \* the keys of the chain database that genesis.go writes
  filesTodo,         \* the puts the running command has still to make
  cmd,          \* the command that runs, and what the last one returned
  setupCrashes, runs

VARIABLES
  source,       \* the head of the chain exported from
  exporter, file, target, importer, copies

VARIABLES pager, diff, preimages

genesisVars == <<store, filesTodo, cmd, setupCrashes, runs>>
copyVars == <<source, exporter, file, target, importer, copies>>
readVars == <<pager, diff, preimages>>

NoFile == "none"
FileBlocks == {BlockOf[g] : g \in Specs}

(***************************************************************************)
(* Genesis.                                                                *)
(***************************************************************************)
\* The keys of the database, by the accessor that writes them.
BlockFields == {"state", "body", "number", "header", "receipts"}
Keys == ((BlockFields \cup {"config"}) \X FileBlocks) \cup ({"canonical", "headBlock", "headHeader"} \X {"0"})
stored == store[<<"canonical", "0">>]

\* rawdb.WriteBlock: body first, then the number of the hash, then the header.
WriteBlock(b) == << <<<<"body", b>>, b>>, <<<<"number", b>>, b>>, <<<<"header", b>>, b>> >>

\* Genesis.ToBlock writes the state; a block number above zero ends Commit there.
ToBlock(b) == << <<<<"state", b>>, b>> >>

\* Genesis.Commit.
CommitGenesis(g) ==
  LET b == BlockOf[g] IN
  ToBlock(b) \o WriteBlock(b)
    \o << <<<<"receipts", b>>, b>>, <<<<"canonical", "0">>, b>>, <<<<"headBlock", "0">>, b>>,
          <<<<"headHeader", "0">>, b>>, <<<<"config", b>>, ConfigOf[g]>> >>

Ends(g, cfg, hash, err) == [pc |-> "puts", g |-> g, cfg |-> cfg, hash |-> hash, err |-> err]

\* The genesis asked for makes another block than the one stored.
Mismatch(g) == BlockOf[g] # stored

\* A nil genesis stands for DefaultGenesisBlock, the one of the run mode.
Chosen(g, d) == IF g = NoFile THEN d ELSE g

(***************************************************************************)
(* SetupGenesisBlock: what it has to put, and what it will return then.    *)
(* g is None for a nil genesis, d the default genesis of the run mode.     *)
(* A block number above zero makes Commit return a nil block, whose Hash   *)
(* panics.                                                                 *)
(***************************************************************************)
SetupGenesisBlock(g, d) ==
  CASE g # NoFile /\ ConfigOf[g] = NoFile ->
         [puts |-> <<>>, cmd |-> Ends(g, DefaultConfig, NoFile, "no config")]
    [] stored = NoFile /\ (g = NoFile \/ ConfigOf[g] # NoFile) ->
         LET s == Chosen(g, d) IN
         IF NumberOf[s] = 0
         THEN [puts |-> CommitGenesis(s), cmd |-> Ends(g, ConfigOf[s], BlockOf[s], "")]
         ELSE [puts |-> ToBlock(BlockOf[s]), cmd |-> Ends(g, ConfigOf[s], NoFile, "panic")]
    [] stored # NoFile /\ g # NoFile /\ ConfigOf[g] # NoFile ->
         IF Mismatch(g)
         THEN [puts |-> <<>>, cmd |-> Ends(g, ConfigOf[g], BlockOf[g], "mismatch")]
         ELSE [puts |-> << <<<<"config", stored>>, ConfigOf[g]>> >>, cmd |-> Ends(g, ConfigOf[g], stored, "")]
    [] OTHER ->
         IF stored # MainnetHash
         THEN [puts |-> <<>>, cmd |-> Ends(g, store[<<"config", stored>>], stored, "")]
         ELSE [puts |-> << <<<<"config", stored>>, DefaultConfig>> >>, cmd |-> Ends(g, DefaultConfig, stored, "")]

\* `chain init' (always with a genesis) and cpc.New (with the one of its configuration, if any).
Setup(g, d) ==
  /\ cmd.pc = "idle" /\ runs < MaxRuns
  /\ LET r == SetupGenesisBlock(g, d) IN filesTodo' = r.puts /\ cmd' = r.cmd
  /\ runs' = runs + 1
  /\ UNCHANGED <<store, setupCrashes>>

\* OpenGenesisBlock, for the commands that work on an existing chain.
OpenGenesisBlock ==
  /\ cmd.pc = "idle" /\ runs < MaxRuns
  /\ runs' = runs + 1
  /\ cmd' = CASE stored = NoFile -> Ends(NoFile, NoFile, NoFile, "no genesis")
              [] stored # NoFile /\ store[<<"config", stored>>] = NoFile -> Ends(NoFile, NoFile, stored, "no config")
              [] OTHER -> Ends(NoFile, store[<<"config", stored>>], stored, "")
  /\ UNCHANGED <<store, filesTodo, setupCrashes>>

Put ==
  /\ cmd.pc = "puts" /\ filesTodo # <<>>
  /\ store' = [store EXCEPT ![Head(filesTodo)[1]] = Head(filesTodo)[2]]
  /\ filesTodo' = Tail(filesTodo)
  /\ UNCHANGED <<cmd, setupCrashes, runs>>

Returned ==
  /\ cmd.pc = "puts" /\ filesTodo = <<>>
  /\ cmd' = [cmd EXCEPT !.pc = "idle"]
  /\ UNCHANGED <<store, filesTodo, setupCrashes, runs>>

NoCommand == [pc |-> "idle", g |-> NoFile, cfg |-> NoFile, hash |-> NoFile, err |-> "none yet"]

CrashWriting ==
  /\ cmd.pc = "puts" /\ filesTodo # <<>> /\ setupCrashes < MaxSetupCrashes
  /\ setupCrashes' = setupCrashes + 1 /\ filesTodo' = <<>> /\ cmd' = NoCommand
  /\ UNCHANGED <<store, runs>>

EmptyStore == [k \in Keys |-> NoFile]
\* `chain cleandb', confirmed.
CleanDB ==
  /\ cmd.pc = "idle" /\ stored # NoFile
  /\ store' = EmptyStore /\ cmd' = NoCommand
  /\ UNCHANGED <<filesTodo, setupCrashes, runs>>

GenesisInit ==
  /\ store = EmptyStore /\ filesTodo = <<>> /\ cmd = NoCommand
  /\ setupCrashes = 0 /\ runs = 0

GenesisNext ==
  \/ \E g \in Specs \cup {NoFile}, d \in Defaults : Setup(g, d)
  \/ OpenGenesisBlock \/ Put \/ Returned \/ CrashWriting \/ CleanDB

(***************************************************************************)
(* Copying a chain.  A block is <<its number, its chain>>: "own" for the   *)
(* chain of the node, "alien" for one with another genesis.  A decoding    *)
(* error of the file is the block Junk.  target.has are the blocks stored, *)
(* of which those up to target.head have their state: a restart takes the  *)
(* head back to a block whose state was written and leaves the bodies.     *)
(***************************************************************************)
Junk == <<0, "junk">>
Own(n) == <<n, "own">>
Segment(first, last) == [i \in 1 .. (last - first + 1) |-> Own(first + i - 1)]
AlienFile == << <<0, "alien">>, <<1, "alien">> >>
IdleExport == [pc |-> "idle", first |-> 0, last |-> 0, err |-> "none yet"]
IdleImport == [pc |-> "idle", api |-> FALSE, rest |-> <<>>, batch |-> <<>>, given |-> <<>>, interrupted |-> FALSE, err |-> "none yet"]
CopyIdle == exporter.pc = "idle" /\ importer.pc = "idle" /\ copies < MaxCopies

\* The chain exported from grows, and SetHead takes it back; both need bc.mu, which ExportN holds.
Grow == source < Length /\ source' = source + 1 /\ UNCHANGED <<exporter, file, target, importer, copies>>
SetHeadFiles == \E n \in 0 .. (source - 1) : source' = n /\ UNCHANGED <<exporter, file, target, importer, copies>>

\* exportChain with numbers, or without (and the API's ExportChain): up to the head read before the lock.
BeginExport(first, last) ==
  /\ CopyIdle
  /\ exporter' = [pc |-> "export", first |-> first, last |-> last, err |-> ""]
  /\ file' = <<>> /\ importer' = IdleImport /\ copies' = copies + 1
  /\ UNCHANGED <<source, target>>

\* The blocks ExportN writes when it finds them all.
Exported(first, last) == Segment(first, last)

\* ExportN; a write may fail after any number of blocks.
ExportN ==
  /\ exporter.pc = "export"
  /\ \/ /\ exporter.first > exporter.last
        /\ exporter' = [exporter EXCEPT !.pc = "idle", !.err = "first after last"]
        /\ UNCHANGED file
     \/ /\ exporter.first <= exporter.last /\ exporter.last <= source
        /\ exporter' = [exporter EXCEPT !.pc = "idle"]
        /\ file' = Exported(exporter.first, exporter.last)
     \/ /\ exporter.first <= exporter.last
        /\ \E n \in exporter.first .. exporter.last :
             /\ n - 1 <= source
             /\ file' = Segment(exporter.first, n - 1)
             /\ exporter' = [exporter EXCEPT !.pc = "idle", !.err = IF n > source THEN "not found" ELSE "write failed"]
  /\ UNCHANGED <<source, target, importer, copies>>

\* The file meanwhile: its end is lost or damaged, or it is the file of another chain.
ReplaceFile ==
  /\ CopyIdle /\ exporter' = IdleExport /\ importer' = IdleImport
  /\ \/ \E n \in 0 .. Len(file) : file' = Append(SubSeq(file, 1, n), Junk) /\ Junk \notin {file[i] : i \in 1 .. Len(file)}
     \/ file # AlienFile /\ file' = AlienFile
  /\ UNCHANGED <<source, target, copies>>

BeginImport(api) ==
  /\ CopyIdle /\ ~target.stopped
  /\ importer' = [IdleImport EXCEPT !.pc = "read", !.api = api, !.rest = file, !.given = file, !.err = ""]
  /\ copies' = copies + 1 /\ exporter' = IdleExport
  /\ UNCHANGED <<source, file, target>>

\* SIGINT or SIGTERM while the command line imports.
Interrupt ==
  /\ importer.pc # "idle" /\ ~importer.api /\ ~importer.interrupted
  /\ importer' = [importer EXCEPT !.interrupted = TRUE]
  /\ UNCHANGED <<source, exporter, file, target, copies>>

EndImport(err) == importer' = [importer EXCEPT !.pc = "idle", !.rest = <<>>, !.batch = <<>>, !.err = err]

\* How far the next batch reaches: the command line does not count genesis blocks, the API takes them in.
Counts(api, b) == api \/ b[1] # 0
Reach(api, rest) ==
  LET full == {n \in 0 .. Len(rest) : Cardinality({i \in 1 .. n : Counts(api, rest[i])}) = Batch} IN
  IF full = {} THEN Len(rest) ELSE CHOOSE n \in full : \A m \in full : n <= m

\* Loading a batch of either ImportChain: interrupted, a decoding error, the end, or a batch.
ReadBatch ==
  /\ importer.pc = "read"
  /\ LET n == Reach(importer.api, importer.rest)
         read == SubSeq(importer.rest, 1, n)
         kept == SelectSeq(read, LAMBDA b : Counts(importer.api, b)) IN
     \/ importer.interrupted /\ EndImport("interrupted")
     \/ ~importer.interrupted /\ Junk \in {read[i] : i \in 1 .. n} /\ EndImport("parse")
     \/ ~importer.interrupted /\ Junk \notin {read[i] : i \in 1 .. n} /\ kept = <<>> /\ EndImport("")
     \/ /\ ~importer.interrupted /\ Junk \notin {read[i] : i \in 1 .. n} /\ kept # <<>>
        /\ importer' = [importer EXCEPT !.pc = "check", !.batch = SubSeq(kept, 1, IF Len(kept) > Batch THEN Batch ELSE Len(kept)),
                                        !.rest = SubSeq(importer.rest, n + 1, Len(importer.rest))]
  /\ UNCHANGED <<source, exporter, file, target, copies>>

Stored(b) == b \in target.has
\* missingBlocks: up to the head the block is enough, above it its state must be there.
Present(b) == Stored(b) /\ b[1] <= target.head

\* The blocks of the batch that are to be inserted.
Missing(api, batch) ==
  IF api
  THEN IF \A i \in 1 .. Len(batch) : Stored(batch[i]) THEN <<>> ELSE batch
  ELSE LET gaps == {i \in 1 .. Len(batch) : ~Present(batch[i])} IN
       IF gaps = {} THEN <<>> ELSE SubSeq(batch, CHOOSE i \in gaps : \A j \in gaps : i <= j, Len(batch))

Contiguous(bs) == \A i \in 1 .. (Len(bs) - 1) : bs[i + 1] = <<bs[i][1] + 1, bs[i][2]>>

CheckBatch ==
  /\ importer.pc = "check"
  /\ LET missing == Missing(importer.api, importer.batch) IN
     \/ importer.interrupted /\ EndImport("interrupted")
     \/ ~importer.interrupted /\ ~Contiguous(missing) /\ EndImport("insert")
     \/ /\ ~importer.interrupted /\ Contiguous(missing)
        /\ importer' = [importer EXCEPT !.pc = IF missing = <<>> THEN "read" ELSE "insert", !.batch = missing]
  /\ UNCHANGED <<source, exporter, file, target, copies>>

(***************************************************************************)
(* One block of insertChain: ended by the node's Stop without an error, a  *)
(* genesis block of another chain is fatal, a known one is skipped, an     *)
(* unknown parent is an error, and otherwise the block becomes the head,   *)
(* after its stored ancestors whose state is missing.                      *)
(***************************************************************************)
InsertBlock ==
  /\ importer.pc = "insert"
  /\ IF importer.batch = <<>> \/ target.stopped
     THEN /\ importer' = [importer EXCEPT !.pc = "read", !.batch = <<>>]
          /\ UNCHANGED target
     ELSE LET b == Head(importer.batch)
              parent == <<b[1] - 1, b[2]>> IN
          IF b[1] = 0 /\ b # Own(0)
          THEN EndImport("fatal") /\ UNCHANGED target
          ELSE IF b[1] # 0 /\ ~Stored(parent)
          THEN EndImport("insert") /\ UNCHANGED target
          ELSE /\ importer' = [importer EXCEPT !.batch = Tail(@)]
               /\ target' = IF b[1] <= target.head THEN target
                            ELSE [target EXCEPT !.has = @ \cup {b}, !.head = b[1]]
  /\ UNCHANGED <<source, exporter, file, copies>>

\* The node the API runs in inserts a block of its own between two insertions of the import, or stops.
Sync ==
  /\ importer.pc # "insert" /\ target.head < Length /\ ~target.stopped
  /\ (importer.pc # "idle" => importer.api)
  /\ target' = [target EXCEPT !.head = @ + 1, !.has = @ \cup {Own(target.head + 1)}]
  /\ UNCHANGED <<source, exporter, file, importer, copies>>

StopNode ==
  /\ importer.pc # "idle" /\ importer.api /\ ~target.stopped
  /\ target' = [target EXCEPT !.stopped = TRUE]
  /\ UNCHANGED <<source, exporter, file, importer, copies>>

\* A restart of the target, at a head whose state reached the disk.
RestartTarget ==
  /\ CopyIdle
  /\ \E n \in 0 .. target.head : target' = [target EXCEPT !.head = n, !.stopped = FALSE] /\ target' # target
  /\ importer' = IdleImport
  /\ UNCHANGED <<source, exporter, file, copies>>

CopyInit ==
  /\ source = 0 /\ exporter = IdleExport /\ file = <<>> /\ copies = 0
  /\ target = [has |-> {Own(0)}, head |-> 0, stopped |-> FALSE] /\ importer = IdleImport

CopyNext ==
  \/ Grow \/ SetHeadFiles
  \/ \E first, last \in 0 .. Length : BeginExport(first, last)
  \/ ExportN \/ ReplaceFile
  \/ \E api \in BOOLEAN : BeginImport(api)
  \/ Interrupt \/ ReadBatch \/ CheckBatch \/ InsertBlock \/ Sync \/ StopNode \/ RestartTarget

(***************************************************************************)
(* Reads of the debug API.  A client pages through the storage of an       *)
(* account at one block; another asks which accounts changed between two   *)
(* blocks; preimages of the hashed keys are imported from a file.  They    *)
(* share nothing but the preimages, so a behaviour has the pages or the    *)
(* rest.                                                                   *)
(***************************************************************************)
Idle == [pc |-> "idle", storage |-> {}, from |-> 0, next |-> 0, pages |-> <<>>]
StartPaging(s, from) ==
  /\ pager.pc = "idle" /\ preimages.pc = "idle"
  /\ pager' = [pc |-> "asks", storage |-> s, from |-> from, next |-> from, pages |-> <<>>]
  /\ UNCHANGED <<diff, preimages>>

\* The least n keys of the trie from start on, as its iterator meets them.
Least(keys, n) == {k \in keys : Cardinality({j \in keys : j < k}) < n}
\* What is left when the page is full decides NextKey.
NextKey(rest, page) == Least(rest, 1)

Page(keys, maxResult) == Least(keys, maxResult)

\* storageRangeAt for the client's next page.
StorageRangeAt(maxResult) ==
  /\ pager.pc = "asks"
  /\ LET keys == {k \in pager.storage : k >= pager.next}
         page == Page(keys, maxResult)
         next == NextKey(keys \ page, page) IN
     pager' = [pager EXCEPT !.pages = Append(@, page),
                            !.pc = IF next = {} THEN "done" ELSE "asks",
                            !.next = IF next = {} THEN pager.next ELSE CHOOSE k \in next : TRUE]
  /\ UNCHANGED <<diff, preimages>>

\* A state is the value of each account, 0 for none; blocks 1, 2 and 3 follow one another.
States == [1 .. 3 -> [Holders -> 0 .. 2]]

\* trie.NewDifferenceIterator: the leaves of the second state that the first has not.
Difference(old, new) == {a \in Holders : new[a] # 0 /\ old[a] # new[a]}

(***************************************************************************)
(* getModifiedAccounts, for two blocks or a block and its parent.  A leaf  *)
(* of the second trie that only moved is met too, and a missing preimage   *)
(* ends it.                                                                *)
(***************************************************************************)
Modified(s, i, j, moved) ==
  LET met == Difference(s[i], s[j]) \cup {a \in moved : s[j][a] # 0} IN
  IF i >= j THEN [err |-> "heights", dirty |-> {}]
  ELSE IF ~(met \subseteq preimages.db) THEN [err |-> "no preimage", dirty |-> {}]
  ELSE [err |-> "", dirty |-> met]

GetModifiedAccounts(s, moved) ==
  /\ diff.states = <<>>
  /\ diff' = [states |-> s, whole |-> Modified(s, 1, 3, moved), halves |-> <<Modified(s, 1, 2, {}), Modified(s, 2, 3, moved)>>,
              backward |-> Modified(s, 3, 1, moved)]
  /\ UNCHANGED <<pager, preimages>>

\* ImportPreimages: gathers more than Flush of them, writes them, and writes the rest at the end.
Gathered == preimages.map
BeginPreimages(f) ==
  /\ preimages.pc = "idle" /\ pager.pc = "idle"
  /\ preimages' = [preimages EXCEPT !.pc = "reads", !.file = f, !.rest = f]
  /\ UNCHANGED <<pager, diff>>

FlushedBatch(db, map) == db \cup map

ReadPreimage ==
  /\ preimages.pc = "reads" /\ preimages.rest # <<>>
  /\ LET blob == Head(preimages.rest)
         map == Gathered \cup {blob} IN
     preimages' = IF blob = "junk" THEN [preimages EXCEPT !.pc = "failed", !.map = {}]
                  ELSE IF Cardinality(map) > Flush
                  THEN [preimages EXCEPT !.rest = Tail(@), !.db = FlushedBatch(@, map), !.map = {}]
                  ELSE [preimages EXCEPT !.rest = Tail(@), !.map = map]
  /\ UNCHANGED <<pager, diff>>

LastPreimages ==
  /\ preimages.pc = "reads" /\ preimages.rest = <<>>
  /\ preimages' = [preimages EXCEPT !.pc = "done", !.db = @ \cup Gathered, !.map = {}]
  /\ UNCHANGED <<pager, diff>>

\* ExportPreimages of this database, then imported again elsewhere.
ExportPreimages ==
  /\ preimages.pc = "done"
  /\ \E order \in [1 .. Cardinality(preimages.db) -> preimages.db] :
       /\ {order[i] : i \in DOMAIN order} = preimages.db
       /\ preimages' = [pc |-> "exported", db |-> preimages.db, file |-> order, rest |-> <<>>, map |-> {}]
  /\ UNCHANGED <<pager, diff>>

ReadInit ==
  /\ pager = Idle
  /\ diff = [states |-> <<>>, whole |-> [err |-> "", dirty |-> {}], halves |-> <<>>, backward |-> [err |-> "", dirty |-> {}]]
  /\ preimages = [pc |-> "idle", db |-> {}, file |-> <<>>, rest |-> <<>>, map |-> {}]
PreimageFiles == UNION {[1 .. n -> Holders \cup {"junk"}] : n \in 0 .. (Cardinality(Holders) + 1)}

ReadNext ==
  \/ \E s \in SUBSET StorageKeys, from \in StorageKeys : StartPaging(s, from)
  \/ \E maxResult \in 1 .. MaxResult : StorageRangeAt(maxResult)
  \/ preimages.pc = "done" /\ \E s \in States, moved \in SUBSET Holders : GetModifiedAccounts(s, moved)
  \/ \E f \in PreimageFiles : BeginPreimages(f)
  \/ ReadPreimage \/ LastPreimages \/ ExportPreimages

(***************************************************************************)
(* Properties.                                                             *)
(***************************************************************************)
\* The files of the data directory hold what their writers put there: values of the right kind
\* under every key, and a copied chain whose stored blocks have no gap up to its head.
FilesTypeOK ==
  /\ store \in [Keys -> FileBlocks \cup {NoFile, DefaultConfig} \cup {ConfigOf[g] : g \in Specs}]
  /\ cmd.pc \in {"idle", "puts"} /\ setupCrashes \in 0 .. MaxSetupCrashes
  /\ source \in 0 .. Length /\ target.head \in 0 .. Length
  /\ \A n \in 0 .. target.head : Own(n) \in target.has
  /\ \A i \in DOMAIN pager.pages : Cardinality(pager.pages[i]) <= MaxResult
  /\ preimages.map \subseteq Holders /\ Cardinality(preimages.map) <= Flush

\* Wherever a crash comes while Genesis.Commit writes, a canonical hash at height 0 names a block
\* whose state, body, header, number and receipts are all stored.
CanonicalIsComplete == stored # NoFile => \A f \in BlockFields : store[<<f, stored>>] = stored

\* SetupGenesisBlock returning without an error for a given genesis means that the database is that
\* genesis's: block and configuration, whatever was started, crashed or cleaned before.
GenesisAsAsked ==
  (cmd.pc = "idle" /\ cmd.err = "" /\ cmd.g # NoFile) =>
    /\ stored = BlockOf[cmd.g] /\ cmd.hash = stored
    /\ store[<<"config", stored>>] = ConfigOf[cmd.g] /\ cmd.cfg = ConfigOf[cmd.g]

\* An export that reports no error has written every block asked for, in order, even though the
\* head was read before the lock and may have moved.
ExportExact ==
  (exporter.pc = "idle" /\ exporter.err = "") => file = Segment(exporter.first, exporter.last)

\* An import that reports no error, of a node that was not stopped meanwhile, leaves every block of
\* the file stored, whichever batch it was in and whatever the node inserted by itself.
ImportedAll ==
  (importer.pc = "idle" /\ importer.err = "" /\ ~target.stopped) =>
    \A i \in 1 .. Len(importer.given) : importer.given[i][1] # 0 => Stored(importer.given[i])

\* The command line's import without an error also brings the head to the last block of the file,
\* when a restart had left blocks stored above the head.
CliReachesTip ==
  (importer.pc = "idle" /\ importer.err = "" /\ ~importer.api) =>
    \A i \in 1 .. Len(importer.given) : importer.given[i][1] <= target.head

\* debug_storageRangeAt's pages, followed through their next keys, hold every key from the first
\* one asked for, once.
PagesExact ==
  /\ \A i, j \in DOMAIN pager.pages : i # j => pager.pages[i] \cap pager.pages[j] = {}
  /\ UNION {pager.pages[i] : i \in DOMAIN pager.pages} =
       {k \in pager.storage : k >= pager.from /\ (pager.pc = "done" \/ k < pager.next)}

\* An account reported as modified between two blocks because it changed is reported between one of
\* them and a block in between; the wrong order of blocks is refused.
IntervalsCompose ==
  diff.states # <<>> =>
    /\ diff.backward.err = "heights"
    /\ (diff.whole.err = "" /\ diff.halves[1].err = "" /\ diff.halves[2].err = "") =>
         diff.whole.dirty \subseteq diff.halves[1].dirty \cup diff.halves[2].dirty

\* A preimage file imported without an error is wholly in the database, whichever flush wrote its
\* parts.
PreimagesImported ==
  preimages.pc = "done" => {preimages.file[i] : i \in DOMAIN preimages.file} \subseteq preimages.db
=============================================================================
