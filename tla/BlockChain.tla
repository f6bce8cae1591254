------------------------------ MODULE BlockChain ------------------------------
(***************************************************************************)
(* The block chain of core/blockchain.go and core/headerchain.go in full   *)
(* sync mode: insertion of batches, the order in which the database is     *)
(* written, the tries kept in memory and committed after each batch,       *)
(* SetHead, and what a start finds after a crash between any two writes.   *)
(*                                                                         *)
(* A block is a model value of a tree given by Parent and Number; a header *)
(* and its body are written and deleted together.  The engine waits for a  *)
(* block's time instead of returning ErrFutureBlock, so that futureBlocks  *)
(* is always empty and is left out.  A batch is shorter than triesInMemory *)
(* (128), so that the garbage collection of WriteBlockWithState finds no   *)
(* trie that CommitStateDB has not dropped before.                         *)
(***************************************************************************)
EXTENDS Integers, Sequences, FiniteSets

CONSTANTS
  Blocks, Genesis, Parent, Number,
  Private,          \* the blocks that change the private state
  Flaw,             \* where a block fails: "header", "body", "state", or "none"
  Batches,          \* the arguments of InsertChain
  Targets,          \* the arguments of SetHead
  Offsets,          \* the ages of the states CommitStateDB writes, in order
  MaxCrashes, MaxSetHeads

ASSUME BlockTree ==
  /\ Genesis \in Blocks \ Private /\ Number[Genesis] = 0 /\ Flaw[Genesis] = "none"
  /\ \A b \in Blocks \ {Genesis} :
       Parent[b] \in Blocks /\ Number[b] = Number[Parent[b]] + 1

VARIABLES
  db,        \* the database: blocks, canonical hashes, heads, tries
  mem,       \* currentBlock, the header and fast heads, the tries in memory
  mode,      \* "up", "stopping", "down", or "broken": the start panicked
  pc, todo,  \* the insertion in progress and the blocks left to insert
  ops,       \* the database writes left in the step of pc, in order
  hops,      \* the database writes left of a SetHead in progress
  unknown,   \* the unknownAncestors cache
  update,    \* the update goroutine: "ready", "inserting" or "stuck"
  finished,  \* the head when InsertChain last returned, lowered by SetHead (history)
  raced,     \* an insertion or a crash has overlapped a SetHead (history)
  crashes, setHeads

chainVars == <<db, mem, mode, pc, todo, ops, hops, unknown, update, finished, raced, crashes, setHeads>>
counters == <<crashes, setHeads>>
history == <<raced, counters>>

None == "none"
Heights == {Number[b] : b \in Blocks}
Ancestry[b \in Blocks] ==
  {b} \cup (IF b = Genesis THEN {} ELSE Ancestry[Parent[b]])

\* The block whose execution made the private state of b.
PrivateRoot[b \in Blocks] ==
  IF b \in Private \/ b = Genesis THEN b ELSE PrivateRoot[Parent[b]]

HasState(b) == b \in db.states \cup mem.tries
HasPrivateState(b) == PrivateRoot[b] \in db.privs \cup mem.privTries
HasBlockAndState(b) == b \in db.blocks /\ HasState(b)
GetBlockByNumber(n) == IF db.canon[n] \in db.blocks THEN db.canon[n] ELSE None

ChainInit ==
  /\ db = [blocks |-> {Genesis}, canon |-> [n \in Heights |-> IF n = 0 THEN Genesis ELSE None],
           headBlock |-> Genesis, headHeader |-> Genesis, headFast |-> Genesis,
           states |-> {Genesis}, privs |-> {Genesis}]
  /\ mem = [block |-> Genesis, header |-> Genesis, fast |-> Genesis,
            tries |-> {}, privTries |-> {}]
  /\ mode = "up" /\ pc = "idle" /\ todo = <<>> /\ ops = <<>> /\ hops = <<>>
  /\ unknown = {} /\ update = "ready" /\ finished = Genesis
  /\ raced = FALSE /\ crashes = 0 /\ setHeads = 0

-----------------------------------------------------------------------------
(* Insertion                                                               *)

Op(w, b) == [w |-> w, b |-> b]
\* Faulty variant: the state of the head itself is not among those committed.
CommitsOfAncestors == <<Op("public", 1), Op("dereference", 0)>>
Commits == [i \in 1 .. Len(Offsets) + 1 |->
              IF i <= Len(Offsets) THEN Op("public", Offsets[i]) ELSE Op("dereference", 0)]

Linked(batch) == \A i \in 2 .. Len(batch) : Parent[batch[i]] = batch[i - 1]
Begin(blocks) ==
  /\ todo' = IF Linked(blocks) THEN blocks ELSE <<>>
  /\ pc' = IF Linked(blocks) THEN "verify" ELSE "write"
  /\ ops' = IF Linked(blocks) THEN <<>> ELSE Commits

\* insertChainProtectLock is held to the end: one insertion at a time.
InsertChain(batch) ==
  /\ mode = "up" /\ pc = "idle"
  /\ Number[batch[Len(batch)]] > Number[mem.block]
  /\ Begin(SelectSeq(batch, LAMBDA b : Number[b] > Number[mem.block]))
  /\ raced' = (raced \/ hops # <<>>)
  /\ UNCHANGED <<db, mem, mode, hops, unknown, update, finished, counters>>

\* The tick of update: the lowest block first, and then the error is sent to
\* ErrChan, which nothing receives from.
procUnknownAncestors(b) ==
  /\ mode = "up" /\ pc = "idle" /\ update = "ready"
  /\ b \in unknown /\ \A c \in unknown : Number[b] <= Number[c]
  /\ IF Number[b] > Number[mem.block]
       THEN Begin(<<b>>) /\ update' = "inserting"
       ELSE UNCHANGED <<todo, pc, ops>> /\ update' = "stuck"
  /\ raced' = (raced \/ hops # <<>>)
  /\ UNCHANGED <<db, mem, mode, hops, unknown, finished, counters>>

\* Faulty variant: no look at the block already stored for the height.
NoConflict(b) == FALSE

\* Another block at the height of b: the program exits.
Conflict(b) == GetBlockByNumber(Number[b]) \notin {None, b}

\* What the header verifier answers for the next block, then the look at its height, then
\* ValidateBody.
Verdict(b) ==
  IF Parent[b] \notin db.blocks THEN "unknown ancestor"
  ELSE IF Flaw[b] = "header" THEN "error"
  ELSE IF Conflict(b) THEN "fatal"
  ELSE IF HasBlockAndState(b) THEN IF Number[mem.block] >= Number[b] THEN "ignored" ELSE "ok"
  ELSE IF ~HasState(Parent[b]) THEN "pruned"
  ELSE IF Flaw[b] = "body" THEN "error" ELSE "ok"

\* The states of the parent can be opened, and the block is executed to the state it declares.
Processed(b) == HasState(Parent[b]) /\ HasPrivateState(Parent[b]) /\ Flaw[b] # "state"

\* The ancestors of b without a state, oldest first.
Stateless(b) == {a \in Ancestry[b] \ {b} : \A c \in Ancestry[b] \ {b} :
                   Number[c] >= Number[a] => ~HasState(c)}
Winner(b) == LET S == Stateless(b) IN
  [i \in 1 .. Cardinality(S) |-> CHOOSE a \in S : Cardinality(Ancestry[a] \cap S) = i]

Next1(rest) ==
  /\ todo' = rest
  /\ IF rest = <<>> THEN pc' = "write" /\ ops' = Commits ELSE pc' = "verify" /\ ops' = <<>>
Die == mode' = "down" /\ pc' = "idle" /\ todo' = <<>> /\ ops' = <<>> /\ hops' = <<>>

Verify ==
  LET b == Head(todo) IN
  /\ mode \in {"up", "stopping"} /\ pc = "verify"
  /\ \/ mode = "stopping" /\ Next1(<<>>) /\ UNCHANGED <<mode, hops, unknown>>
     \/ /\ mode = "up" /\ Verdict(b) = "unknown ancestor"
        /\ unknown' = unknown \cup {b}
        /\ Next1(<<>>) /\ UNCHANGED <<mode, hops>>
     \/ /\ mode = "up" /\ Verdict(b) \in {"error", "ignored"}
        /\ Next1(IF Verdict(b) = "error" THEN <<>> ELSE Tail(todo))
        /\ UNCHANGED <<mode, hops, unknown>>
     \/ mode = "up" /\ Verdict(b) = "fatal" /\ Die /\ UNCHANGED unknown
     \/ mode = "up" /\ Verdict(b) = "pruned" /\ Next1(Winner(b) \o todo) /\ UNCHANGED <<mode, hops, unknown>>
     \/ /\ mode = "up" /\ Verdict(b) = "ok"
        /\ IF Processed(b)
             THEN pc' = "locked" /\ UNCHANGED <<todo, ops>>
             ELSE Next1(<<>>)
        /\ UNCHANGED <<mode, hops, unknown>>
  /\ UNCHANGED <<db, mem, update, finished, history>>

\* reorg, with the block itself last among the new chain.
NewChain(b) == LET S == Ancestry[b] \ Ancestry[mem.block] IN
  [i \in 1 .. Cardinality(S) |->
     Op("canonical", CHOOSE a \in S : Cardinality(Ancestry[a] \cap S) = i)]

\* The order of the writes of a block: its batch, then what makes it the head.
BlockWrites(b) == <<Op("batch", b), Op("canonical", b)>>

\* Whether b becomes the head: at the height of the head a coin is thrown.
Reorgs(b) ==
  {reorg \in BOOLEAN : IF reorg THEN Number[b] >= Number[mem.block] ELSE Number[b] <= Number[mem.block]}

WriteBlockWithState ==
  LET b == Head(todo) IN
  /\ mode \in {"up", "stopping"} /\ pc = "locked" /\ hops = <<>>
  /\ mem' = [mem EXCEPT !.tries = @ \cup {b}, !.privTries = @ \cup {PrivateRoot[b]}]
  /\ \E reorg \in Reorgs(b) :
       IF reorg /\ ~(Ancestry[b] \ {b} \subseteq db.blocks) /\ Parent[b] # mem.block THEN Next1(<<>>)
       ELSE /\ pc' = "write" /\ UNCHANGED todo
            /\ ops' = IF ~reorg THEN <<Op("batch", b)>>
                      ELSE IF Parent[b] = mem.block THEN BlockWrites(b) ELSE NewChain(b) \o BlockWrites(b)
  /\ UNCHANGED <<db, mode, hops, unknown, update, finished, history>>
Recorded(d, m) ==
  /\ db' = d /\ mem' = m
  /\ IF Tail(ops) = <<>> THEN Next1(Tail(todo)) ELSE ops' = Tail(ops) /\ UNCHANGED <<pc, todo>>
  /\ UNCHANGED <<mode, hops, unknown, update, finished, history>>

\* WriteCanonicalHash, and whether the other heads are to follow.
HeadWrites(b) ==
  IF db.canon[Number[b]] # b THEN <<Op("head", b), Op("header", b), Op("fast", b)>> ELSE <<Op("head", b)>>

insert ==
  LET op == Head(ops) IN
  /\ mode \in {"up", "stopping"} /\ pc = "write"
  /\ \/ op.w = "batch" /\ Recorded([db EXCEPT !.blocks = @ \cup {op.b}], mem)
     \/ /\ op.w = "canonical"
        /\ db' = [db EXCEPT !.canon[Number[op.b]] = op.b]
        /\ ops' = HeadWrites(op.b) \o Tail(ops)
        /\ UNCHANGED <<mem, mode, pc, todo, hops, unknown, update, finished, history>>
     \/ op.w = "head" /\ Recorded([db EXCEPT !.headBlock = op.b], [mem EXCEPT !.block = op.b])
     \/ op.w = "header" /\ Recorded([db EXCEPT !.headHeader = op.b], [mem EXCEPT !.header = op.b])
     \/ op.w = "fast" /\ Recorded([db EXCEPT !.headFast = op.b], [mem EXCEPT !.fast = op.b])

\* Public state first, then private state, of the head and then of older blocks.
CommitStateDB ==
  LET op == Head(ops)
      recent == GetBlockByNumber(Number[mem.block] - op.b) IN
  /\ mode \in {"up", "stopping"} /\ pc = "write"
  /\ \/ /\ op.w = "public" /\ Number[mem.block] > op.b /\ recent # None
        /\ db' = [db EXCEPT !.states = @ \cup ({recent} \cap mem.tries)]
        /\ ops' = <<Op("private", recent)>> \o Tail(ops)
        /\ UNCHANGED <<mem, mode, pc, hops, update, finished>>
     \/ /\ op.w = "public" /\ Number[mem.block] > op.b /\ recent = None
        /\ Die
        /\ UNCHANGED <<db, mem, update, finished>>
     \/ /\ op.w = "public" /\ Number[mem.block] <= op.b
        /\ ops' = Tail(ops)
        /\ UNCHANGED <<db, mem, mode, pc, hops, update, finished>>
     \/ /\ op.w = "private"
        /\ db' = [db EXCEPT !.privs = @ \cup ({PrivateRoot[op.b]} \cap mem.privTries)]
        /\ ops' = Tail(ops)
        /\ UNCHANGED <<mem, mode, pc, hops, update, finished>>
     \/ /\ op.w = "dereference"
        /\ mem' = [mem EXCEPT !.tries = {}]
        /\ pc' = "idle" /\ ops' = <<>> /\ finished' = mem.block
        /\ update' = IF update = "inserting" THEN "stuck" ELSE update
        /\ UNCHANGED <<db, mode, hops>>
  /\ todo' = <<>>
  /\ UNCHANGED <<unknown, history>>

-----------------------------------------------------------------------------
(* Start, stop, crash and SetHead                                          *)

\* repair rolls back to the last block with both states, but only when the
\* public state of the head is missing.
Sound(a, states, privs) == a \in states /\ PrivateRoot[a] \in privs
\* Faulty variant: the head is rolled back even when its states are there.
RepairedAlways(b, states, privs) ==
  IF b = Genesis THEN b
  ELSE CHOOSE a \in Ancestry[Parent[b]] :
         /\ Sound(a, states, privs)
         /\ \A c \in Ancestry[Parent[b]] : Number[c] > Number[a] => ~Sound(c, states, privs)

Repaired(b, states, privs) ==
  IF b \in states THEN b
  ELSE CHOOSE a \in Ancestry[b] :
         /\ Sound(a, states, privs)
         /\ \A c \in Ancestry[b] : Number[c] > Number[a] => ~Sound(c, states, privs)

loadLastState(d, m) ==
  LET block == Repaired(d.headBlock, d.states \cup m.tries, d.privs \cup m.privTries)
      header == IF d.headHeader \in d.blocks THEN d.headHeader ELSE block IN
  /\ mem' = [m EXCEPT !.block = block, !.header = header,
                      !.fast = IF d.headFast \in d.blocks THEN d.headFast ELSE block]
  /\ db' = [d EXCEPT !.headHeader = header]

\* repair dereferences a missing parent, and panics.  Reset reads currentBlock before anything was stored in it, and panics after
\* hc.SetHead(0) has deleted the chain below the head.
Deleted(h, n) == {a \in Ancestry[h] : Number[a] > n}

Rewound(h, n) == [db EXCEPT
  !.blocks = @ \ Deleted(h, n),
  !.canon = [i \in Heights |-> IF i > n /\ i <= Number[h] THEN None ELSE @[i]]]
LostParent ==
  LET a == Repaired(db.headBlock, db.states, db.privs) IN
  db.headBlock \in db.blocks /\ ~(Deleted(db.headBlock, Number[a]) \cup {a} \subseteq db.blocks)
Resets == \/ db.headBlock \notin db.blocks
          \/ PrivateRoot[Repaired(db.headBlock, db.states, db.privs)] \notin db.privs

NewBlockChain ==
  /\ mode \in {"down", "broken"}
  /\ IF LostParent THEN mode' = "broken" /\ UNCHANGED <<db, mem, finished>>
     ELSE IF Resets
       THEN /\ db' = [Rewound(IF db.headBlock \in db.blocks THEN db.headBlock ELSE Genesis, 0)
                        EXCEPT !.headHeader = Genesis]
            /\ mode' = "broken"
            /\ UNCHANGED <<mem, finished>>
       ELSE /\ mode' = "up"
            /\ loadLastState(db, [mem EXCEPT !.tries = {}, !.privTries = {}])
            /\ finished' = mem'.block
  /\ unknown' = {} /\ update' = "ready"
  /\ UNCHANGED <<pc, todo, ops, hops, history>>

Crash ==
  /\ mode \in {"up", "stopping"} /\ crashes < MaxCrashes
  /\ crashes' = crashes + 1 /\ raced' = (raced \/ hops # <<>>)
  /\ Die
  /\ UNCHANGED <<db, mem, unknown, update, finished, setHeads>>

\* Stop interrupts the insertion, waits for it, and commits the states.
Stop ==
  /\ mode = "up" /\ hops = <<>> /\ crashes < MaxCrashes
  /\ mode' = "stopping" /\ crashes' = crashes + 1
  /\ UNCHANGED <<db, mem, pc, todo, ops, hops, unknown, update, finished, raced, setHeads>>

Stopped ==
  /\ mode = "stopping" /\ pc = "idle"
  /\ Die
  /\ UNCHANGED <<db, mem, unknown, update, finished, history>>

\* bc.mu is held by WriteBlockWithState until the last of its writes.
Locked == pc = "write" /\ Head(ops).w \in {"batch", "canonical", "head", "header", "fast"}

SetHead(n) ==
  /\ mode = "up" /\ hops = <<>> /\ ~Locked /\ setHeads < MaxSetHeads
  /\ setHeads' = setHeads + 1 /\ raced' = (raced \/ pc # "idle")
  /\ hops' = <<Op("rewind", n), Op("header", n), Op("head", n), Op("fast", n)>>
  /\ UNCHANGED <<db, mem, mode, pc, todo, ops, unknown, update, finished, crashes>>

StateOr(b) == IF HasState(b) /\ HasPrivateState(b) THEN b ELSE Genesis

\* Faulty variant: the block heads stay where they are.
NotLower(b) == b
Lower(b) == IF Number[mem.header] < Number[b] THEN mem.header ELSE b

SetHeadWrite ==
  LET op == Head(hops) IN
  /\ mode = "up" /\ hops # <<>>
  /\ \/ /\ op.w = "rewind"
        /\ db' = Rewound(mem.header, op.b)
        /\ mem' = [mem EXCEPT !.header =
                     CHOOSE a \in Ancestry[@] \ Deleted(@, op.b) :
                       \A c \in Ancestry[@] \ Deleted(@, op.b) : Number[c] <= Number[a]]
        /\ UNCHANGED finished
     \/ /\ op.w = "header"
        /\ db' = [db EXCEPT !.headHeader = mem.header]
        /\ UNCHANGED <<mem, finished>>
     \/ /\ op.w = "head"
        /\ mem' = [mem EXCEPT !.block = StateOr(Lower(@)), !.fast = Lower(@)]
        /\ db' = [db EXCEPT !.headBlock = mem'.block]
        /\ finished' = IF finished \in Ancestry[mem'.block] THEN finished ELSE mem'.block
     \/ op.w = "fast" /\ loadLastState([db EXCEPT !.headFast = mem.fast], mem) /\ UNCHANGED finished
  /\ hops' = Tail(hops)
  /\ UNCHANGED <<mode, pc, todo, ops, unknown, update, history>>

ChainNext ==
  \/ \E batch \in Batches : InsertChain(batch)
  \/ \E b \in Blocks : procUnknownAncestors(b)
  \/ Verify \/ WriteBlockWithState \/ insert \/ CommitStateDB
  \/ \E n \in Targets : SetHead(n)
  \/ SetHeadWrite
  \/ Crash \/ Stop \/ Stopped \/ NewBlockChain

ChainSpec == ChainInit /\ [][ChainNext]_chainVars

-----------------------------------------------------------------------------
(* Properties                                                              *)

\* The types of the database and of the heads kept in memory; the genesis block
\* keeps its place.
ChainTypeOK ==
  /\ Genesis \in db.blocks /\ db.canon[0] = Genesis
  /\ db.blocks \subseteq Blocks /\ db.states \subseteq Blocks /\ db.privs \subseteq Blocks
  /\ db.canon \in [Heights -> Blocks \cup {None}]
  /\ {db.headBlock, db.headHeader, db.headFast} \subseteq Blocks
  /\ {mem.block, mem.header, mem.fast, finished} \subseteq Blocks
  /\ mem.tries \cup mem.privTries \subseteq Blocks
  /\ mode \in {"up", "stopping", "down", "broken"}
  /\ pc \in {"idle", "verify", "locked", "write"}
  /\ todo \in Seq(Blocks) /\ unknown \subseteq Blocks
  /\ update \in {"ready", "inserting", "stuck"}

\* Whenever bc.mu is free the canonical numbering below the current block is
\* exactly its ancestry and every block of it is stored, whatever crashes,
\* repairs and SetHead did to the numbering above it, unless an insertion or a
\* crash overlapped a SetHead.
CanonicalIsAncestry ==
  mode = "up" /\ hops = <<>> /\ ~Locked /\ ~raced =>
    \A a \in Ancestry[mem.block] : db.canon[Number[a]] = a /\ a \in db.blocks

\* Whenever no insertion and no SetHead is running the state and the private
\* state of the current block can be opened, so that State() does not fail,
\* unless an insertion overlapped a SetHead: its CommitStateDB may then drop the
\* trie of the new head from memory.
HeadHasState ==
  mode = "up" /\ pc = "idle" /\ hops = <<>> /\ ~raced =>
    HasState(mem.block) /\ HasPrivateState(mem.block)

\* A start that comes up again never goes back behind the head at which the
\* last InsertChain returned: CommitStateDB has stored its states by then,
\* again unless it overlapped a SetHead.
RestartKeepsFinished ==
  [][mode = "down" /\ mode' = "up" /\ ~raced => finished \in Ancestry[mem'.block]]_chainVars

\* A start after a stop or a crash comes up again.  loadLastState (blockchain.go
\* 334 and 341) says of a missing head "Corrupt or empty database, init from
\* scratch", and Reset that it restores the chain "to its genesis state".
RestartComesUp == mode # "broken"

\* Without SetHead a height never changes from one block to another: the second
\* ends the program (log.Fatal) before anything of it is written, whatever
\* crashes, repairs and retries of blocks with unknown ancestors came before.
HeightsKeepTheirBlock ==
  [][setHeads = 0 =>
       \A n \in Heights : db.canon[n] \in {None, db'.canon[n]} \/ mode' = "broken"]_chainVars
=============================================================================
