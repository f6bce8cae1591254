------------------------------- MODULE StateDB -------------------------------
(* The state of one block in the making (core/state/statedb.go): objects read
   from the trie and changed in memory, the journal that undoes changes
   (core/state/journal.go), and the end of a transaction and of the block, which
   write the objects the journal counts as dirty back to the trie.

   An account has a nonce, a balance, a code and one storage slot.  The slot of
   an object is in three places, as in the code: the storage trie (root), the
   cache of reads and writes (cached) and the writes to flush (dirty). *)
EXTENDS Integers, Sequences, FiniteSets, SequencesExt

CONSTANTS
    Addr, Absent, Unset,
    Values,         \* values of a nonce, a balance, a code, a slot
    MaxEntries,     \* bound on the journal
    MaxRevisions,   \* bound on nextRevisionId
    MaxTally,       \* bound on the logs and preimages of the block
    Fields,         \* of nonce and code, which SetNonce and SetCode treat alike
    Tallies         \* of refund, logs and preimages

VARIABLES
    sdb,    \* the StateDB
    seen,   \* history: what its getters answer
    taken   \* history: of each valid revision, its id and what was seen then

stateVars == <<sdb, seen, taken>>

Data == [nonce : Values, balance : Values, code : Values, root : Values]
newObject(d) ==
    [nonce |-> d.nonce, balance |-> d.balance, code |-> d.code, root |-> d.root,
     cached |-> Unset, dirty |-> Unset, suicided |-> FALSE, deleted |-> FALSE]
EmptyData == [nonce |-> 0, balance |-> 0, code |-> 0, root |-> 0]
DataOf(o) == [nonce |-> o.nonce, balance |-> o.balance, code |-> o.code, root |-> o.root]
empty(o) == o.nonce = 0 /\ o.balance = 0 /\ o.code = 0

\* getStateObject: from memory, else from the trie (and then kept in memory).
Loaded(s, a) ==
    IF s.objs[a] = Absent /\ s.trie[a] # Absent
    THEN [s EXCEPT !.objs[a] = newObject(s.trie[a])] ELSE s
getStateObject(s, a) ==
    LET o == Loaded(s, a).objs[a]
    IN  IF o = Absent THEN Absent ELSE IF o.deleted THEN Absent ELSE o
GetState(o) == IF o.cached # Unset THEN o.cached ELSE o.root

\* journal.append; entries of kinds that dirty no account have addr = Absent.
append(s, entry) ==
    [s EXCEPT !.entries = Append(@, entry),
              !.dirties = IF entry.addr = Absent THEN @ ELSE [@ EXCEPT ![entry.addr] = @ + 1]]
Entry(kind, a, prev) == [kind |-> kind, addr |-> a, prev |-> prev]

createObject(s, a) ==
    LET t == Loaded(s, a)
        prev == getStateObject(s, a)
        j == IF prev = Absent THEN append(t, Entry("create", a, Absent))
             ELSE append(t, [kind |-> "reset", addr |-> Absent, prev |-> prev, of |-> a])
    IN  [j EXCEPT !.objs[a] = newObject(EmptyData)]

GetOrNewStateObject(s, a) ==
    IF getStateObject(s, a) = Absent THEN createObject(s, a) ELSE Loaded(s, a)

\* SetBalance, SetNonce and SetCode of an object: journal the old, set the new.
SetField(s, a, field, v) ==
    LET t == GetOrNewStateObject(s, a)
    IN  [append(t, Entry(field, a, t.objs[a][field])) EXCEPT !.objs[a][field] = v]

AddBalance(s, a, amount) ==
    LET t == GetOrNewStateObject(s, a)
    IN  IF amount # 0 THEN SetField(t, a, "balance", t.objs[a].balance + amount)
        ELSE IF empty(t.objs[a]) THEN append(t, Entry("touch", a, Absent)) ELSE t

SubBalance(s, a, amount) ==
    LET t == GetOrNewStateObject(s, a)
    IN  IF amount = 0 THEN t ELSE SetField(t, a, "balance", t.objs[a].balance - amount)

setState(o, v) == [o EXCEPT !.cached = v, !.dirty = v]
SetState(s, a, v) ==
    LET t == GetOrNewStateObject(s, a)
        j == append(t, Entry("storage", a, GetState(t.objs[a])))
    IN  [j EXCEPT !.objs[a] = setState(@, v)]

Suicide(s, a) ==
    LET t == Loaded(s, a)
        o == t.objs[a]
        j == append(t, Entry("suicide", a, [suicided |-> o.suicided, balance |-> o.balance]))
    IN  IF getStateObject(s, a) = Absent THEN t
        ELSE [j EXCEPT !.objs[a].suicided = TRUE, !.objs[a].balance = 0]

CreateAccount(s, a) ==
    LET prev == getStateObject(s, a)
        t == createObject(s, a)
    IN  IF prev = Absent THEN t ELSE [t EXCEPT !.objs[a].balance = prev.balance]
-----------------------------------------------------------------------------
\* Faulty variant: gas refunded by what is undone is still paid.
UndoRefundNever(s, e) == s
UndoRefund(s, e) == [s EXCEPT !.refund = e.prev]

UndoSuicide(o, prev) == [o EXCEPT !.suicided = prev.suicided, !.balance = prev.balance]

\* The revert method of each kind of journal entry.
Undo(s, e) ==
    CASE e.kind = "create" -> [s EXCEPT !.objs[e.addr] = Absent, !.dirtyObjs = @ \ {e.addr}]
      [] e.kind = "reset" -> [s EXCEPT !.objs[e.of] = e.prev]
      [] e.kind = "suicide" -> [s EXCEPT !.objs[e.addr] = UndoSuicide(@, e.prev)]
      [] e.kind \in {"nonce", "balance", "code"} -> [s EXCEPT !.objs[e.addr][e.kind] = e.prev]
      [] e.kind = "storage" -> [s EXCEPT !.objs[e.addr] = setState(@, e.prev)]
      [] e.kind = "refund" -> UndoRefund(s, e)
      [] e.kind = "logs" -> [s EXCEPT !.logs = @ - 1]
      [] e.kind = "preimages" -> [s EXCEPT !.preimages = @ - 1]
      [] e.kind = "touch" -> s

Uncount(dirties, e) == IF e.addr = Absent THEN dirties ELSE [dirties EXCEPT ![e.addr] = @ - 1]

\* journal.revert: the entries from the end down to the snapshot.
revert(s, snapshot) ==
    LET step(t, e) == [Undo(t, e) EXCEPT !.dirties = Uncount(@, e)]
    IN  [FoldLeft(step, s, Reverse(SubSeq(s.entries, snapshot + 1, Len(s.entries))))
           EXCEPT !.entries = SubSeq(s.entries, 1, snapshot)]

Reverted(s, i) ==
    [revert(s, s.revs[i].index) EXCEPT !.revs = SubSeq(@, 1, i - 1)]

clearJournalAndRefund(s) ==
    [s EXCEPT !.entries = <<>>, !.dirties = [a \in Addr |-> 0], !.revs = <<>>, !.refund = 0]

\* updateRoot and CommitTrie: the slot's pending write goes to the storage trie.
Flushed(o) == [o EXCEPT !.root = IF o.dirty = Unset THEN @ ELSE o.dirty, !.dirty = Unset]

\* An object is written to the trie, or deleted from it.
Written(s, a) ==
    LET o == Flushed(s.objs[a]) IN [s EXCEPT !.objs[a] = o, !.trie[a] = DataOf(o)]
deleteStateObject(s, a) == [s EXCEPT !.objs[a].deleted = TRUE, !.trie[a] = Absent]

Dirty(s) == {a \in Addr : s.dirties[a] > 0 /\ s.objs[a] # Absent}

\* Finalise(true): the end of a transaction (and IntermediateRoot).
Finalise(s) ==
    LET step(t, a) ==
            IF t.objs[a].suicided \/ empty(t.objs[a]) THEN deleteStateObject(t, a) ELSE Written(t, a)
    IN  clearJournalAndRefund([FoldLeft(step, s, SetToSeq(Dirty(s))) EXCEPT !.dirtyObjs = @ \cup Dirty(s)])

\* Commit(true): all objects in memory.
Commit(s) ==
    LET dirty == s.dirtyObjs \cup {a \in Addr : s.dirties[a] > 0}
        step(t, a) ==
            IF t.objs[a].suicided \/ (a \in dirty /\ empty(t.objs[a])) THEN deleteStateObject(t, a)
            ELSE IF a \in dirty THEN Written(t, a) ELSE t
        inMemory == {a \in Addr : s.objs[a] # Absent}
    IN  clearJournalAndRefund([FoldLeft(step, s, SetToSeq(inMemory)) EXCEPT !.dirtyObjs = dirty \ inMemory])

CopiedObjects(s) == {a \in Addr : (s.dirties[a] > 0 \/ a \in s.dirtyObjs) /\ s.objs[a] # Absent}

\* Copy: the trie and the dirty objects; the others are read again when needed.
\* The miner, the pool and the tracer copy between transactions.
Copy(s) ==
    [s EXCEPT !.objs = [a \in Addr |-> IF a \in CopiedObjects(s)
                                       THEN [s.objs[a] EXCEPT !.cached = s.objs[a].dirty] ELSE Absent],
              !.dirtyObjs = CopiedObjects(s),
              !.entries = <<>>, !.dirties = [a \in Addr |-> 0], !.revs = <<>>, !.nextId = 0]
-----------------------------------------------------------------------------
\* What the getters answer.
Seen(s) ==
    [accounts |-> [a \in Addr |->
        LET o == getStateObject(s, a)
        IN  IF o = Absent THEN Absent
            ELSE [nonce |-> o.nonce, balance |-> o.balance, code |-> o.code,
                  store |-> GetState(o), suicided |-> o.suicided]],
     refund |-> s.refund, logs |-> s.logs, preimages |-> s.preimages]

\* New: on any trie; genesis accounts may have any data.
StateInit ==
    \E t \in [Addr -> {Absent, EmptyData, [nonce |-> 0, balance |-> 1, code |-> 0, root |-> 0],
                       [nonce |-> 1, balance |-> 0, code |-> 1, root |-> 1]}] :
      /\ sdb = [objs |-> [a \in Addr |-> Absent], trie |-> t, entries |-> <<>>,
             dirties |-> [a \in Addr |-> 0], dirtyObjs |-> {}, revs |-> <<>>, nextId |-> 0,
             refund |-> 0, logs |-> 0, preimages |-> 0]
      /\ seen = Seen(sdb) /\ taken = <<>>

\* A step of the StateDB that leaves the revisions alone.
Step(s) == sdb' = s /\ seen' = Seen(sdb') /\ UNCHANGED taken
\* One that ends them.
EndStep(s) == sdb' = s /\ seen' = Seen(sdb') /\ taken' = <<>>

Room == Len(sdb.entries) + 2 <= MaxEntries

ChangeBalance(a) ==
    LET has == IF getStateObject(sdb, a) = Absent THEN 0 ELSE getStateObject(sdb, a).balance
    IN  \E amount \in Values :
          \/ has + amount \in Values /\ Step(AddBalance(sdb, a, amount))
          \/ has - amount \in Values /\ Step(SubBalance(sdb, a, amount))

ChangeField(a) ==
    \E v \in Values : \/ \E field \in Fields : Step(SetField(sdb, a, field, v))
                      \/ Step(SetState(sdb, a, v))

\* A read keeps what it found.
Read(a) ==
    /\ getStateObject(sdb, a) # Absent
    /\ LET t == Loaded(sdb, a) IN Step([t EXCEPT !.objs[a].cached = GetState(t.objs[a])])

\* evm.call creates an account that does not exist, evm.Create also one without
\* nonce and code, and then sets its nonce.
CreateContract(a) ==
    LET o == getStateObject(sdb, a)
    IN  \/ o = Absent /\ Step(CreateAccount(sdb, a))
        \/ /\ o # Absent => o.nonce = 0 /\ o.code = 0
           /\ Step(SetField(CreateAccount(sdb, a), a, "nonce", 1))

\* AddRefund, AddLog, AddPreimage.
AddTo(tally) ==
    /\ sdb[tally] < MaxTally
    /\ Step([append(sdb, Entry(tally, Absent, sdb[tally])) EXCEPT ![tally] = @ + 1])

Snapshot ==
    /\ sdb.nextId < MaxRevisions
    /\ sdb' = [sdb EXCEPT !.nextId = @ + 1,
                          !.revs = Append(@, [id |-> sdb.nextId, index |-> Len(sdb.entries)])]
    /\ taken' = Append(taken, [id |-> sdb.nextId, view |-> seen])
    /\ UNCHANGED seen

RevertToSnapshot(i) ==
    /\ sdb' = Reverted(sdb, i)
    /\ seen' = Seen(sdb')
    /\ taken' = [k \in DOMAIN sdb'.revs |-> taken[k]]

StateNext ==
    \/ /\ Room
       /\ \/ \E a \in Addr : \/ ChangeBalance(a) \/ ChangeField(a) \/ CreateContract(a)
                             \/ Step(Suicide(sdb, a))
          \/ \E t \in Tallies : AddTo(t)
    \/ \E a \in Addr : Read(a)
    \/ Snapshot
    \/ \E i \in DOMAIN sdb.revs : RevertToSnapshot(i)
    \/ EndStep(Finalise(sdb))
    \/ EndStep(Commit(sdb))
    \/ sdb.entries = <<>> /\ EndStep(Copy(sdb))

StateSpec == StateInit /\ [][StateNext]_stateVars
-----------------------------------------------------------------------------
InTrie(s, a) ==
    IF s.trie[a] = Absent THEN Absent
    ELSE [nonce |-> s.trie[a].nonce, balance |-> s.trie[a].balance, code |-> s.trie[a].code,
          store |-> s.trie[a].root, suicided |-> FALSE]

\* The types of the state, its dirty counts and its trie.
StateTypeOK ==
    \A a \in Addr :
      /\ sdb.dirties[a] \in 0 .. MaxEntries
      /\ sdb.trie[a] \in Data \cup {Absent}
      /\ sdb.objs[a] = Absent \/ DataOf(sdb.objs[a]) \in Data

\* An account the journal counts no change of is in the trie as it is seen:
\* Finalise and Commit, which write the counted ones, lose nothing.
UncountedIsWritten ==
    \A a \in Addr : sdb.dirties[a] = 0 /\ a \notin sdb.dirtyObjs
                    => seen.accounts[a] = InTrie(sdb, a)

\* A copy answers every question as the original does.
CopySeesTheSame == Seen(Copy(sdb)) = seen

\* The journal implements the nested snapshots the virtual machine relies on.
Promise == INSTANCE SnapshotState WITH Ids <- 0 .. MaxRevisions, view <- seen, saved <- taken
\* StateDB refines SnapshotState; the view is what the getters answer.
ImplementsSnapshots == Promise!SnapshotSpec
=============================================================================
