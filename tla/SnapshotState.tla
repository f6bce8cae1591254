---------------------------- MODULE SnapshotState ----------------------------
(* What the virtual machine is promised of the state it runs on
   (core/vm/interface.go, StateDB): accounts that change one at a time, and
   snapshots that nest: going back to one restores exactly what was visible
   when it was taken, and ends the snapshots taken since. *)
EXTENDS Integers, Sequences

CONSTANTS Addr, Absent, Values, Ids

VARIABLES
    view,   \* of each address: the account, or Absent; and the tallies
    saved   \* the snapshots that can be gone back to: [id, view]

NoAccount == [nonce |-> 0, balance |-> 0, code |-> 0, store |-> 0, suicided |-> FALSE]
Account(a) == IF view.accounts[a] = Absent THEN NoAccount ELSE view.accounts[a]
Put(a, acc) == view' = [view EXCEPT !.accounts[a] = acc]

\* One field of an account gets a value; the account exists from then on.
Change(a) ==
    /\ \E v \in Values : \/ Put(a, [Account(a) EXCEPT !.nonce = v])
                         \/ Put(a, [Account(a) EXCEPT !.balance = v])
                         \/ Put(a, [Account(a) EXCEPT !.code = v])
                         \/ Put(a, [Account(a) EXCEPT !.store = v])
    /\ UNCHANGED saved

\* A contract is created: only the balance the address had is kept.
Create(a) ==
    /\ \E n \in {0, 1} : Put(a, [NoAccount EXCEPT !.balance = Account(a).balance, !.nonce = n])
    /\ UNCHANGED saved

Destroy(a) ==
    /\ view.accounts[a] # Absent
    /\ Put(a, [Account(a) EXCEPT !.suicided = TRUE, !.balance = 0])
    /\ UNCHANGED saved

\* Refunds, logs and preimages of the transaction.
Tally ==
    /\ \E t \in {"refund", "logs", "preimages"} : view' = [view EXCEPT ![t] = @ + 1]
    /\ UNCHANGED saved

TakeSnapshot(id) ==
    /\ \A i \in DOMAIN saved : saved[i].id < id
    /\ saved' = Append(saved, [id |-> id, view |-> view])
    /\ UNCHANGED view

GoBack(i) ==
    /\ view' = saved[i].view
    /\ saved' = SubSeq(saved, 1, i - 1)

\* The end of a transaction: accounts that were destroyed or left empty go, the
\* refund counter is cleared and no snapshot outlives the transaction.
EndOfTransaction ==
    /\ \E gone \in SUBSET {a \in Addr : /\ view.accounts[a] # Absent
                                        /\ \/ view.accounts[a].suicided
                                           \/ [view.accounts[a] EXCEPT !.store = 0] = NoAccount} :
         /\ \A a \in Addr \ gone : view.accounts[a] = Absent \/ ~view.accounts[a].suicided
         /\ view' = [view EXCEPT !.accounts = [a \in Addr |-> IF a \in gone THEN Absent ELSE @[a]],
                                 !.refund = 0]
    /\ saved' = <<>>

\* Work goes on with a copy, which sees the same and has no snapshots.
Fork ==
    /\ saved' = <<>>
    /\ UNCHANGED view

SnapshotNext ==
    \/ \E a \in Addr : Change(a) \/ Create(a) \/ Destroy(a)
    \/ Tally
    \/ \E id \in Ids : TakeSnapshot(id)
    \/ \E i \in DOMAIN saved : GoBack(i)
    \/ EndOfTransaction
    \/ Fork

SnapshotSpec == saved = <<>> /\ [][SnapshotNext]_<<view, saved>>
=============================================================================
