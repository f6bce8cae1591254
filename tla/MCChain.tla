------------------------------- MODULE MCChain -------------------------------
(* Instances of the modules of the chain and of what a block does: the block  *)
(* database, the transaction pool, the state, message calls and the           *)
(* interpreter, transactions and blocks as data, and the commands that write, *)
(* copy and read a chain.  The parts share no state; a behaviour is one of    *)
(* the part it starts with.                                                   *)
EXTENDS BlockChain, TxPool, StateDB, EVM, ChainTypes, ChainFiles

CONSTANTS Parts, g, a1, a2, a3, b2
VARIABLE part

\* BlockChain: a chain of three blocks with a competitor at the second height.
MCParent == (a1 :> g) @@ (a2 :> a1) @@ (a3 :> a2) @@ (b2 :> a1)
MCNumber == (g :> 0) @@ (a1 :> 1) @@ (a2 :> 2) @@ (a3 :> 3) @@ (b2 :> 2)
MCBatches == {<<a1>>, <<a2>>, <<a3>>, <<b2>>, <<a1, a2>>, <<a1, a2, a3>>, <<a2, a3>>, <<a1, a3>>}
MCOffsets == <<0, 1>>
MCNoFlaw == [b \in Blocks |-> "none"]
MCFlaw == [MCNoFlaw EXCEPT ![a3] = "body"]

\* TxPool: two accounts, and two blocks that compete.
MCOwners == {"a", "b"}
MCTie == <<"a", "b">>
Tx(f, n, p, c) == [from |-> f, nonce |-> n, price |-> p, cost |-> c]
MCTxs == {Tx("a", 0, 2, 1), Tx("a", 0, 5, 1), Tx("a", 1, 3, 2), Tx("a", 2, 7, 1), Tx("b", 0, 4, 1)}
MCHeads == {"g", "x", "y"}
MCHeadParent == [h \in MCHeads |-> "g"]
MCMined == [g |-> {}, x |-> {Tx("a", 0, 2, 1)}, y |-> {Tx("b", 0, 4, 1)}]
MCBalance == [h \in MCHeads |-> [k \in MCOwners |-> IF h = "y" THEN 1 ELSE 2]]
MCPrices == {1, 3}

\* EVM: a sender, a contract and an account without code.
MCWorld == [bal |-> [a \in Accounts |-> CASE a = "s" -> 11 [] a = "c" -> 1 [] OTHER -> 0],
            nonce |-> [a \in Accounts |-> IF a = "c" THEN 1 ELSE 0],
            code |-> {"c"}, slot |-> [a \in Accounts |-> 0], refund |-> 0, gone |-> {}]
MCMessage(nonce, to, limit, private) ==
    [from |-> "s", nonce |-> nonce, to |-> to, value |-> 1, gas |-> limit, private |-> private]
MCTransactions == {MCMessage(0, "c", 6, FALSE), MCMessage(0, NoTarget, 4, TRUE), MCMessage(1, NoTarget, 4, TRUE),
                   MCMessage(1, "c", 1, FALSE)}

\* ChainTypes.
MCOffers == {[price |-> 1, cost |-> 1, gas |-> 1], [price |-> 2, cost |-> 1, gas |-> 2], [price |-> 2, cost |-> 2, gas |-> 1]}
MCNonces == 0 .. 3
MCLimits == 0 .. 2

\* ChainFiles: five genesis specifications.
MCBlockOf == [own |-> "b1", again |-> "b1", main |-> "m", bare |-> "b2", high |-> "b3"]
MCConfigOf == [own |-> "c1", again |-> "c2", main |-> "c0", bare |-> "none", high |-> "c1"]
MCNumberOf == [own |-> 0, again |-> 0, main |-> 0, bare |-> 0, high |-> 1]
MCKeys == 0 .. 3

vars == <<part, chainVars, poolVars, stateVars, execVars, interpVars, listVars, orderVars, signVars,
          cacherVars, blockVars, genesisVars, copyVars, readVars>>

\* The parts that are not looked at start in one state.
Still ==
    /\ part # "state" => \A a \in Addr : sdb.trie[a] = Absent
    /\ part # "interpreter" => readOnly

Init ==
    /\ part \in Parts
    /\ ChainInit /\ PoolInit /\ StateInit /\ ExecInit /\ InterpInit /\ ListInit
    /\ OrderInit /\ SignInit /\ CacherInit /\ BlockInit /\ GenesisInit /\ CopyInit /\ ReadInit
    /\ Still

Next ==
    \/ part = "chain" /\ ChainNext
       /\ UNCHANGED <<part, poolVars, stateVars, execVars, interpVars, listVars, orderVars, signVars,
                      cacherVars, blockVars, genesisVars, copyVars, readVars>>
    \/ part = "pool" /\ PoolNext
       /\ UNCHANGED <<part, chainVars, stateVars, execVars, interpVars, listVars, orderVars, signVars,
                      cacherVars, blockVars, genesisVars, copyVars, readVars>>
    \/ part = "state" /\ StateNext
       /\ UNCHANGED <<part, chainVars, poolVars, execVars, interpVars, listVars, orderVars, signVars,
                      cacherVars, blockVars, genesisVars, copyVars, readVars>>
    \/ part = "execution" /\ ExecNext
       /\ UNCHANGED <<part, chainVars, poolVars, stateVars, interpVars, listVars, orderVars, signVars,
                      cacherVars, blockVars, genesisVars, copyVars, readVars>>
    \/ part = "interpreter" /\ InterpNext
       /\ UNCHANGED <<part, chainVars, poolVars, stateVars, execVars, listVars, orderVars, signVars,
                      cacherVars, blockVars, genesisVars, copyVars, readVars>>
    \/ part = "list" /\ ListNext
       /\ UNCHANGED <<part, chainVars, poolVars, stateVars, execVars, interpVars, orderVars, signVars,
                      cacherVars, blockVars, genesisVars, copyVars, readVars>>
    \/ part = "order" /\ OrderNext
       /\ UNCHANGED <<part, chainVars, poolVars, stateVars, execVars, interpVars, listVars, signVars,
                      cacherVars, blockVars, genesisVars, copyVars, readVars>>
    \/ part = "sign" /\ SignNext
       /\ UNCHANGED <<part, chainVars, poolVars, stateVars, execVars, interpVars, listVars, orderVars,
                      cacherVars, blockVars, genesisVars, copyVars, readVars>>
    \/ part = "cacher" /\ CacherNext
       /\ UNCHANGED <<part, chainVars, poolVars, stateVars, execVars, interpVars, listVars, orderVars,
                      signVars, blockVars, genesisVars, copyVars, readVars>>
    \/ part = "block" /\ BlockNext
       /\ UNCHANGED <<part, chainVars, poolVars, stateVars, execVars, interpVars, listVars, orderVars,
                      signVars, cacherVars, genesisVars, copyVars, readVars>>
    \/ part = "genesis" /\ GenesisNext
       /\ UNCHANGED <<part, chainVars, poolVars, stateVars, execVars, interpVars, listVars, orderVars,
                      signVars, cacherVars, blockVars, copyVars, readVars>>
    \/ part = "copy" /\ CopyNext
       /\ UNCHANGED <<part, chainVars, poolVars, stateVars, execVars, interpVars, listVars, orderVars,
                      signVars, cacherVars, blockVars, genesisVars, readVars>>
    \/ part = "reads" /\ ReadNext
       /\ UNCHANGED <<part, chainVars, poolVars, stateVars, execVars, interpVars, listVars, orderVars,
                      signVars, cacherVars, blockVars, genesisVars, copyVars>>

Spec == Init /\ [][Next]_vars

\* What each part keeps besides the invariants that have a name of their own here: the types, and what
\* the component's module says of the canonical chain, the pool, the state, calls, the interpreter,
\* the lists and headers, and the files.
ChainInv ==
    /\ part = "chain" => ChainTypeOK /\ CanonicalIsAncestry
    /\ part = "pool" => PoolTypeOK /\ PoolAccounted /\ RemoteBound /\ RestartKeepsLocals
    /\ part = "state" => StateTypeOK /\ UncountedIsWritten /\ CopySeesTheSame
    /\ part = "execution" => ExecTypeOK /\ MoneyNotMade /\ StaticIsPure /\ FailureLeavesNothing
    /\ part = "interpreter" => InterpTypeOK /\ ChecksCoverAccesses /\ PoolNotShared /\ MemoryPaidBySize
    /\ part = "list" => TypesTypeOK /\ IndexIsHeapOfItems /\ CacheIsSortedItems /\ CapsCoverItems
    /\ part = "order" => TypesTypeOK /\ BestNextFirst /\ NothingLeftBehind
    /\ part = "sign" => TypesTypeOK /\ OnlyItsChain /\ CachesFresh
    /\ part = "cacher" => TypesTypeOK /\ RecoveredOnce
    /\ part = "block" => TypesTypeOK /\ PhasesApart /\ HashStays /\ TimesKept
    /\ part = "genesis" => FilesTypeOK /\ CanonicalIsComplete /\ GenesisAsAsked
    /\ part = "copy" => FilesTypeOK /\ ExportExact /\ ImportedAll /\ CliReachesTip
    /\ part = "reads" => FilesTypeOK /\ PagesExact /\ IntervalsCompose /\ PreimagesImported
==============================================================================
