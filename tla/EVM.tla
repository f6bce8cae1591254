--------------------------------- MODULE EVM ---------------------------------
(* Executing the transactions of a block: core/state_processor.go,            *)
(* core/state_transition.go and the call frames of core/vm.  A frame's code is *)
(* any sequence of the instructions that touch the world or the gas; the rest *)
(* is one instruction that burns gas.  The world is saved and restored as a   *)
(* whole, which module StateDB shows the journal does.                        *)
EXTENDS Integers, FiniteSets, SequencesExt, FiniteSetsExt, Sequences, TLC

CONSTANTS Accounts, Coinbase, Created,  \* Created: what crypto.CreateAddress gives
          Transactions,                 \* records [from, nonce, to, value, gas, private]; to = NoTarget creates
          NoTarget, Participant,        \* the node can decrypt private payloads
          FirstWorld, BlockGas,
          Width,                        \* gas is counted modulo Width (2^64)
          Fraction,                     \* 64: a call leaves 1/Fraction of the gas behind
          Calls, CallValueTransferGas, CallNewAccountGas, CallStipend, CreateGas, CreateDataGas,
          TxGas, SstoreSetGas, SstoreResetGas, SstoreRefundGas, SuicideGas, SuicideRefundGas,
          CallCreateDepth, MaxCodeSize

VARIABLES vm,     \* world, frames (innermost last), readOnly and the result of the outer call
          tx,     \* the transaction being applied, or NoTarget
          before, \* the world before it
          left,   \* the transactions of the block still to apply
          pool, usedGas,
          status  \* "ok", or "bad" once the block is refused
execVars == <<vm, tx, before, left, pool, usedGas, status>>

NoResult == [err |-> "none", gas |-> 0]
World == vm.world
Top == Last(vm.frames)
Empty(w, a) == w.bal[a] = 0 /\ w.nonce[a] = 0 /\ a \notin w.code

Transfer(w, from, to, v) == [w EXCEPT !.bal = [[@ EXCEPT ![from] = @ - v] EXCEPT ![to] = @ + v]]

\* A call returns: what is left of its gas goes to the caller.
Back(m, gas, err) ==
    IF m.frames = <<>> THEN [m EXCEPT !.result = [err |-> err, gas |-> gas]]
    ELSE [m EXCEPT !.frames[Len(m.frames)].gas = @ + gas]

Enter(m, kind, self, code, gas, w) ==
    [m EXCEPT !.world = w,
              !.readOnly = @ \/ kind = "static",
              !.frames = Append(@, [kind |-> kind, self |-> self, code |-> code, gas |-> gas,
                                    snapshot |-> m.world, clears |-> kind = "static" /\ ~m.readOnly])]

TooDeep(m) == Len(m.frames) > CallCreateDepth

\* EVM.call, callCode, delegateCall and StaticCall.
Call(m, kind, caller, to, gas, v) ==
    IF TooDeep(m) \/ (kind \in {"call", "callcode"} /\ m.world.bal[caller] < v)
    THEN Back(m, gas, IF TooDeep(m) THEN "depth" ELSE "balance")
    ELSE IF kind = "call" /\ Empty(m.world, to) /\ v = 0 THEN Back(m, gas, "ok")
    ELSE Enter(m, kind, IF kind \in {"call", "static"} THEN to ELSE caller, to, gas,
               IF kind = "call" THEN Transfer(m.world, caller, to, v) ELSE m.world)

\* EVM.Create: the caller's nonce is used up even when the address is taken.
Create(m, caller, gas, v) ==
    LET n == [m EXCEPT !.world.nonce[caller] = @ + 1]
        taken == n.world.nonce[Created] # 0 \/ Created \in n.world.code
    IN  IF TooDeep(m) \/ m.world.bal[caller] < v
        THEN Back(m, gas, IF TooDeep(m) THEN "depth" ELSE "balance")
        ELSE IF taken THEN Back(n, 0, "collision")
        ELSE Enter(n, "create", Created, Created, gas,
                   [Transfer(n.world, caller, Created, v) EXCEPT !.nonce[Created] = 1])

Undone(f, w, err) == IF err = "ok" THEN w ELSE f.snapshot

StillReadOnly(f, readOnly) == readOnly /\ ~f.clears

\* The end of a frame: an error undoes it and, except for REVERT, takes its gas.
Finish(m, err) ==
    LET f == Last(m.frames)
        n == [m EXCEPT !.frames = Front(@), !.readOnly = StillReadOnly(f, @), !.world = Undone(f, @, err)]
    IN  Back(n, IF err \in {"ok", "reverted"} THEN f.gas ELSE 0, err)

\* The end of a creation that returned size bytes of code.
Deploy(m, size) ==
    LET f == Last(m.frames)
    IN  IF size > MaxCodeSize \/ f.gas < size * CreateDataGas THEN Finish(m, "code")
        ELSE Finish([m EXCEPT !.frames[Len(m.frames)].gas = @ - size * CreateDataGas,
                              !.world.code = @ \cup {f.self}], "ok")

UseGas(m, cost) == [m EXCEPT !.frames[Len(m.frames)].gas = @ - cost]

\* An instruction: write protection, then gas, then its effect, the machine done.
Execute(writes, cost, done) ==
    IF (writes /\ vm.readOnly) \/ cost >= Width \/ Top.gas < cost THEN Finish(vm, "failed") ELSE done

callGas(gas, base, requested) ==
    LET available == (gas - base + Width) % Width
        most == available - available \div Fraction
    IN  IF most < requested THEN most ELSE requested

\* Faulty variant: the gas handed to the callee is not charged to the caller.
ChargedBase(base, given) == base
ChargedMessage(base, given) == base + given
Stipend(v) == IF v # 0 THEN CallStipend ELSE 0

Writes(kind, v) == kind = "call" /\ v # 0

CallOp(kind, to, v, requested) ==
    LET w == World
        base == Calls + (IF v # 0 THEN CallValueTransferGas ELSE 0)
                      + (IF kind = "call" /\ v # 0 /\ Empty(w, to) THEN CallNewAccountGas ELSE 0)
        given == callGas(Top.gas, base, requested)
        cost == ChargedMessage(base, given)
    IN  Execute(Writes(kind, v), cost,
                Call(UseGas(vm, cost), kind, Top.self, to, given + Stipend(v), v))

CreateOp(v) ==
    LET rest == Top.gas - CreateGas
        given == rest - rest \div Fraction
    IN  Execute(TRUE, CreateGas, Create(UseGas(vm, CreateGas + given), Top.self, given, v))

Sstore(v) ==
    LET old == World.slot[Top.self]
        cost == IF old = 0 /\ v # 0 THEN SstoreSetGas ELSE SstoreResetGas
    IN  Execute(TRUE, cost,
            [UseGas(vm, cost) EXCEPT !.world.slot[Top.self] = v,
                                     !.world.refund = IF old # 0 /\ v = 0 THEN @ + SstoreRefundGas ELSE @])

opSuicide(to) ==
    LET moved == [World EXCEPT !.bal[to] = @ + World.bal[Top.self]]
    IN  Execute(TRUE, SuicideGas,
            Finish([UseGas(vm, SuicideGas) EXCEPT !.world =
                       [moved EXCEPT !.bal[Top.self] = 0,
                                     !.refund = IF Top.self \in World.gone THEN @ ELSE @ + SuicideRefundGas,
                                     !.gone = @ \cup {Top.self}]], "ok"))

Burn == Execute(FALSE, 1, UseGas(vm, 1))
-----------------------------------------------------------------------------
ExecInit ==
    /\ vm = [world |-> FirstWorld, frames |-> <<>>, readOnly |-> FALSE, result |-> NoResult]
    /\ tx = NoTarget
    /\ before = FirstWorld
    /\ left = Transactions
    /\ pool = BlockGas
    /\ usedGas = 0
    /\ status = "ok"

\* buyGas: the sender pays for all its gas (the price is 1), unless preCheck fails.  The
\* intrinsic gas is looked at once the gas is bought.
Bought(w, t) == [w EXCEPT !.bal[t.from] = @ - t.gas]
preCheck(t) == World.nonce[t.from] = t.nonce /\ t.gas <= World.bal[t.from] /\ t.gas <= pool
Refused(t) == ~preCheck(t) \/ t.gas < TxGas

\* TransitionDb up to the outer call.
ApplyMessage(t) ==
    /\ status = "ok" /\ tx = NoTarget /\ t \in left /\ ~Refused(t)
    /\ tx' = t /\ before' = World /\ left' = left \ {t}
    /\ pool' = pool - t.gas
    /\ LET m == [vm EXCEPT !.world = Bought(@, t), !.result = NoResult]
       IN  vm' = IF t.to = NoTarget THEN Create(m, t.from, t.gas - TxGas, t.value)
                 ELSE Call([m EXCEPT !.world.nonce[t.from] = @ + 1], "call", t.from, t.to,
                           t.gas - TxGas, t.value)
    /\ UNCHANGED <<usedGas, status>>

\* The nonce is another, the sender cannot pay, the pool is empty, or the gas bought does
\* not cover the intrinsic gas: Process refuses the block; the miner puts the world back,
\* not the pool, and goes on.
Refuse(t) ==
    /\ status = "ok" /\ tx = NoTarget /\ t \in left /\ Refused(t)
    /\ left' = left \ {t}
    /\ status' \in {"ok", "bad"}
    /\ pool' = IF preCheck(t) THEN pool - t.gas ELSE pool
    /\ UNCHANGED <<vm, tx, before, usedGas>>

Frame(n) == vm.frames # <<>> /\ vm' = n /\ UNCHANGED <<tx, before, left, pool, usedGas, status>>
\* A private transaction creates with no code: its payload is emptied.
HasCode == /\ vm.frames # <<>>
           /\ IF Top.kind = "create" THEN ~(tx.private /\ Len(vm.frames) = 1)
              ELSE Top.code \in World.code
RunCall == \E k \in {"call", "callcode", "delegate", "static"}, a \in Accounts, v \in 0 .. 1, g \in {1, Width - 1} :
              HasCode /\ (k \in {"delegate", "static"} => v = 0) /\ Frame(CallOp(k, a, v, g))
RunCreate == \E v \in 0 .. 1 : HasCode /\ Frame(CreateOp(v))
RunSstore == \E v \in 0 .. 1 : HasCode /\ Frame(Sstore(v))
RunSuicide == \E a \in Accounts : HasCode /\ Frame(opSuicide(a))
RunBurn == HasCode /\ Frame(Burn)
RunReturn == Frame(IF Top.kind = "create" THEN Deploy(vm, 0) ELSE Finish(vm, "ok"))
RunDeploy == \E size \in 1 .. MaxCodeSize + 1 : HasCode /\ Top.kind = "create" /\ Frame(Deploy(vm, size))
RunFault == \E err \in {"reverted", "failed"} : HasCode /\ Frame(Finish(vm, err))

Refund(used) == Min({used \div 2, World.refund})

\* The end of TransitionDb and of ApplyTransaction.
Settle ==
    /\ tx # NoTarget /\ vm.frames = <<>> /\ vm.result.err \notin {"none", "balance"}
    /\ LET gas == vm.result.gas + Refund(tx.gas - vm.result.gas)
           w == [World EXCEPT !.bal = [[@ EXCEPT ![tx.from] = @ + gas] EXCEPT ![Coinbase] = @ + tx.gas - gas],
                              !.refund = 0]
           dead == w.gone
       IN  /\ vm' = [vm EXCEPT !.world = [w EXCEPT !.code = @ \ dead, !.gone = {},
                                                   !.bal = [a \in Accounts |-> IF a \in dead THEN 0 ELSE @[a]],
                                                   !.nonce = [a \in Accounts |-> IF a \in dead THEN 0 ELSE @[a]],
                                                   !.slot = [a \in Accounts |-> IF a \in dead THEN 0 ELSE @[a]]],
                               !.result = NoResult]
           /\ pool' = pool + gas
           /\ usedGas' = usedGas + tx.gas - gas
    /\ tx' = IF tx.private /\ Participant THEN [tx EXCEPT !.from = NoTarget] ELSE NoTarget
    /\ UNCHANGED <<before, left, status>>

\* The sender cannot pay the value: a consensus error, with the gas already bought.
CannotPay ==
    /\ tx # NoTarget /\ vm.frames = <<>> /\ vm.result.err = "balance"
    /\ vm' = [vm EXCEPT !.world = before, !.result = NoResult]
    /\ tx' = NoTarget
    /\ status' \in {"ok", "bad"}
    /\ UNCHANGED <<before, left, pool, usedGas>>

\* tryApplyPrivateTx: the real payload runs on the private state, with the block's
\* pool; it fails when the pool or the remote database does.
ApplyPrivate ==
    /\ tx # NoTarget /\ tx.from = NoTarget
    /\ tx' = NoTarget
    /\ \E used \in TxGas .. tx.gas :
          IF pool < tx.gas THEN status' = "bad" /\ UNCHANGED pool
          ELSE /\ status' \in {"ok", "bad"}
               /\ pool' = pool - used
    /\ UNCHANGED <<vm, before, left, usedGas>>

ExecNext == \/ \E t \in left : ApplyMessage(t) \/ Refuse(t)
            \/ RunCall \/ RunCreate \/ RunSstore \/ RunSuicide \/ RunBurn \/ RunReturn \/ RunDeploy \/ RunFault
            \/ Settle \/ CannotPay \/ ApplyPrivate
ExecSpec == ExecInit /\ [][ExecNext]_execVars
-----------------------------------------------------------------------------
Total(w) == MapThenSumSet(LAMBDA a : w.bal[a], Accounts)
FrameGas == FoldSeq(LAMBDA f, g : f.gas + g, 0, vm.frames)
InCall == tx # NoTarget /\ vm.result = NoResult /\ vm.frames # <<>>
Held == IF tx # NoTarget /\ tx.from # NoTarget THEN tx.gas ELSE 0
Statics == {i \in DOMAIN vm.frames : vm.frames[i].kind = "static"}

\* The types of the state of an execution: gas stays a 64-bit number, depth and frames
\* stay in their limits.
ExecTypeOK ==
    /\ vm.world.bal \in [Accounts -> Nat] /\ vm.world.code \subseteq Accounts
    /\ \A i \in DOMAIN vm.frames : vm.frames[i].gas \in 0 .. Width - 1
    /\ Len(vm.frames) <= CallCreateDepth + 1
    /\ pool \in 0 .. BlockGas

\* Calls, creations, refunds, fees and self-destruction make no money: what the
\* accounts hold, with the gas the sender has paid for, never exceeds what there was.
MoneyNotMade == Total(World) + Held <= Total(FirstWorld)

\* The stipend and the 63/64 rule make no gas: the frames of a transaction
\* together never hold more than the transaction bought.
GasNotMade == InCall => FrameGas <= tx.gas - TxGas

\* Inside a static call, however deep and whatever is called from it, the world is
\* the one the outermost static call began with, and outside the protection is off.
StaticIsPure ==
    /\ vm.readOnly = (Statics # {})
    /\ Statics # {} => World = vm.frames[Min(Statics)].snapshot

\* A transaction whose call failed leaves the world as it was but for the fee and
\* its nonce: nothing that any of its frames did remains.
FailureLeavesNothing ==
    tx # NoTarget /\ tx.from # NoTarget /\ vm.result.err \notin {"none", "ok", "balance"}
        => World = [Bought(before, tx) EXCEPT !.nonce[tx.from] = @ + 1]

------------------------------------------------------------------------------
(* One frame of the interpreter (core/vm/interpreter.go) with the jump table, *)
(* the stack, the memory, the memory fees and the pool of integers.  The code *)
(* is any sequence of instructions.  Instructions with the same signature are *)
(* one name; <<"log", n>>, <<"dup", n>> and <<"swap", n>> are families.  Of   *)
(* the values on the stack only offsets and sizes matter, so they are chosen  *)
(* when an instruction reads them; calls are the first half above.            *)
CONSTANTS StackLimit, Widest,  \* Widest: 16, the deepest dup and swap
          Word,                \* 32 bytes
          GasWidth,               \* 2^64
          MaxMemory,           \* 0xffffffffe0
          MemoryGas, QuadCoeffDiv, FirstGas,
          Operands             \* the offsets and sizes met on the stack (big integers)

VARIABLES height,      \* of the stack
          words,       \* the length of the memory
          lastGasCost, gas, memoryPaid,
          readOnly,
          interpStatus       \* running, done, failed, or what must not happen: "panic", "aliased", "outside"
interpVars == <<height, words, lastGasCost, gas, memoryPaid, readOnly, interpStatus>>

Plain(names) == {<<n, 0>> : n \in names}
Families == {<<"log", n>> : n \in 0 .. 4} \cup {<<k, n>> : k \in {"dup", "swap"}, n \in 1 .. Widest}

\* What validateStack declares: items required and items left in their place.
DeclaredComputation ==
    [keepSecond |-> <<2, 1>>,  \* ADD SUB DIV LT GT SLT SGT EQ OR XOR BYTE SIGNEXTEND
     keepFirst |-> <<2, 1>>,   \* MUL MOD AND
     fresh |-> <<2, 1>>,       \* SDIV SMOD EXP
     modular |-> <<3, 1>>,     \* ADDMOD MULMOD
     inPlace |-> <<1, 1>>,     \* NOT ISZERO BALANCE EXTCODESIZE SLOAD
     sha3 |-> <<2, 1>>]
DeclaredEnvironment ==
    [read |-> <<0, 1>>,        \* ADDRESS ORIGIN CALLER CALLVALUE ... PC MSIZE GAS
     calldataload |-> <<1, 1>>,
     copy |-> <<3, 0>>,        \* CALLDATACOPY CODECOPY
     extcodecopy |-> <<4, 0>>,
     blockhash |-> <<1, 1>>,
     pop |-> <<1, 0>>]
DeclaredControl ==
    [mload |-> <<1, 1>>, mstore |-> <<2, 0>>, mstore8 |-> <<2, 0>>, sstore |-> <<2, 0>>,
     jump |-> <<1, 0>>, jumpi |-> <<2, 0>>, jumpdest |-> <<0, 0>>]
DeclaredSystem ==
    [create |-> <<3, 1>>,
     call |-> <<7, 1>>,        \* CALL CALLCODE
     return |-> <<2, 0>>, suicide |-> <<1, 0>>, stop |-> <<0, 0>>]
\* The instructions of the later rule sets; RETURNDATASIZE is as read.
DeclaredLater ==
    [shift |-> <<2, 1>>,       \* SHL SHR SAR
     delegatecall |-> <<6, 1>>,  \* DELEGATECALL STATICCALL
     returndatacopy |-> <<3, 0>>, revert |-> <<2, 0>>]
DeclaredPush == [push |-> <<0, 1>>]
DeclaredTable == DeclaredLater @@ DeclaredPush @@ DeclaredComputation @@ DeclaredEnvironment @@ DeclaredControl @@ DeclaredSystem
DeclaredLog(n) == <<2 + n, 0>>
DeclaredDup(n) == <<n, n + 1>>
DeclaredSwap(n) == <<n + 1, n + 1>>

Opcodes == Plain(DOMAIN DeclaredTable) \cup Families
Declared(op) == CASE op[1] = "log" -> DeclaredLog(op[2])
                  [] op[1] = "dup" -> DeclaredDup(op[2])
                  [] op[1] = "swap" -> DeclaredSwap(op[2])
                  [] OTHER -> DeclaredTable[op[1]]

\* What execute does to the stack: how many items it takes (1 is the top), what it
\* leaves (deepest first; 0 is an integer from the pool or a new one) and what it
\* returns to the pool.
Effect(pop, push, put) == [pop |-> pop, push |-> push, put |-> put]
DoesArithmetic == [keepFirst |-> Effect(2, <<1>>, {2}), fresh |-> Effect(2, <<0>>, {1, 2})]
DoesComparison == [keepSecond |-> Effect(2, <<2>>, {1}), inPlace |-> Effect(1, <<1>>, {})]
DoesModular == [modular |-> Effect(3, <<1>>, {2, 3}), shift |-> Effect(2, <<2>>, {1})]
opBlockhash == Effect(1, <<0>>, {1})
DoesEnvironment ==
    [sha3 |-> Effect(2, <<0>>, {1, 2}), read |-> Effect(0, <<0>>, {}), calldataload |-> Effect(1, <<0>>, {}),
     copy |-> Effect(3, <<>>, 1 .. 3), returndatacopy |-> Effect(3, <<>>, 1 .. 3),
     extcodecopy |-> Effect(4, <<>>, 2 .. 4), blockhash |-> opBlockhash, pop |-> Effect(1, <<>>, {1})]
DoesControl ==
    [mload |-> Effect(1, <<0>>, {1}), mstore |-> Effect(2, <<>>, {1, 2}), mstore8 |-> Effect(2, <<>>, {}),
     sstore |-> Effect(2, <<>>, {2}), jump |-> Effect(1, <<>>, {1}), jumpi |-> Effect(2, <<>>, {1, 2}),
     jumpdest |-> Effect(0, <<>>, {})]
DoesCalls ==
    [create |-> Effect(3, <<0>>, 1 .. 3), call |-> Effect(7, <<0>>, 1 .. 7), delegatecall |-> Effect(6, <<0>>, 1 .. 6)]
DoesHalting ==
    [return |-> Effect(2, <<>>, {1, 2}), revert |-> Effect(2, <<>>, {1, 2}),
     suicide |-> Effect(1, <<>>, {}), stop |-> Effect(0, <<>>, {})]
makePush == [push |-> Effect(0, <<0>>, {})]
DoesTable == makePush @@ DoesArithmetic @@ DoesComparison @@ DoesModular @@ DoesEnvironment
             @@ DoesControl @@ DoesCalls @@ DoesHalting
makeLog(n) == Effect(2 + n, <<>>, {1, 2})
makeDup(n) == Effect(n, [i \in 1 .. n + 1 |-> n + 1 - i], {})
makeSwap(n) == Effect(n + 1, [i \in 1 .. n + 1 |-> IF i = 1 THEN 1 ELSE IF i = n + 1 THEN n + 1 ELSE n + 2 - i], {})
Does(op) == CASE op[1] = "log" -> makeLog(op[2])
              [] op[1] = "dup" -> makeDup(op[2])
              [] op[1] = "swap" -> makeSwap(op[2])
              [] OTHER -> DoesTable[op[1]]

\* Ranges of memory as <<item with the offset, item with the size (0: constant), constant>>:
\* first the ones that execute reads and writes.
Accessed(name) ==
    CASE name \in {"sha3", "return", "revert", "log"} -> {<<1, 2, 0>>}
      [] name \in {"copy", "returndatacopy"} -> {<<1, 3, 0>>}
      [] name = "extcodecopy" -> {<<2, 4, 0>>}
      [] name \in {"mload", "mstore"} -> {<<1, 0, Word>>}
      [] name = "mstore8" -> {<<1, 0, 1>>}
      [] name = "create" -> {<<2, 3, 0>>}
      [] name = "call" -> {<<4, 5, 0>>, <<6, 7, 0>>}
      [] name = "delegatecall" -> {<<3, 4, 0>>, <<5, 6, 0>>}
      [] OTHER -> {}
\* Then the ones that the memorySize of the jump table counts.
memoryOne(name) ==
    CASE name \in {"sha3", "return", "revert", "log"} -> {<<1, 2, 0>>}
      [] name \in {"copy", "returndatacopy"} -> {<<1, 3, 0>>}
      [] name = "extcodecopy" -> {<<2, 4, 0>>}
      [] name \in {"mload", "mstore"} -> {<<1, 0, Word>>}
      [] name = "mstore8" -> {<<1, 0, 1>>}
      [] name = "create" -> {<<2, 3, 0>>}
      [] OTHER -> {}
memoryCall(name) ==
    CASE name = "call" -> {<<6, 7, 0>>, <<4, 5, 0>>}
      [] name = "delegatecall" -> {<<5, 6, 0>>, <<3, 4, 0>>}
      [] OTHER -> {}
MemorySize(name) == memoryOne(name) \cup memoryCall(name)
\* The item whose size the gas function charges for.
Charged(name) == CASE name \in {"copy", "returndatacopy"} -> 3
                   [] name = "extcodecopy" -> 4
                   [] name \in {"sha3", "log"} -> 2
                   [] OTHER -> 0
Calling == {"create", "call", "delegatecall"}
Writing == {"sstore", "log", "create", "suicide"}
MayFail == {"jump", "jumpi", "returndatacopy"}

\* The items read before the instruction runs.
Inspected(name) == UNION {{r[1], r[2]} : r \in MemorySize(name)}
                   \cup {Charged(name), IF name = "call" THEN 3 ELSE 0}
OperandsRead(name) == (Inspected(name) \cup UNION {{r[1], r[2]} : r \in Accessed(name)}) \ {0}

calcMemSize(x, r) == LET l == IF r[2] = 0 THEN r[3] ELSE x[r[2]] IN IF l = 0 THEN 0 ELSE x[r[1]] + l
toWordSize(size) == (size + Word - 1) \div Word
TotalFee(w) == w * MemoryGas + (w * w) \div QuadCoeffDiv
memoryGasCost(w) == IF w > words THEN TotalFee(w) - lastGasCost ELSE 0

StackFits(op) == /\ height >= Declared(op)[1]
                 /\ height - Declared(op)[1] + Declared(op)[2] <= StackLimit
Restricted(name, x) == readOnly /\ (name \in Writing \/ (name = "call" /\ x[3] # 0))

\* Items are numbered from the bottom of the stack; 0 is new.
Below(op) == height - Does(op).pop
After(op) == [i \in 1 .. Below(op) |-> i] \o [i \in DOMAIN Does(op).push |->
                 IF Does(op).push[i] = 0 THEN 0 ELSE height + 1 - Does(op).push[i]]
Outputs(op) == {height + 1 - i : i \in Does(op).put}
Aliased(op) == LET kept == SelectSeq(After(op), LAMBDA i : i # 0)
               IN  {i \in DOMAIN kept : kept[i] \in Outputs(op)
                                        \/ Cardinality({j \in DOMAIN kept : kept[j] = kept[i]}) > 1} # {}
-----------------------------------------------------------------------------
InterpInit ==
    /\ height = 0 /\ words = 0 /\ lastGasCost = 0 /\ memoryPaid = 0
    /\ gas = FirstGas
    /\ readOnly \in BOOLEAN
    /\ interpStatus = "running"

Fail(s) == interpStatus' = s /\ UNCHANGED <<height, words, lastGasCost, gas, memoryPaid, readOnly>>

Run(op, x) ==
    LET name == op[1]
        size == Max({calcMemSize(x, r) : r \in MemorySize(name)} \cup {0})
        w == toWordSize(size)
        fee == memoryGasCost(w)
        data == IF Charged(name) = 0 THEN 0 ELSE IF name = "log" THEN x[2] ELSE toWordSize(x[Charged(name)])
        cost == 1 + fee + data
        grown == IF w > words THEN w ELSE words
    IN  /\ interpStatus = "running"
        /\ IF \/ ~StackFits(op) \/ Restricted(name, x)
              \/ size >= GasWidth \/ w * Word >= GasWidth \/ w * Word > MaxMemory \/ cost >= GasWidth \/ gas < cost
           THEN Fail("failed")
           ELSE IF height < Max({0, Does(op).pop} \cup OperandsRead(name)) THEN Fail("panic")
           ELSE IF {r \in Accessed(name) : calcMemSize(x, r) > grown * Word} # {} THEN Fail("outside")
           ELSE IF Aliased(op) THEN Fail("aliased")
           ELSE /\ height' = Len(After(op))
                /\ words' = grown
                /\ lastGasCost' = IF w > words THEN TotalFee(w) ELSE lastGasCost
                /\ memoryPaid' = memoryPaid + fee
                /\ IF name \in Calling THEN gas' \in {0, gas - cost} ELSE gas' = gas - cost
                /\ CASE name \in {"stop", "return", "suicide", "revert"} -> interpStatus' = "done"
                     [] name \in MayFail -> interpStatus' \in {"running", "failed"}
                     [] OTHER -> UNCHANGED interpStatus
                /\ UNCHANGED readOnly

InterpNext == \E op \in Opcodes : \E x \in [OperandsRead(op[1]) -> Operands] : Run(op, x)
InterpSpec == InterpInit /\ [][InterpNext]_interpVars
-----------------------------------------------------------------------------
\* The types of the interpreter: stack, memory and gas stay in their limits.
InterpTypeOK ==
    /\ height \in 0 .. StackLimit
    /\ words \in 0 .. MaxMemory \div Word
    /\ gas \in 0 .. FirstGas /\ memoryPaid \in 0 .. FirstGas
    /\ interpStatus \in {"running", "done", "failed", "panic", "outside", "aliased"}

\* The checks made before an instruction (validateStack from the jump table, the
\* memory size and its overflow tests) cover all the items and all the bytes that the
\* instruction and its gas functions touch: no sequence of instructions makes the
\* stack or the memory be indexed outside their bounds.
ChecksCoverAccesses == interpStatus \notin {"panic", "outside"}

\* An integer returned to the pool is not on the stack, and no two items share one:
\* a later instruction cannot change an item it does not name.
PoolNotShared == interpStatus # "aliased"

\* Memory is paid for by its final size, however it grew.
MemoryPaidBySize == memoryPaid = TotalFee(words) /\ lastGasCost = memoryPaid
==============================================================================
