--------------------------------- MODULE ABI --------------------------------
(* The contract ABI (accounts/abi) and its bindings (accounts/abi/bind) in     *)
(* four independent parts.                                                     *)
(*  - "codec": values are packed for a list of argument types and unpacked     *)
(*    again, and data of any origin is unpacked.                               *)
(*  - "fields": unpacked values are assigned to the fields of a struct.        *)
(*  - "topics": indexed event arguments become log topics and back.            *)
(*  - bound contracts on the simulated backend.                                *)
(* A word has W bytes of Base values instead of 32 of 256.  A type is           *)
(* [T, size, elem]: size in bytes for numbers and fixed bytes, in elements for  *)
(* arrays; elem holds the element type of slices and arrays.                    *)
EXTENDS Integers, Sequences, FiniteSets, SequencesExt

CONSTANTS W, Base, ArgLists, MaxLen, Datas
VARIABLES args,      \* the types
          given,     \* the values packed
          data,      \* the packed data, or whatever arrived
          unpacked,  \* the outcome of UnpackValues
          at         \* what was done: "none", "packed", "arrived", "refused", "unpacked"
codecVars == <<args, given, data, unpacked, at>>

AddressSize == 1
\* NewType: the last pair of brackets is the outermost; none in it means a slice (0 here).
RECURSIVE NewType(_, _, _)
NewType(base, size, dims) ==
    IF dims # <<>>
    THEN [T |-> IF Last(dims) = 0 THEN "slice" ELSE "array", size |-> Last(dims), elem |-> <<NewType(base, size, Front(dims))>>]
    ELSE [T |-> IF base = "bytes" /\ size > 0 THEN "fixedbytes" ELSE base,
          size |-> IF base \in {"address", "function"} THEN AddressSize ELSE size, elem |-> <<>>]

Full == Base ^ W
RECURSIVE Number(_)
Number(bytes) == IF bytes = <<>> THEN 0 ELSE Base * Number(Front(bytes)) + Last(bytes)
Bytes(n, k) == [i \in 1 .. k |-> (n \div (Base ^ (k - i))) % Base]
Zeros(k) == [i \in 1 .. k |-> 0]
RightPad(bytes, k) == IF k <= Len(bytes) THEN bytes ELSE bytes \o Zeros(k - Len(bytes))
LeftPad(bytes, k) == IF k <= Len(bytes) THEN bytes ELSE Zeros(k - Len(bytes)) \o bytes

\* U256: the two's complement of the number in a word.
U256(n) == Bytes(n % Full, W)
packBytesSlice(bytes, l) == U256(l) \o RightPad(bytes, ((l + W - 1) \div W) * W)
packElement(t, v) ==
    CASE t.T \in {"int", "uint"} -> U256(v)
      [] t.T = "bool" -> U256(IF v THEN 1 ELSE 0)
      [] t.T \in {"string", "bytes"} -> packBytesSlice(v, Len(v))
      [] t.T = "address" -> LeftPad(v, W)
      [] t.T \in {"fixedbytes", "function"} -> RightPad(v, W)
requiresLengthPrefix(t) == t.T \in {"string", "bytes", "slice"}

\* typeCheck: the lengths of arrays and fixed bytes (the Go kinds are right); an empty slice of
\* arrays has no first element to check.
RECURSIVE typeCheck(_, _)
typeCheck(t, v) ==
    CASE t.T = "array" /\ Len(v) # t.size -> "error"
      [] t.T \in {"slice", "array"} /\ t.elem[1].T = "slice" -> IF v = <<>> THEN "ok" ELSE typeCheck(t.elem[1], v[1])
      [] t.T \in {"slice", "array"} /\ t.elem[1].T = "array" -> IF v = <<>> THEN "panic" ELSE typeCheck(t.elem[1], v[1])
      [] t.T = "fixedbytes" /\ Len(v) # t.size -> "error"
      [] OTHER -> "ok"
Ok(v) == [is |-> "ok", v |-> v]
Not(why) == [is |-> why, v |-> <<>>]
\* The outcomes of several steps: the first that is not ok, or the values.
All(outcomes) ==
    LET each == outcomes \o <<>>
        bad == {i \in DOMAIN each : each[i].is # "ok"}
    IN  IF bad = {} THEN Ok([i \in DOMAIN each |-> each[i].v])
        ELSE Not(each[CHOOSE i \in bad : \A k \in bad : i <= k].is)

RECURSIVE pack(_, _)
pack(t, v) ==
    IF typeCheck(t, v) # "ok" THEN Not(typeCheck(t, v))
    ELSE IF t.T \in {"slice", "array"}
    THEN LET packed == All([i \in DOMAIN v |-> pack(t.elem[1], v[i])]) IN
         IF packed.is # "ok" THEN packed
         ELSE IF t.T = "slice" THEN Ok(packBytesSlice(FlattenSeq(packed.v), Len(v)))
         ELSE Ok(FlattenSeq(packed.v))
    ELSE Ok(packElement(t, v))

\* The place of an argument in the head of the data.
HeadSize(t) == IF t.T = "array" THEN W * t.size ELSE W
RECURSIVE Sum(_)
Sum(s) == IF s = <<>> THEN 0 ELSE Head(s) + Sum(Tail(s))
\* Arguments.Pack: the heads, then the contents of slices, strings and bytes.
Pack(types, values) ==
    LET inputOffset == Sum([i \in DOMAIN types |-> HeadSize(types[i])])
        packed == All([i \in DOMAIN types |-> pack(types[i], values[i])])
        tail(i) == FlattenSeq([k \in 1 .. i |-> IF requiresLengthPrefix(types[k]) THEN packed.v[k] ELSE <<>>])
        head(i) == IF requiresLengthPrefix(types[i]) THEN U256(inputOffset + Len(tail(i - 1))) ELSE packed.v[i]
    IN  IF packed.is # "ok" THEN packed
        ELSE Ok(FlattenSeq([i \in DOMAIN types |-> head(i)]) \o tail(Len(types)))

\* A slice of the data; outside the data Go panics.
Cut(output, from, len) == IF from < 0 \/ len < 0 \/ from + len > Len(output) THEN Not("panic")
                          ELSE Ok(SubSeq(output, from + 1, from + len))
\* Numbers of the fixed widths are cut to them; the others are read as unsigned.
readInteger(t, word) ==
    IF t.size = W THEN Number(word)
    ELSE LET n == Number(SubSeq(word, W - t.size + 1, W)) IN
         IF t.T = "int" /\ n >= (Base ^ t.size) \div 2 THEN n - (Base ^ t.size) ELSE n
readBool(word) == IF Number(word) \in {0, 1} THEN Ok(Number(word) = 1) ELSE Not("error")
\* The address ends the word; fixed bytes and functions begin it (a function with nothing after).
readWord(t, word) ==
    CASE t.T \in {"int", "uint"} -> Ok(readInteger(t, word))
      [] t.T = "bool" -> readBool(word)
      [] t.T = "address" -> Ok(SubSeq(word, W - t.size + 1, W))
      [] t.T = "fixedbytes" -> Ok(SubSeq(word, 1, t.size))
      [] t.T = "function" -> IF Number(SubSeq(word, t.size + 1, W)) # 0 THEN Not("error") ELSE Ok(SubSeq(word, 1, t.size))

ContentsFit(total, output) == total <= Len(output)
\* lengthPrefixPointsTo: where the contents begin, and their length.
lengthPrefixPointsTo(index, output) ==
    LET offsetEnd == Number(Cut(output, index, W).v) + W
        length == Number(Cut(output, offsetEnd - W, W).v)
    IN  IF offsetEnd > Len(output) THEN Not("error")
        ELSE IF ~ContentsFit(offsetEnd + length, output) THEN Not("error")
        ELSE Ok(<<offsetEnd, length>>)
RECURSIVE getFullElemSize(_)
getFullElemSize(t) == IF t.T = "array" THEN t.size * getFullElemSize(t.elem[1]) ELSE W
RECURSIVE toGoType(_, _, _)
\* forEachUnpack: the elements one after the other; those of a slice a word apart.
forEachUnpack(t, output, start, size) ==
    LET step == IF t.T = "array" THEN getFullElemSize(t.elem[1]) ELSE W IN
    IF start + W * size > Len(output) THEN Not("error")
    ELSE All([j \in 1 .. size |-> toGoType(start + (j - 1) * step, t.elem[1], output)])
toGoType(index, t, output) ==
    IF index + W > Len(output) THEN Not("error")
    ELSE IF requiresLengthPrefix(t)
    THEN LET at0 == lengthPrefixPointsTo(index, output) IN
         IF at0.is # "ok" THEN at0
         ELSE IF t.T = "slice" THEN forEachUnpack(t, output, at0.v[1], at0.v[2])
         ELSE Cut(output, at0.v[1], at0.v[2])
    ELSE IF t.T = "array" THEN forEachUnpack(t, output, index, t.size)
    ELSE readWord(t, Cut(output, index, W).v)
RECURSIVE getArraySize(_)
getArraySize(t) == t.size * (IF t.elem[1].T = "array" THEN getArraySize(t.elem[1]) ELSE 1)
VirtualArgs(t) == IF t.T = "array" THEN getArraySize(t) - 1 ELSE 0
UnpackValues(types, output) ==
    All([i \in DOMAIN types |->
           toGoType((i - 1 + Sum([k \in 1 .. i - 1 |-> VirtualArgs(types[k])])) * W, types[i], output)])

\* The values that are packed: the ends of a number's range, a short and a long string.
RECURSIVE Given(_)
Given(t) ==
    CASE t.T = "uint" -> {0, 1, (Base ^ t.size) - 1}
      [] t.T = "int" -> {-1, 1, -((Base ^ t.size) \div 2), ((Base ^ t.size) \div 2) - 1}
      [] t.T = "bool" -> BOOLEAN
      [] t.T \in {"string", "bytes"} -> {<<>>, <<1>>, Append(Zeros(W - 1), 1), Append(Zeros(W), 1)}
      [] t.T \in {"address", "fixedbytes", "function"} -> {Append(Zeros(t.size - 1), 1), Append(Zeros(t.size - 1), 2)}
      [] t.T = "slice" -> UNION {[1 .. n -> Given(t.elem[1])] : n \in 0 .. MaxLen}
      [] t.T = "array" -> UNION {[1 .. n -> Given(t.elem[1])] : n \in {t.size, t.size - 1}}
RECURSIVE Tuples(_)
Tuples(types) == IF types = <<>> THEN {<<>>}
                 ELSE {<<v>> \o rest : v \in Given(types[1]), rest \in Tuples(Tail(types))}

CodecInit == args = <<>> /\ given = <<>> /\ data = <<>> /\ unpacked = Not("none") /\ at = "none"
PackArgs(types, values) ==
    /\ at = "none" /\ args' = types /\ given' = values
    /\ LET packed == Pack(types, values) IN
       /\ at' = IF packed.is = "ok" THEN "packed" ELSE "refused"
       /\ data' = packed.v
    /\ UNCHANGED unpacked
Arrives(types, d) ==
    at = "none" /\ at' = "arrived" /\ args' = types /\ data' = d /\ UNCHANGED <<given, unpacked>>
\* ABI.Unpack of a method's outputs: empty or ragged data is refused.
Unpack ==
    /\ at \in {"packed", "arrived"} /\ at' = "unpacked"
    /\ unpacked' = IF data = <<>> \/ Len(data) % W # 0 THEN Not("error") ELSE UnpackValues(args, data)
    /\ UNCHANGED <<args, given, data>>
CodecNext == \/ at = "none" /\ \E types \in ArgLists : \E values \in Tuples(types) : PackArgs(types, values)
             \/ at = "none" /\ \E types \in ArgLists, d \in Datas : Arrives(types, d)
             \/ Unpack

\* The types both directions lay out alike: elements of a fixed size, an array of arrays only
\* when nothing dynamic goes with it, slices only of words, numbers of a full word unsigned.
RECURSIVE Plain(_)
Plain(t) == CASE t.T \in {"slice", "array"} -> Plain(t.elem[1]) /\ ~requiresLengthPrefix(t.elem[1])
                                                /\ (t.T = "slice" => t.elem[1].T # "array")
              [] OTHER -> ~(t.T = "int" /\ t.size = W)
Nested(t) == t.T = "array" /\ t.elem[1].T = "array"
Alike(types) == /\ \A i \in DOMAIN types : Plain(types[i])
                /\ \A i, k \in DOMAIN types : Nested(types[i]) => ~requiresLengthPrefix(types[k])

\* Bytes are bytes, and what was packed is a number of whole words, as Unpack of a method's
\* outputs demands.
AbiTypeOK == /\ at \in {"none", "packed", "arrived", "refused", "unpacked"}
             /\ data \in Seq(0 .. Base - 1)
             /\ at = "packed" => Len(data) % W = 0

\* Unpacking what was packed gives the values back, whatever comes before and after an argument
\* in the head: the offsets Pack writes are the ones UnpackValues follows.
PackedUnpacks == (at = "unpacked" /\ given # <<>> /\ Alike(args)) => unpacked = Ok(given)

\* UnpackValues returns values or an error for any data: no offset or length in it makes it read
\* outside of it.
UnpackTotal == unpacked.is # "panic"

-----------------------------------------------------------------------------
(* Part "fields".  An argument is [name, indexed]; a struct gives each of its   *)
(* exported fields a tag, NoTag when there is none.                             *)
CONSTANTS NameLists,           \* lists of arguments
          Structs              \* what may be unpacked into
VARIABLES names, struct,       \* the arguments and the struct
          fieldOf,             \* the outcome of mapAbiToStructFields
          written              \* the assignments made, in order: field and argument
fieldVars == <<names, struct, fieldOf, written>>
NoTag == "-"
capitalise(name) == CASE name \in {"a", "_a"} -> "A" [] name \in {"b", "_b"} -> "B" [] OTHER -> ""
NonIndexed(list) == SelectSeq(list, LAMBDA arg : ~arg.indexed)
NamesOf(list) == {list[i].name : i \in DOMAIN list}

\* The first round pairs the tagged fields.
Tagged(s) == {f \in DOMAIN s : s[f] # NoTag}
BadTags(list, s) == \/ {f \in Tagged(s) : s[f] \notin NamesOf(NonIndexed(list))} # {}
                    \/ {<<f, g>> \in Tagged(s) \X Tagged(s) : f # g /\ s[f] = s[g]} # {}
ByTag(s) == [abi2struct |-> [n \in {s[f] : f \in Tagged(s)} |-> CHOOSE f \in Tagged(s) : s[f] = n],
             used |-> Tagged(s), error |-> FALSE]
\* A name that no field has is noted as used too.
Used(m, f, s) == m.used \cup {f}
Taken(m, f) == f \in m.used
\* The second round pairs an argument with the field of its capitalised name.
ByName(m, arg, s) ==
    LET f == capitalise(arg.name) IN
    IF m.error \/ f = "" THEN [m EXCEPT !.error = TRUE]
    ELSE IF arg.name \in DOMAIN m.abi2struct
    THEN [m EXCEPT !.error = m.abi2struct[arg.name] # f /\ f \notin m.used /\ f \in DOMAIN s]
    ELSE IF Taken(m, f) THEN [m EXCEPT !.error = TRUE]
    ELSE [m EXCEPT !.used = Used(m, f, s),
                   !.abi2struct = IF f \in DOMAIN s THEN [n \in DOMAIN @ \cup {arg.name} |-> IF n = arg.name THEN f ELSE @[n]]
                                  ELSE @]
RECURSIVE mapAbiToStructFields(_, _, _)
mapAbiToStructFields(m, list, s) ==
    IF list = <<>> THEN m ELSE mapAbiToStructFields(ByName(m, Head(list), s), Tail(list), s)

FieldsInit == names = <<>> /\ struct = <<>> /\ written = <<>>
              /\ fieldOf = [abi2struct |-> <<>>, used |-> {}, error |-> FALSE]
\* unpackTuple and unpackAtomic: every argument in the data is set where its name says.
UnpackInto(list, s) ==
    /\ names = <<>> /\ names' = list /\ struct' = s
    /\ fieldOf' = IF BadTags(list, s) THEN [fieldOf EXCEPT !.error = TRUE] ELSE mapAbiToStructFields(ByTag(s), list, s)
    /\ written' = IF fieldOf'.error THEN <<>>
                  ELSE LET there == SelectSeq(NonIndexed(list), LAMBDA arg : arg.name \in DOMAIN fieldOf'.abi2struct)
                       IN  [i \in DOMAIN there |-> <<fieldOf'.abi2struct[there[i].name], there[i].name>>]
FieldsNext == names = <<>> /\ \E list \in NameLists, s \in Structs : UnpackInto(list, s)

\* No two arguments are written to the same field, and a tagged field gets the argument it is
\* tagged with.
FieldsKeepTheirArgument ==
    /\ \A i, k \in DOMAIN written : i # k => written[i][1] # written[k][1]
    /\ (names # <<>> /\ ~fieldOf.error) => \A f \in Tagged(struct) : <<f, struct[f]>> \in ToSet(written)
-----------------------------------------------------------------------------
(* Part "topics".                                                               *)
CONSTANT TopicLists
VARIABLES indexed, rules, topics, parsed, topicAt
topicVars == <<indexed, rules, topics, parsed, topicAt>>
TopicsInit == indexed = <<>> /\ rules = <<>> /\ topics = <<>> /\ parsed = <<>> /\ topicAt = "none"

\* makeTopics: a number as the bytes of its magnitude, everything at the end of the topic.
makeTopic(t, v) ==
    CASE t.T \in {"int", "uint"} -> Bytes(IF v < 0 THEN -v ELSE v, W)
      [] t.T = "bool" -> U256(IF v THEN 1 ELSE 0)
      [] OTHER -> LeftPad(v, W)
\* parseTopics, of one field: numbers are cut to their width.
parseTopic(t, topic) ==
    CASE t.T = "uint" -> Number(topic) % (Base ^ t.size)
      [] t.T = "int" -> LET n == Number(topic) % (Base ^ t.size) IN
                        IF t.size < W /\ n >= (Base ^ t.size) \div 2 THEN n - (Base ^ t.size) ELSE n
      [] t.T = "bool" -> topic[W] = 1
      [] OTHER -> SubSeq(topic, W - t.size + 1, W)
TopicOf(i) == topics[i]
MakeTopics(types, values) ==
    /\ topicAt = "none" /\ topicAt' = "made" /\ indexed' = types /\ rules' = values
    /\ topics' = [i \in DOMAIN types |-> makeTopic(types[i], values[i])]
    /\ UNCHANGED parsed
\* The log may have another number of topics than the event has indexed fields.
ParseTopics(count) ==
    /\ topicAt = "made"
    /\ IF count # Len(indexed) THEN topicAt' = "refused" /\ UNCHANGED parsed
       ELSE topicAt' = "parsed" /\ parsed' = [i \in DOMAIN indexed |-> parseTopic(indexed[i], TopicOf(i))]
    /\ UNCHANGED <<indexed, rules, topics>>
TopicsNext == \/ topicAt = "none" /\ \E types \in TopicLists : \E values \in Tuples(types) : MakeTopics(types, values)
              \/ \E count \in 0 .. 3 : ParseTopics(count)

\* The fields parsed from the topics of a rule are the rule's values, negative numbers apart.
TopicsParsed ==
    topicAt = "parsed" => \A i \in DOMAIN indexed : indexed[i].T = "int" \/ parsed[i] = rules[i]

----------------------------------------------------------------------------
(* Bound contracts on the simulated backend (accounts/abi/bind, its backends    *)
(* and core/chain_makers.go): goroutines transact, call and wait while others   *)
(* commit and roll back.  The backend's mutex makes each of its operations one  *)
(* step; transact and WaitMined are several of them.                            *)
(* The contract counts: its first increment needs more gas than the next ones.  *)

CONSTANTS BoundClients, Accounts,
          AccountOf,                    \* client -> the account it transacts from
          BoundWaiters,                      \* the clients that wait for their transactions
          SimTxGas, FirstGas, NextGas,     \* what a plain transaction and the increments need
          BlockGas,                     \* the gas limit of a block
          MaxTxs

VARIABLES simHead,         \* the transactions of the chain
          pendingTxs,   \* those of the pending block
          pendingState, \* the pending state
          client,       \* client -> the transact it is in
          taken,        \* the transactions SendTransaction took and no rollback dropped, in order
          waiter        \* client -> the transaction it waits for, and what came of it
boundVars == <<simHead, pendingTxs, pendingState, client, taken, waiter>>

Absent == [from |-> CHOOSE a \in Accounts : TRUE, nonce |-> -1, kind |-> "none", gas |-> 0]
StartWaiting == [nonce |-> [a \in Accounts |-> 0], code |-> FALSE, count |-> 0, rich |-> {}]
SimNeeds(s, kind) == IF kind = "deploy" \/ ~s.code THEN SimTxGas ELSE IF s.count = 0 THEN FirstGas ELSE NextGas
\* core.ApplyTransaction: the nonce goes up even when the gas does not suffice.
Apply(s, tx) ==
    LET paid == [s EXCEPT !.nonce[tx.from] = @ + 1] IN
    IF tx.gas < SimNeeds(s, tx.kind) THEN paid
    ELSE IF tx.kind = "deploy" THEN [paid EXCEPT !.code = TRUE]
    ELSE IF s.code THEN [paid EXCEPT !.count = @ + 1] ELSE paid
StateOf(txs) == FoldLeft(Apply, StartWaiting, txs)
SimGasOf(txs) == FoldLeft(LAMBDA sum, tx : sum + tx.gas, 0, txs)

Idle == [pc |-> "idle", kind |-> "none", gas |-> 0, nonce |-> 0, seen |-> [code |-> FALSE, count |-> -1]]
BoundInit ==
    /\ simHead = <<>> /\ pendingTxs = <<>> /\ pendingState = StartWaiting
    /\ client = [c \in BoundClients |-> Idle]
    /\ taken = <<>> /\ waiter = [c \in BoundClients |-> [tx |-> Absent, pc |-> "idle"]]

\* GenerateChain with the transactions: a new block on the head.
Generate(txs) == pendingTxs' = txs /\ pendingState' = StateOf(simHead \o txs)

\* callContract makes the caller rich, and runs.
SimRan(s, a, kind, gas) == Apply([s EXCEPT !.rich = @ \cup {a}], [from |-> a, nonce |-> s.nonce[a], kind |-> kind, gas |-> gas])
\* RevertToSnapshot(snapshot)
Reverted(s, ran) == s
SimExecutable(s, kind, gas) == gas >= SimNeeds(s, kind)
\* EstimateGas: the binary search between lo and hi, on the state each run leaves.
RECURSIVE Search(_, _, _, _)
Search(s, kind, lo, hi) ==
    IF lo + 1 >= hi THEN hi
    ELSE LET mid == (hi + lo) \div 2 IN
         IF SimExecutable(s, kind, mid) THEN Search(s, kind, lo, mid) ELSE Search(s, kind, mid, hi)

\* Transact, Transfer and DeployContract, with a gas limit given (0 is none).
Transact(c, kind, gas) ==
    /\ client[c].pc = "idle" /\ waiter[c].pc # "waits" /\ Len(taken) < MaxTxs
    /\ client' = [client EXCEPT ![c] = [Idle EXCEPT !.pc = "nonce", !.kind = kind, !.gas = gas]]
    /\ UNCHANGED <<simHead, pendingTxs, pendingState, taken, waiter>>
PendingNonceAt(c) ==
    /\ client[c].pc = "nonce"
    /\ client' = [client EXCEPT ![c].nonce = pendingState.nonce[AccountOf[c]],
                                ![c].pc = IF client[c].gas # 0 THEN "send" ELSE IF client[c].kind = "deploy" THEN "gas" ELSE "code"]
    /\ UNCHANGED <<simHead, pendingTxs, pendingState, taken, waiter>>
PendingCodeAt(c) ==
    /\ client[c].pc = "code"
    /\ client' = [client EXCEPT ![c] = IF pendingState.code THEN [@ EXCEPT !.pc = "gas"] ELSE Idle]    \* ErrNoCode
    /\ UNCHANGED <<simHead, pendingTxs, pendingState, taken, waiter>>
SimEstimateGas(c) ==
    /\ client[c].pc = "gas"
    /\ LET kind == client[c].kind
           hi == Search(pendingState, kind, SimTxGas - 1, BlockGas)
       IN  client' = [client EXCEPT ![c] = IF hi = BlockGas /\ ~SimExecutable(pendingState, kind, hi) THEN Idle
                                            ELSE [@ EXCEPT !.gas = hi, !.pc = "send",
                                                           !.seen = [code |-> pendingState.code, count |-> pendingState.count]]]
    /\ pendingState' = Reverted(pendingState, SimRan(pendingState, AccountOf[c], client[c].kind, BlockGas))
    /\ UNCHANGED <<simHead, pendingTxs, taken, waiter>>
NonceGood(tx) == tx.nonce = pendingState.nonce[tx.from]
\* AddTxWithChain takes the gas from the block's pool.
Fits(tx) == SimGasOf(pendingTxs) + tx.gas <= BlockGas
\* Sign and SendTransaction, which panics when the nonce is another by now or the block is full.
SendTransaction(c, signer) ==
    /\ client[c].pc = "send"
    /\ LET tx == [from |-> AccountOf[c], nonce |-> client[c].nonce, kind |-> client[c].kind, gas |-> client[c].gas]
       IN  IF signer /\ NonceGood(tx) /\ Fits(tx)
           THEN /\ Generate(Append(pendingTxs, tx))
                /\ taken' = Append(taken, tx)
                /\ waiter' = [waiter EXCEPT ![c] = IF c \in BoundWaiters THEN [tx |-> tx, pc |-> "waits"] ELSE @]
           ELSE UNCHANGED <<pendingTxs, pendingState, taken, waiter>>
    /\ client' = [client EXCEPT ![c] = Idle]
    /\ UNCHANGED simHead

PendingCallContract(c, kind) ==
    /\ pendingState' = Reverted(pendingState, SimRan(pendingState, AccountOf[c], kind, BlockGas))
    /\ UNCHANGED <<simHead, pendingTxs, client, taken, waiter>>

\* Commit inserts the pending block, with logs for the subscriber, and starts another.
Commit ==
    /\ pendingTxs # <<>>
    /\ simHead' = simHead \o pendingTxs
    /\ pendingTxs' = <<>> /\ pendingState' = StateOf(simHead')
    /\ UNCHANGED <<client, taken, waiter>>
Rollback ==
    /\ pendingTxs # <<>>
    /\ Generate(<<>>)
    /\ taken' = simHead
    /\ UNCHANGED <<simHead, client, waiter>>
Adjusted(txs) == txs
AdjustTime ==
    /\ Generate(Adjusted(pendingTxs))
    /\ UNCHANGED <<simHead, client, taken, waiter>>

\* WaitMined looks for the receipt once a second; TransactionReceipt finds it in the chain alone.
Receipts == ToSet(simHead)
WaitMined(c) ==
    /\ waiter[c].pc = "waits" /\ waiter[c].tx \in Receipts
    /\ waiter' = [waiter EXCEPT ![c].pc = IF waiter[c].tx.kind # "deploy" THEN "mined"
                                           ELSE IF StateOf(simHead).code THEN "deployed" ELSE "nocode"]
    /\ UNCHANGED <<simHead, pendingTxs, pendingState, client, taken>>
ContextDone(c) ==
    /\ waiter[c].pc = "waits"
    /\ waiter' = [waiter EXCEPT ![c] = [tx |-> Absent, pc |-> "cancelled"]]
    /\ UNCHANGED <<simHead, pendingTxs, pendingState, client, taken>>

BoundNext ==
    \/ \E c \in BoundClients :
         \/ \E <<kind, gas>> \in {<<"deploy", 0>>, <<"count", 0>>, <<"count", NextGas>>} : Transact(c, kind, gas)
         \/ PendingNonceAt(c) \/ PendingCodeAt(c) \/ SimEstimateGas(c)
         \/ \E signer \in BOOLEAN : SendTransaction(c, signer)
         \/ WaitMined(c) \/ ContextDone(c)
         \/ \E kind \in {"deploy", "count"} : PendingCallContract(c, kind)
    \/ Commit \/ Rollback \/ AdjustTime

\* The pending state is what the chain and the pending transactions give, in their order, though
\* estimates and pending calls run on it with a caller made rich.
PendingIsReplay == pendingState = StateOf(simHead \o pendingTxs)

\* A transaction the backend took is in the chain or pending, in the order it was taken, unless a
\* rollback dropped it: AdjustTime and later transactions, which make the pending block anew, lose none.
TakenAreKept == simHead \o pendingTxs = taken

\* An account's transactions in the chain count up from zero: goroutines that read the same
\* pending nonce do not both get their transaction in.
NoncesConsecutive ==
    \A a \in Accounts : LET of == SelectSeq(simHead, LAMBDA tx : tx.from = a)
                        IN  \A i \in DOMAIN of : of[i].nonce = i - 1

\* The gas EstimateGas answers is enough, and one unit less is not, as long as the contract is
\* as the estimate found it, whatever else other goroutines have sent meanwhile.
EstimateExact ==
    \A c \in BoundClients :
        (client[c].pc = "send" /\ client[c].seen = [code |-> pendingState.code, count |-> pendingState.count])
          => /\ SimExecutable(pendingState, client[c].kind, client[c].gas)
             /\ client[c].gas > SimTxGas => ~SimExecutable(pendingState, client[c].kind, client[c].gas - 1)

\* WaitDeployed reports a contract only when its code is in the chain, and never one of a
\* transaction that is merely pending.
DeployedHasCode == \A c \in BoundClients : waiter[c].pc \in {"mined", "deployed"} => waiter[c].tx \in ToSet(simHead)

\* The shapes of the state.
BoundTypeOK ==
    /\ \A i \in DOMAIN pendingTxs : pendingTxs[i].nonce \in 0 .. MaxTxs /\ pendingTxs[i].gas \in 1 .. BlockGas
    /\ SimGasOf(pendingTxs) <= BlockGas
    /\ \A c \in BoundClients : /\ client[c].pc \in {"idle", "nonce", "code", "gas", "send"}
                           /\ waiter[c].pc \in {"idle", "waits", "mined", "deployed", "nocode", "cancelled"}

\* A transaction waited for that gets into the chain is noticed, or the waiting is cancelled.
MinedIsNoticed == \A c \in BoundClients : (waiter[c].pc = "waits" /\ waiter[c].tx \in ToSet(simHead)) ~> waiter[c].pc # "waits"
=============================================================================
