------------------------------- MODULE MCNode --------------------------------
(* Instances of the modules of a node and of its services: the key store, the *)
(* life of the node and the roles it takes, the cpc interface, contract calls *)
(* and their encoding, and tracing.  The parts share no state; a behaviour is *)
(* one of the part it starts with.                                            *)
EXTENDS Keystore, Node, CpcApi, ABI, Tracing

CONSTANTS Parts, c1, c2
VARIABLE part

MCImports == {[version |-> "1", cipher |-> "aes-128-cbc", kdf |-> "pbkdf2", auth |-> "p1", whole |-> TRUE],
              [version |-> "3", cipher |-> "aes-128-ctr", kdf |-> "other", auth |-> "p1", whole |-> TRUE]}

\* CpcApi.
Req(api, nonce, private, price) == [api |-> api, from |-> "a", nonce |-> nonce, private |-> private, price |-> price]
MCRequests == {Req("public", -1, TRUE, 1), Req("personal", -1, FALSE, 2), Req("raw", 0, FALSE, 1), Req("resend", 0, FALSE, 2)}
MCFees == <<1, 3, 2, 0, 0, 0, 0, 5>>
MCTxs == <<"plain", "create", "private">>

\* ABI: argument lists with every type, and names that collide once they are capitalised.
Ty(t, size) == NewType(t, size, <<>>)
U1 == Ty("uint", 1)
UW == Ty("uint", 2)
I1 == Ty("int", 1)
MCArgLists == {<<U1, Ty("bytes", 0), UW>>, <<Ty("string", 0), Ty("string", 0)>>,
   <<NewType("int", 1, <<2>>), Ty("bytes", 0), Ty("bool", 0)>>, <<NewType("uint", 1, <<0>>), Ty("address", 0), NewType("bool", 0, <<0>>)>>,
   <<NewType("int", 1, <<2, 2>>), U1>>, <<Ty("function", 0), Ty("bytes", 1), Ty("bytes", 0)>>,
   <<NewType("uint", 1, <<0, 0>>)>>, <<NewType("uint", 1, <<2, 0>>)>>}
MCDatas == UNION {[1 .. n -> {0, 1, 2}] : n \in {0, 1, 2, 4, 6}}
Arg(n, i) == [name |-> n, indexed |-> i]
MCNameLists == {<<Arg(n, i), Arg(m, j)>> : n, m \in {"a", "_a", "b", "_"}, i, j \in BOOLEAN}
                 \cup {<<Arg("a", FALSE)>>, <<Arg("b", FALSE), Arg("a", FALSE), Arg("_b", FALSE)>>}
MCGoodNames == {l \in MCNameLists : Cardinality(NamesOf(l)) = Len(l)}
Tags == {NoTag, "", "a", "_a", "b"}
MCStructs == [{"A"} -> Tags] \cup [{"A", "B"} -> Tags] \cup [{"A", "B", "C"} -> {NoTag, "a", "b"}]
MCTopicLists == {<<U1, I1, Ty("bool", 0)>>, <<Ty("address", 0), UW>>, <<Ty("bytes", 1), Ty("address", 0)>>}

\* Bound: both clients sign for one account.
MCAccountOf == [c \in BoundClients |-> "p"]

\* Tracing.
MCTxLists == {<<"public", "public">>, <<"private", "public">>}
MCKept == {<<0, "a">>, <<1, "a">>}

vars == <<part, keyVars, unlockVars, nodeVars, roleVars, sendVars, estVars, priceVars, readVars, codecVars,
          fieldVars, topicVars, boundVars, chainVars, blockVars, scriptVars>>

\* The parts that are not looked at start in one state.
Still ==
    /\ part # "role" => ~role.isMiner /\ ~role.validator /\ role.key

Init ==
    /\ part \in Parts
    /\ KeyInit /\ UnlockInit /\ NodeInit /\ RoleInit /\ SendInit /\ EstInit /\ PriceInit
    /\ ReadInit /\ CodecInit /\ FieldsInit /\ TopicsInit /\ BoundInit /\ TraceInit /\ BlockInit /\ ScriptInit
    /\ Still

Next ==
    \/ part = "files" /\ KeyNext
       /\ UNCHANGED <<part, unlockVars, nodeVars, roleVars, sendVars, estVars, priceVars, readVars, codecVars,
                      fieldVars, topicVars, boundVars, chainVars, blockVars, scriptVars>>
    \/ part = "unlock" /\ UnlockNext
       /\ UNCHANGED <<part, keyVars, nodeVars, roleVars, sendVars, estVars, priceVars, readVars, codecVars,
                      fieldVars, topicVars, boundVars, chainVars, blockVars, scriptVars>>
    \/ part = "node" /\ NodeNext
       /\ UNCHANGED <<part, keyVars, unlockVars, roleVars, sendVars, estVars, priceVars, readVars, codecVars,
                      fieldVars, topicVars, boundVars, chainVars, blockVars, scriptVars>>
    \/ part = "role" /\ RoleNext
       /\ UNCHANGED <<part, keyVars, unlockVars, nodeVars, sendVars, estVars, priceVars, readVars, codecVars,
                      fieldVars, topicVars, boundVars, chainVars, blockVars, scriptVars>>
    \/ part = "send" /\ SendNext
       /\ UNCHANGED <<part, keyVars, unlockVars, nodeVars, roleVars, estVars, priceVars, readVars, codecVars,
                      fieldVars, topicVars, boundVars, chainVars, blockVars, scriptVars>>
    \/ part = "est" /\ EstNext
       /\ UNCHANGED <<part, keyVars, unlockVars, nodeVars, roleVars, sendVars, priceVars, readVars, codecVars,
                      fieldVars, topicVars, boundVars, chainVars, blockVars, scriptVars>>
    \/ part = "price" /\ PriceNext
       /\ UNCHANGED <<part, keyVars, unlockVars, nodeVars, roleVars, sendVars, estVars, readVars, codecVars,
                      fieldVars, topicVars, boundVars, chainVars, blockVars, scriptVars>>
    \/ part = "read" /\ ReadNext
       /\ UNCHANGED <<part, keyVars, unlockVars, nodeVars, roleVars, sendVars, estVars, priceVars, codecVars,
                      fieldVars, topicVars, boundVars, chainVars, blockVars, scriptVars>>
    \/ part = "codec" /\ CodecNext
       /\ UNCHANGED <<part, keyVars, unlockVars, nodeVars, roleVars, sendVars, estVars, priceVars, readVars,
                      fieldVars, topicVars, boundVars, chainVars, blockVars, scriptVars>>
    \/ part = "fields" /\ FieldsNext
       /\ UNCHANGED <<part, keyVars, unlockVars, nodeVars, roleVars, sendVars, estVars, priceVars, readVars,
                      codecVars, topicVars, boundVars, chainVars, blockVars, scriptVars>>
    \/ part = "topics" /\ TopicsNext
       /\ UNCHANGED <<part, keyVars, unlockVars, nodeVars, roleVars, sendVars, estVars, priceVars, readVars,
                      codecVars, fieldVars, boundVars, chainVars, blockVars, scriptVars>>
    \/ part = "bound" /\ BoundNext
       /\ UNCHANGED <<part, keyVars, unlockVars, nodeVars, roleVars, sendVars, estVars, priceVars, readVars,
                      codecVars, fieldVars, topicVars, chainVars, blockVars, scriptVars>>
    \/ part = "chain" /\ ChainNext
       /\ UNCHANGED <<part, keyVars, unlockVars, nodeVars, roleVars, sendVars, estVars, priceVars, readVars,
                      codecVars, fieldVars, topicVars, boundVars, blockVars, scriptVars>>
    \/ part = "block" /\ BlockNext
       /\ UNCHANGED <<part, keyVars, unlockVars, nodeVars, roleVars, sendVars, estVars, priceVars, readVars,
                      codecVars, fieldVars, topicVars, boundVars, chainVars, scriptVars>>
    \/ part = "script" /\ ScriptNext
       /\ UNCHANGED <<part, keyVars, unlockVars, nodeVars, roleVars, sendVars, estVars, priceVars, readVars,
                      codecVars, fieldVars, topicVars, boundVars, chainVars, blockVars>>

Spec == Init /\ [][Next]_vars

\* The fairness of each part, as its own module states it.
Fairness ==
    /\ WF_unlockVars(part = "unlock" /\ ExpireSteps)
    /\ \A u \in Users : WF_unlockVars(part = "unlock" /\ SignHash(u))
    /\ WF_boundVars(part = "bound" /\ \E c \in BoundClients : WaitMined(c))
    /\ WF_chainVars(part = "chain" /\ TracerSteps)
FairSpec == Spec /\ Fairness

\* What each part keeps besides the invariants that have a name of their own here: the types, and what
\* the component's module says of keys, the node and its roles, the user interface, the encoding of
\* calls, bound contracts and traces.
NodeInv ==
    /\ part = "files" => KeyTypeOK /\ CacheIsDirectory /\ ManagerFollows
    /\ part = "unlock" => KeyTypeOK /\ SignsWithLiveKey /\ KeyNeverLost
    /\ part = "node" => NodeTypeOK /\ StoppedServesNothing /\ DatabaseLocked /\ WaitersReturn /\ IdentityKept
    /\ part = "role" => NodeTypeOK /\ CampaignTakesEffect /\ StopTakesEffect
    /\ part = "send" => ApiTypeOK /\ HeldByRunning /\ PrivateStored /\ RateBound
    /\ part = "est" => ApiTypeOK /\ EstimateWasRun /\ EstimateLeast
    /\ part = "price" => ApiTypeOK /\ PriceOfItsHead /\ ResultsFit
    /\ part = "read" => ApiTypeOK /\ MinedBeatsPending /\ InfoNotAhead /\ ListComplete
    /\ part = "codec" => AbiTypeOK /\ PackedUnpacks /\ UnpackTotal
    /\ part = "fields" => AbiTypeOK /\ FieldsKeepTheirArgument
    /\ part = "topics" => AbiTypeOK /\ TopicsParsed
    /\ part = "bound" => BoundTypeOK /\ EstimateExact /\ PendingIsReplay /\ TakenAreKept /\ NoncesConsecutive /\ DeployedHasCode
    /\ part = "chain" => TraceTypeOK /\ StreamInOrder /\ StatesHeld /\ StatesReleased
    /\ part = "block" => TraceTypeOK /\ TracedAsExecuted
    /\ part = "script" => TraceTypeOK /\ FaultShowsItsStep /\ EntriesAsOfTheirStep

\* A key unlocked for good stays so until it is locked; one unlocked for a time is locked again; a
\* transaction that is mined is noticed; tracing a range ends.
NodeProgress ==
    /\ ForeverStays /\ TimedIsLocked
    /\ MinedIsNoticed
    /\ TracingEnds
==============================================================================
