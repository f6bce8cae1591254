----------------------------- MODULE NodeProofs -----------------------------
(***************************************************************************)
(* Proofs about a node: the roles its engine takes while starts, stops and *)
(* the command that sets it up overlap, and the life of the node with what *)
(* it holds and serves.                                                    *)
(***************************************************************************)
EXTENDS Node, FiniteSetTheorems, TLAPS

-----------------------------------------------------------------------------
(* Roles.                                                                    *)
Coins == {"none", "wallet", NewCoinbase}
RolePcs == {"new", "isMining", "coinbase", "auto", "forbid", "campaign", "start", "setMiner", "setup", "done"}
RoleRecords == [isMiner : BOOLEAN, validator : BOOLEAN, toCampaign : BOOLEAN, isMining : BOOLEAN,
                runningMiner : BOOLEAN, initialized : BOOLEAN, launched : Nat, key : BOOLEAN,
                coinbase : Coins, miner : Coins, engine : Coins]
RoleTypes ==
    /\ role \in RoleRecords
    /\ run \in [Calls -> [pc : RolePcs, coin : Coins]]
    /\ gos \in [load : Nat, store : Nat, init : Nat, miner : SUBSET (Calls \X Coins)]
    /\ mined \in [last : {"none", "start", "stop"}, early : BOOLEAN]

\* A validator does not mine, and nothing that is under way will make it.
ValidatorOnly ==
    /\ run["cmd"].pc = "setup" => role.validator
    /\ role.validator => /\ ~role.toCampaign /\ ~role.isMiner /\ ~role.isMining /\ gos.miner = {}
                         /\ \A c \in Calls : run[c].pc \notin {"campaign", "start"}

\* A node that campaigns mines, or what will make it mine is under way; so for the handler.
CampaignUnderWay ==
    /\ role.toCampaign => /\ role.isMiner
                          /\ role.isMining \/ gos.miner # {} \/ \E c \in Calls : run[c].pc = "start"
                          /\ gos.load + gos.store + gos.init + role.launched > 0
    /\ role.runningMiner => gos.init + role.launched > 0

\* After a Stop that came when nothing was under way, nothing but changes of the coinbase is.
StoppedInPeace ==
    mined.last = "stop" /\ ~mined.early =>
        /\ Quiet /\ ~IsMining
        /\ \A c \in Calls : run[c].pc \in {"new", "done", "setMiner"}

RoleInv == RoleTypes /\ ValidatorOnly /\ CampaignUnderWay /\ StoppedInPeace

\* The start of the program, with any flag, satisfies the invariant.
LEMMA RoleInitially == RoleInit => RoleInv
<1> SUFFICES ASSUME RoleInit PROVE RoleInv
  OBVIOUS
<1>1. PICK flag \in {"mine", "validator", "none"}, key \in BOOLEAN :
        /\ role = [isMiner |-> flag = "mine", validator |-> flag = "validator", toCampaign |-> FALSE, isMining |-> FALSE,
                   runningMiner |-> FALSE, initialized |-> FALSE, launched |-> 0, key |-> key,
                   coinbase |-> "none", miner |-> "none", engine |-> "none"]
        /\ run = [c \in Calls |-> IF c # "cmd" THEN [pc |-> "new", coin |-> "none"]
                                 ELSE [pc |-> CASE flag = "mine" -> "isMining" [] flag = "validator" -> "setup" [] OTHER -> "done",
                                       coin |-> "none"]]
        /\ gos = [load |-> 0, store |-> 0, init |-> 0, miner |-> {}]
        /\ mined = [last |-> "none", early |-> FALSE]
  BY DEF RoleInit
<1>2. /\ role.isMiner = (flag = "mine") /\ role.validator = (flag = "validator") /\ ~role.toCampaign
      /\ ~role.isMining /\ ~role.runningMiner /\ gos.miner = {} /\ mined.last = "none"
  BY <1>1
<1>3. ASSUME NEW c \in Calls
      PROVE  /\ run[c] \in [pc : RolePcs, coin : Coins]
             /\ run[c].pc \in {"new", "isMining", "setup", "done"}
             /\ run[c].pc = "setup" => flag = "validator"
  <2>1. CASE c # "cmd"
    BY <1>1, <2>1 DEF Coins, RolePcs
  <2>2. CASE c = "cmd"
    <3>1. PICK p : p = CASE flag = "mine" -> "isMining" [] flag = "validator" -> "setup" [] OTHER -> "done"
      OBVIOUS
    <3>2. p \in {"isMining", "setup", "done"} /\ (p = "setup" => flag = "validator")
      BY <3>1
    <3>3. run[c] = [pc |-> p, coin |-> "none"]
      BY <1>1, <2>2, <3>1
    <3> QED
      BY <3>2, <3>3 DEF Coins, RolePcs
  <2> QED
    BY <2>1, <2>2
<1>4. RoleTypes
  <2>1. run \in [Calls -> [pc : RolePcs, coin : Coins]]
    BY <1>1, <1>3
  <2> QED
    BY <1>1, <2>1 DEF RoleTypes, RoleRecords, Coins
<1>5. ValidatorOnly
  <2>1. "cmd" \in Calls
    BY DEF Calls
  <2> QED
    BY <1>2, <1>3, <2>1 DEF ValidatorOnly
<1>6. CampaignUnderWay /\ StoppedInPeace
  BY <1>2 DEF CampaignUnderWay, StoppedInPeace
<1> QED
  BY <1>4, <1>5, <1>6 DEF RoleInv

\* A call moves on, and no other does.
LEMMA RoleGoes ==
    ASSUME RoleTypes, NEW c \in Calls, NEW pc \in RolePcs, Goes(c, pc)
    PROVE  /\ run' \in [Calls -> [pc : RolePcs, coin : Coins]]
           /\ run'[c].pc = pc /\ \A d \in Calls \ {c} : run'[d] = run[d]
<1>1. run \in [Calls -> [pc : RolePcs, coin : Coins]]
  BY DEF RoleTypes, RoleRecords
<1>2. PICK r : r = [run[c] EXCEPT !.pc = pc]
  OBVIOUS
<1>3. r \in [pc : RolePcs, coin : Coins] /\ r.pc = pc
  BY <1>1, <1>2
<1>4. run' = [run EXCEPT ![c] = r]
  BY <1>1, <1>2 DEF Goes
<1> QED
  BY <1>1, <1>3, <1>4

\* Steps that change neither the flags nor the goroutines keep the invariant if they put no
\* call where it makes the node campaign, and no call of the program's start at the setup.
LEMMA OnlyMoves ==
    ASSUME RoleInv, NEW c \in Calls,
           run' \in [Calls -> [pc : RolePcs, coin : Coins]],
           \A d \in Calls \ {c} : run'[d] = run[d],
           run[c].pc # "start", run'[c].pc \notin {"campaign", "start", "setup"},
           mined.last = "stop" /\ ~mined.early => run'[c].pc \in {"new", "done", "setMiner"},
           mined' = mined, gos' = gos,
           role' \in RoleRecords,
           /\ role'.isMiner = role.isMiner /\ role'.validator = role.validator /\ role'.toCampaign = role.toCampaign
           /\ role'.isMining = role.isMining /\ role'.runningMiner = role.runningMiner /\ role'.launched = role.launched
    PROVE  RoleInv'
<1>1. RoleTypes /\ ValidatorOnly /\ CampaignUnderWay /\ StoppedInPeace
  BY DEF RoleInv
<1>2. RoleTypes'
  BY <1>1 DEF RoleTypes, RoleRecords
<1>3. ValidatorOnly'
  BY <1>1 DEF ValidatorOnly, Calls
<1>4. CampaignUnderWay'
  <2>1. \A d \in Calls : run[d].pc = "start" => run'[d].pc = "start"
    OBVIOUS
  <2> QED
    BY <1>1, <2>1 DEF CampaignUnderWay
<1>5. Quiet' = Quiet /\ IsMining' = IsMining
  BY DEF Quiet, IsMining
<1>6. StoppedInPeace'
  BY <1>1, <1>5 DEF StoppedInPeace
<1> QED
  BY <1>2, <1>3, <1>4, <1>6 DEF RoleInv

\* The calls of the interface, and the steps of a Start up to Authorize.
LEMMA CallsKeep ==
    ASSUME RoleInv, NEW c \in Calls,
           CheckMining(c) \/ Coinbase(c) \/ AutoCoinbase(c) \/ ApiSetCoinbase(c) \/ MinerSetCoinbase(c)
    PROVE  RoleInv'
<1>1. RoleTypes /\ StoppedInPeace
  BY DEF RoleInv
<1>2. run \in [Calls -> [pc : RolePcs, coin : Coins]] /\ role.coinbase \in Coins
  BY <1>1 DEF RoleTypes, RoleRecords
<1>3. mined.last = "stop" /\ ~mined.early => run[c].pc \in {"new", "done", "setMiner"}
  BY <1>1 DEF StoppedInPeace
<1>4. CASE CheckMining(c)
  <2>1. PICK pc \in {"done", "coinbase"} : run[c].pc = "isMining" /\ Goes(c, pc) /\ UNCHANGED <<role, gos, mined>>
    BY <1>4 DEF CheckMining
  <2>2. pc \in RolePcs
    BY DEF RolePcs
  <2>3. /\ run' \in [Calls -> [pc : RolePcs, coin : Coins]]
        /\ run'[c].pc = pc /\ \A d \in Calls \ {c} : run'[d] = run[d]
    BY <1>1, <2>1, <2>2, RoleGoes
  <2> QED
    BY <1>1, <1>3, <2>1, <2>3, OnlyMoves DEF RoleTypes, RoleRecords
<1>5. CASE Coinbase(c)
  <2>1. PICK r : r = IF role.coinbase # "none" THEN [pc |-> "forbid", coin |-> role.coinbase]
                     ELSE [pc |-> "auto", coin |-> "wallet"]
    OBVIOUS
  <2>2. r \in [pc : RolePcs, coin : Coins] /\ r.pc \in {"forbid", "auto"}
    BY <1>2, <2>1 DEF RolePcs, Coins
  <2>3. run[c].pc = "coinbase" /\ run' = [run EXCEPT ![c] = r] /\ UNCHANGED <<role, gos, mined>>
    BY <1>5, <2>1 DEF Coinbase
  <2>4. run' \in [Calls -> [pc : RolePcs, coin : Coins]] /\ run'[c] = r /\ \A d \in Calls \ {c} : run'[d] = run[d]
    BY <1>2, <2>2, <2>3
  <2> QED
    BY <1>1, <1>3, <2>2, <2>3, <2>4, OnlyMoves DEF RoleTypes, RoleRecords
<1>6. CASE AutoCoinbase(c)
  <2>1. run[c].pc = "auto" /\ Goes(c, "forbid") /\ role' = [role EXCEPT !.coinbase = "wallet"] /\ UNCHANGED <<gos, mined>>
    BY <1>6 DEF AutoCoinbase
  <2>2. /\ run' \in [Calls -> [pc : RolePcs, coin : Coins]]
        /\ run'[c].pc = "forbid" /\ \A d \in Calls \ {c} : run'[d] = run[d]
    BY <1>1, <2>1, RoleGoes DEF RolePcs
  <2>3. "wallet" \in Coins
    BY DEF Coins
  <2> QED
    BY <1>1, <1>3, <2>1, <2>2, <2>3, OnlyMoves DEF RoleTypes, RoleRecords
<1>7. CASE ApiSetCoinbase(c)
  <2>1. run[c].pc = "new" /\ Goes(c, "setMiner") /\ role' = [role EXCEPT !.coinbase = NewCoinbase] /\ UNCHANGED <<gos, mined>>
    BY <1>7 DEF ApiSetCoinbase
  <2>2. /\ run' \in [Calls -> [pc : RolePcs, coin : Coins]]
        /\ run'[c].pc = "setMiner" /\ \A d \in Calls \ {c} : run'[d] = run[d]
    BY <1>1, <2>1, RoleGoes DEF RolePcs
  <2>3. NewCoinbase \in Coins
    BY DEF Coins
  <2> QED
    BY <1>1, <1>3, <2>1, <2>2, <2>3, OnlyMoves DEF RoleTypes, RoleRecords
<1>8. CASE MinerSetCoinbase(c)
  <2>1. run[c].pc = "setMiner" /\ Goes(c, "done") /\ role' = [role EXCEPT !.miner = NewCoinbase] /\ UNCHANGED <<gos, mined>>
    BY <1>8 DEF MinerSetCoinbase
  <2>2. /\ run' \in [Calls -> [pc : RolePcs, coin : Coins]]
        /\ run'[c].pc = "done" /\ \A d \in Calls \ {c} : run'[d] = run[d]
    BY <1>1, <2>1, RoleGoes DEF RolePcs
  <2>3. NewCoinbase \in Coins
    BY DEF Coins
  <2> QED
    BY <1>1, <1>3, <2>1, <2>2, <2>3, OnlyMoves DEF RoleTypes, RoleRecords
<1> QED
  BY <1>4, <1>5, <1>6, <1>7, <1>8

\* A Start or a Stop comes through the interface: a Stop that finds nothing under way leaves
\* nothing under way, and a node that does not mine.
LEMMA StartStopKeep ==
    ASSUME RoleInv, NEW c \in ApiCalls, ApiStart(c) \/ ApiStop(c) PROVE RoleInv'
<1>1. RoleTypes /\ ValidatorOnly /\ CampaignUnderWay /\ StoppedInPeace
  BY DEF RoleInv
<1>2. c \in Calls /\ "cmd" \in Calls
  BY DEF Calls
<1>3. run[c].pc = "new" /\ gos' = gos
  BY DEF ApiStart, ApiStop
<1>4. CASE ApiStart(c)
  <2>1. Goes(c, "isMining") /\ mined' = [last |-> "start", early |-> FALSE] /\ role' = role
    BY <1>4 DEF ApiStart
  <2>2. /\ run' \in [Calls -> [pc : RolePcs, coin : Coins]]
        /\ run'[c].pc = "isMining" /\ \A d \in Calls \ {c} : run'[d] = run[d]
    BY <1>1, <1>2, <2>1, RoleGoes DEF RolePcs
  <2>3. RoleTypes' /\ mined'.last = "start"
    BY <1>1, <1>3, <2>1, <2>2 DEF RoleTypes, RoleRecords
  <2>4. ValidatorOnly'
    BY <1>1, <1>2, <1>3, <2>1, <2>2 DEF ValidatorOnly
  <2>5. CampaignUnderWay'
    <3>1. \A d \in Calls : run[d].pc = "start" => run'[d].pc = "start"
      BY <1>3, <2>2
    <3> QED
      BY <1>1, <1>3, <2>1, <3>1 DEF CampaignUnderWay
  <2> QED
    BY <2>3, <2>4, <2>5 DEF RoleInv, StoppedInPeace
<1>5. CASE ApiStop(c)
  <2>1. PICK early : early = (~Quiet \/ run["cmd"].pc # "done")
    OBVIOUS
  <2>2. ~ApiLocked(c) /\ Goes(c, "done") /\ mined' = [last |-> "stop", early |-> early] /\ role' = StopMining
    BY <1>5, <2>1 DEF ApiStop
  <2>3. /\ run' \in [Calls -> [pc : RolePcs, coin : Coins]]
        /\ run'[c].pc = "done" /\ \A d \in Calls \ {c} : run'[d] = run[d]
    BY <1>1, <1>2, <2>2, RoleGoes DEF RolePcs
  <2>4. PICK t : t = IF IsMining THEN FALSE ELSE role.toCampaign
    OBVIOUS
  <2>5. role' = [role EXCEPT !.toCampaign = t]
    BY <2>2, <2>4 DEF StopMining
  <2>6. t \in BOOLEAN /\ (t => role.toCampaign /\ ~IsMining) /\ (early => early = TRUE) /\ early \in BOOLEAN
    BY <1>1, <2>1, <2>4, Zenon DEF RoleTypes, RoleRecords
  <2>7. /\ role' \in RoleRecords
        /\ role'.isMiner = role.isMiner /\ role'.validator = role.validator /\ role'.toCampaign = t
        /\ role'.isMining = role.isMining /\ role'.runningMiner = role.runningMiner /\ role'.launched = role.launched
    BY <1>1, <2>5, <2>6 DEF RoleTypes, RoleRecords
  <2>8. RoleTypes' /\ mined'.last = "stop" /\ mined'.early = early
    BY <1>1, <1>3, <2>2, <2>3, <2>6, <2>7 DEF RoleTypes, RoleRecords
  <2>9. ValidatorOnly'
    BY <1>1, <1>2, <1>3, <2>3, <2>6, <2>7 DEF ValidatorOnly
  <2>10. CampaignUnderWay'
    <3>1. \A d \in Calls : run[d].pc = "start" => run'[d].pc = "start"
      BY <1>3, <2>3
    <3> QED
      BY <1>1, <1>3, <2>6, <2>7, <3>1 DEF CampaignUnderWay
  <2>11. StoppedInPeace'
    <3> SUFFICES ASSUME ~early PROVE Quiet' /\ ~IsMining' /\ \A d \in Calls : run'[d].pc \in {"new", "done", "setMiner"}
      BY <2>8 DEF StoppedInPeace
    <3>1. Quiet /\ run["cmd"].pc = "done"
      BY <2>1
    <3>2. Quiet'
      BY <1>3, <3>1 DEF Quiet
    <3>3. ~IsMining'
      BY <2>6, <2>7 DEF IsMining
    <3>4. ASSUME NEW d \in Calls PROVE run'[d].pc \in {"new", "done", "setMiner"}
      <4>1. CASE d = c
        BY <2>3, <4>1
      <4>2. CASE d = "cmd" /\ d # c
        BY <1>2, <2>3, <3>1, <4>2
      <4>3. CASE d # "cmd" /\ d # c
        BY <2>2, <2>3, <4>3 DEF ApiLocked, Calls
      <4> QED
        BY <4>1, <4>2, <4>3
    <3> QED
      BY <3>2, <3>3, <3>4
  <2> QED
    BY <2>8, <2>9, <2>10, <2>11 DEF RoleInv
<1> QED
  BY <1>4, <1>5

\* A Start goes on to campaign only on a node that is no validator.
LEMMA AuthorizeKeeps == ASSUME RoleInv, NEW c \in Calls, Authorize(c) PROVE RoleInv'
<1>1. RoleTypes /\ ValidatorOnly /\ CampaignUnderWay /\ StoppedInPeace
  BY DEF RoleInv
<1>2. run \in [Calls -> [pc : RolePcs, coin : Coins]] /\ role.engine \in Coins /\ run[c].coin \in Coins
  BY <1>1 DEF RoleTypes, RoleRecords
<1>3. run[c].pc = "forbid" /\ UNCHANGED <<gos, mined>>
  BY DEF Authorize
<1>4. PICK pc \in {"done", "campaign"} : Goes(c, pc) /\ (pc = "campaign" => ~role.validator)
  BY DEF Authorize, Forbidden
<1>5. PICK e \in Coins : role' = [role EXCEPT !.engine = e]
  BY <1>2 DEF Authorize
<1>6. /\ run' \in [Calls -> [pc : RolePcs, coin : Coins]]
      /\ run'[c].pc = pc /\ \A d \in Calls \ {c} : run'[d] = run[d]
  BY <1>1, <1>4, RoleGoes DEF RolePcs
<1>7. /\ role' \in RoleRecords
      /\ role'.isMiner = role.isMiner /\ role'.validator = role.validator /\ role'.toCampaign = role.toCampaign
      /\ role'.isMining = role.isMining /\ role'.runningMiner = role.runningMiner /\ role'.launched = role.launched
  BY <1>1, <1>5 DEF RoleTypes, RoleRecords
<1>8. RoleTypes'
  BY <1>1, <1>3, <1>6, <1>7 DEF RoleTypes, RoleRecords
<1>9. ValidatorOnly'
  BY <1>1, <1>3, <1>4, <1>6, <1>7 DEF ValidatorOnly, Calls
<1>10. CampaignUnderWay'
  <2>1. \A d \in Calls : run[d].pc = "start" => run'[d].pc = "start"
    BY <1>3, <1>6
  <2> QED
    BY <1>1, <1>3, <1>7, <2>1 DEF CampaignUnderWay
<1>11. StoppedInPeace'
  BY <1>1, <1>3 DEF StoppedInPeace
<1> QED
  BY <1>8, <1>9, <1>10, <1>11 DEF RoleInv

\* SetToCampaign starts the goroutine of the engine, and its call goes on to start the miner.
LEMMA SetToCampaignKeeps == ASSUME RoleInv, NEW c \in Calls, SetToCampaign(c) PROVE RoleInv'
<1>1. RoleTypes /\ ValidatorOnly /\ CampaignUnderWay /\ StoppedInPeace
  BY DEF RoleInv
<1>2. /\ run[c].pc = "campaign" /\ Goes(c, "start") /\ mined' = mined
      /\ role' = [role EXCEPT !.toCampaign = TRUE, !.isMiner = TRUE]
      /\ gos' = [gos EXCEPT !.load = gos.load + 1]
  BY DEF SetToCampaign
<1>3. /\ run' \in [Calls -> [pc : RolePcs, coin : Coins]]
      /\ run'[c].pc = "start" /\ \A d \in Calls \ {c} : run'[d] = run[d]
  BY <1>1, <1>2, RoleGoes DEF RolePcs
<1>4. /\ role' \in RoleRecords
      /\ role'.isMiner /\ role'.validator = role.validator /\ role'.toCampaign
      /\ role'.runningMiner = role.runningMiner /\ role'.launched = role.launched /\ role.launched \in Nat
  BY <1>1, <1>2 DEF RoleTypes, RoleRecords
<1>5. /\ gos' \in [load : Nat, store : Nat, init : Nat, miner : SUBSET (Calls \X Coins)]
      /\ gos'.load = gos.load + 1 /\ gos'.store = gos.store /\ gos'.init = gos.init
      /\ gos.load \in Nat /\ gos.store \in Nat /\ gos.init \in Nat
  BY <1>1, <1>2 DEF RoleTypes, RoleRecords
<1>6. RoleTypes'
  BY <1>1, <1>2, <1>3, <1>4, <1>5 DEF RoleTypes, RoleRecords
<1>7. ~role.validator /\ ~(mined.last = "stop" /\ ~mined.early)
  BY <1>1, <1>2 DEF ValidatorOnly, StoppedInPeace
<1>8. ValidatorOnly'
  BY <1>1, <1>3, <1>4, <1>7 DEF ValidatorOnly, Calls
<1>9. CampaignUnderWay'
  <2>1. gos'.load + gos'.store + gos'.init + role'.launched > 0
    BY <1>4, <1>5
  <2>2. role'.runningMiner => gos'.init + role'.launched > 0
    BY <1>1, <1>4, <1>5 DEF CampaignUnderWay
  <2> QED
    BY <1>3, <1>4, <2>1, <2>2 DEF CampaignUnderWay
<1>10. StoppedInPeace'
  BY <1>2, <1>7 DEF StoppedInPeace
<1> QED
  BY <1>6, <1>8, <1>9, <1>10 DEF RoleInv

\* The end of a Start: the miner is started unless it mines already.
LEMMA GoStartKeeps == ASSUME RoleInv, NEW c \in Calls, GoStart(c) PROVE RoleInv'
<1>1. RoleTypes /\ ValidatorOnly /\ CampaignUnderWay /\ StoppedInPeace
  BY DEF RoleInv
<1>2. PICK m : m = gos.miner \cup StartsMiner(c)
  OBVIOUS
<1>3. run[c].pc = "start" /\ Goes(c, "done") /\ UNCHANGED <<role, mined>> /\ gos' = [gos EXCEPT !.miner = m]
  BY <1>2 DEF GoStart
<1>4. /\ run' \in [Calls -> [pc : RolePcs, coin : Coins]]
      /\ run'[c].pc = "done" /\ \A d \in Calls \ {c} : run'[d] = run[d]
  BY <1>1, <1>3, RoleGoes DEF RolePcs
<1>5. m \in SUBSET (Calls \X Coins) /\ (~role.isMining => m # {}) /\ (gos.miner # {} => m # {})
  <2>1. run[c].coin \in Coins /\ gos.miner \in SUBSET (Calls \X Coins)
    BY <1>1 DEF RoleTypes, RoleRecords
  <2>2. PICK x \in Calls \X Coins : x = <<c, run[c].coin>>
    BY <2>1
  <2>3. CASE role.isMining
    BY <1>2, <2>1, <2>3 DEF StartsMiner
  <2>4. CASE ~role.isMining
    <3>1. m = gos.miner \cup {x}
      BY <1>2, <2>2, <2>4 DEF StartsMiner
    <3> QED
      BY <2>1, <3>1
  <2> QED
    BY <2>3, <2>4
<1>6. /\ gos' \in [load : Nat, store : Nat, init : Nat, miner : SUBSET (Calls \X Coins)]
      /\ gos'.load = gos.load /\ gos'.store = gos.store /\ gos'.init = gos.init /\ gos'.miner = m
  BY <1>1, <1>3, <1>5 DEF RoleTypes, RoleRecords
<1>7. RoleTypes'
  BY <1>1, <1>3, <1>4, <1>6 DEF RoleTypes, RoleRecords
<1>8. ~role.validator /\ ~(mined.last = "stop" /\ ~mined.early)
  BY <1>1, <1>3 DEF ValidatorOnly, StoppedInPeace
<1>9. ValidatorOnly'
  BY <1>1, <1>3, <1>4, <1>8 DEF ValidatorOnly, Calls
<1>10. CampaignUnderWay'
  BY <1>1, <1>3, <1>5, <1>6 DEF CampaignUnderWay
<1>11. StoppedInPeace'
  BY <1>3, <1>8 DEF StoppedInPeace
<1> QED
  BY <1>7, <1>9, <1>10, <1>11 DEF RoleInv

\* SetupValidator, on a node that was started as a validator.
LEMMA SetupValidatorKeeps == ASSUME RoleInv, SetupValidator PROVE RoleInv'
<1>1. RoleTypes /\ ValidatorOnly /\ CampaignUnderWay /\ StoppedInPeace
  BY DEF RoleInv
<1>2. PICK i : i = IF role.initialized THEN gos.init ELSE gos.init + 1
  OBVIOUS
<1>3. /\ run["cmd"].pc = "setup" /\ Goes("cmd", "done") /\ mined' = mined
      /\ role' = [role EXCEPT !.validator = TRUE, !.initialized = TRUE] /\ gos' = [gos EXCEPT !.init = i]
  BY <1>2 DEF SetupValidator
<1>4. "cmd" \in Calls
  BY DEF Calls
<1>5. /\ run' \in [Calls -> [pc : RolePcs, coin : Coins]]
      /\ run'["cmd"].pc = "done" /\ \A d \in Calls \ {"cmd"} : run'[d] = run[d]
  BY <1>1, <1>3, <1>4, RoleGoes DEF RolePcs
<1>6. /\ role' \in RoleRecords
      /\ role'.isMiner = role.isMiner /\ role'.toCampaign = role.toCampaign /\ role'.isMining = role.isMining
      /\ role'.runningMiner = role.runningMiner /\ role'.launched = role.launched /\ role.launched \in Nat
  BY <1>1, <1>3 DEF RoleTypes, RoleRecords
<1>7. i \in Nat /\ gos.init \in Nat /\ i >= gos.init
  BY <1>1, <1>2 DEF RoleTypes, RoleRecords
<1>8. /\ gos' \in [load : Nat, store : Nat, init : Nat, miner : SUBSET (Calls \X Coins)]
      /\ gos'.init = i /\ gos'.miner = gos.miner
  BY <1>1, <1>3, <1>7 DEF RoleTypes, RoleRecords
<1>9. RoleTypes'
  BY <1>1, <1>3, <1>5, <1>6, <1>8 DEF RoleTypes, RoleRecords
<1>10. role.validator /\ ~(mined.last = "stop" /\ ~mined.early)
  BY <1>1, <1>3, <1>4 DEF ValidatorOnly, StoppedInPeace
<1>11. ValidatorOnly'
  BY <1>1, <1>5, <1>6, <1>8, <1>10 DEF ValidatorOnly
<1>12. CampaignUnderWay'
  <2>1. ~role'.toCampaign
    BY <1>1, <1>6, <1>10 DEF ValidatorOnly
  <2>2. role'.runningMiner => gos'.init + role'.launched > 0
    BY <1>1, <1>6, <1>7, <1>8 DEF CampaignUnderWay
  <2> QED
    BY <2>1, <2>2 DEF CampaignUnderWay
<1>13. StoppedInPeace'
  BY <1>3, <1>10 DEF StoppedInPeace
<1> QED
  BY <1>9, <1>11, <1>12, <1>13 DEF RoleInv

\* The goroutines of the engine: the handler is launched in the end, or has been.
LEMMA EngineGoroutinesKeep ==
    ASSUME RoleInv, LoadRunning \/ StoreRunning \/ initMinerAndValidator PROVE RoleInv'
<1>1. RoleTypes /\ ValidatorOnly /\ CampaignUnderWay /\ StoppedInPeace
  BY DEF RoleInv
<1>2. PICK l, st, i, k, r : /\ role' = [role EXCEPT !.runningMiner = r, !.launched = k]
                            /\ gos' = [gos EXCEPT !.load = l, !.store = st, !.init = i]
                            /\ l \in Nat /\ st \in Nat /\ i \in Nat /\ k \in Nat /\ r \in BOOLEAN
                            /\ gos.load + gos.store + gos.init > 0
                            /\ gos.load + gos.store + gos.init + role.launched > 0 => l + st + i + k > 0
                            /\ r => i + k > 0
                            /\ UNCHANGED <<run, mined>>
  <2>1. /\ gos.load \in Nat /\ gos.store \in Nat /\ gos.init \in Nat /\ role.launched \in Nat
        /\ role.runningMiner \in BOOLEAN
        /\ gos = [gos EXCEPT !.load = gos.load, !.store = gos.store, !.init = gos.init]
        /\ role = [role EXCEPT !.runningMiner = role.runningMiner, !.launched = role.launched]
    BY <1>1 DEF RoleTypes, RoleRecords
  <2>2. role.runningMiner => gos.init + role.launched > 0
    BY <1>1 DEF CampaignUnderWay
  <2>3. CASE LoadRunning
    <3>1. CASE role.runningMiner
      <4>1. gos' = [gos EXCEPT !.load = gos.load - 1, !.store = gos.store, !.init = gos.init]
        BY <1>1, <2>3, <3>1 DEF LoadRunning, RoleTypes, RoleRecords
      <4>2. gos.load > 0 /\ UNCHANGED <<role, run, mined>>
        BY <2>3 DEF LoadRunning
      <4>3. gos.load - 1 \in Nat /\ (gos.load - 1) + gos.store + gos.init + role.launched > 0
            /\ gos.load + gos.store + gos.init > 0
        BY <2>1, <2>2, <3>1, <4>2
      <4> QED
        BY <2>1, <2>2, <4>1, <4>2, <4>3
    <3>2. CASE ~role.runningMiner
      <4>1. gos' = [gos EXCEPT !.load = gos.load - 1, !.store = gos.store + 1, !.init = gos.init]
        BY <1>1, <2>3, <3>2 DEF LoadRunning, RoleTypes, RoleRecords
      <4>2. gos.load > 0 /\ UNCHANGED <<role, run, mined>>
        BY <2>3 DEF LoadRunning
      <4>3. gos.load - 1 \in Nat /\ gos.store + 1 \in Nat /\ (gos.load - 1) + (gos.store + 1) + gos.init + role.launched > 0
            /\ gos.load + gos.store + gos.init > 0
        BY <2>1, <4>2
      <4> QED
        BY <2>1, <2>2, <4>1, <4>2, <4>3
    <3> QED
      BY <3>1, <3>2
  <2>4. CASE StoreRunning
    <3>1. gos' = [gos EXCEPT !.load = gos.load, !.store = gos.store - 1, !.init = gos.init + 1]
      BY <1>1, <2>4 DEF StoreRunning, RoleTypes, RoleRecords
    <3>2. role' = [role EXCEPT !.runningMiner = TRUE, !.launched = role.launched]
      BY <1>1, <2>4 DEF StoreRunning, RoleTypes, RoleRecords
    <3>3. gos.store > 0 /\ UNCHANGED <<run, mined>>
      BY <2>4 DEF StoreRunning
    <3>4. gos.store - 1 \in Nat /\ gos.init + 1 \in Nat /\ gos.load + (gos.store - 1) + (gos.init + 1) + role.launched > 0
          /\ gos.load + gos.store + gos.init > 0 /\ (gos.init + 1) + role.launched > 0
      BY <2>1, <3>3
    <3> QED
      BY <2>1, <3>1, <3>2, <3>3, <3>4
  <2>5. CASE initMinerAndValidator
    <3>1. gos' = [gos EXCEPT !.load = gos.load, !.store = gos.store, !.init = gos.init - 1]
      BY <1>1, <2>5 DEF initMinerAndValidator, RoleTypes, RoleRecords
    <3>2. role' = [role EXCEPT !.runningMiner = role.runningMiner, !.launched = role.launched + 1]
      BY <1>1, <2>5 DEF initMinerAndValidator, RoleTypes, RoleRecords
    <3>3. gos.init > 0 /\ UNCHANGED <<run, mined>>
      BY <2>5 DEF initMinerAndValidator
    <3>4. /\ gos.init - 1 \in Nat /\ role.launched + 1 \in Nat
          /\ gos.load + gos.store + (gos.init - 1) + (role.launched + 1) > 0
          /\ gos.load + gos.store + gos.init > 0 /\ (gos.init - 1) + (role.launched + 1) > 0
      BY <2>1, <3>3
    <3> QED
      BY <2>1, <3>1, <3>2, <3>3, <3>4
  <2> QED
    BY <2>3, <2>4, <2>5
<1>3. /\ role' \in RoleRecords
      /\ role'.isMiner = role.isMiner /\ role'.validator = role.validator /\ role'.toCampaign = role.toCampaign
      /\ role'.isMining = role.isMining /\ role'.runningMiner = r /\ role'.launched = k
  BY <1>1, <1>2 DEF RoleTypes, RoleRecords
<1>4. /\ gos' \in [load : Nat, store : Nat, init : Nat, miner : SUBSET (Calls \X Coins)]
      /\ gos'.load = l /\ gos'.store = st /\ gos'.init = i /\ gos'.miner = gos.miner
  BY <1>1, <1>2 DEF RoleTypes, RoleRecords
<1>5. RoleTypes'
  BY <1>1, <1>2, <1>3, <1>4 DEF RoleTypes, RoleRecords
<1>6. ValidatorOnly'
  BY <1>1, <1>2, <1>3, <1>4 DEF ValidatorOnly
<1>7. CampaignUnderWay'
  BY <1>1, <1>2, <1>3, <1>4 DEF CampaignUnderWay
<1>8. StoppedInPeace'
  <2>1. ~Quiet
    BY <1>1, <1>2 DEF Quiet, RoleTypes, RoleRecords
  <2> QED
    BY <1>1, <1>2, <2>1 DEF StoppedInPeace
<1> QED
  BY <1>5, <1>6, <1>7, <1>8 DEF RoleInv

\* The goroutine of the miner, of which there is none on a validator.
LEMMA MinerStartKeeps == ASSUME RoleInv, NEW g \in gos.miner, MinerStart(g) PROVE RoleInv'
<1>1. RoleTypes /\ ValidatorOnly /\ CampaignUnderWay /\ StoppedInPeace
  BY DEF RoleInv
<1>2. gos.miner \in SUBSET (Calls \X Coins) /\ g[2] \in Coins
  BY <1>1 DEF RoleTypes, RoleRecords
<1>3. PICK m : m = gos.miner \ {g}
  OBVIOUS
<1>4. /\ role' = [role EXCEPT !.miner = g[2], !.isMining = TRUE] /\ gos' = [gos EXCEPT !.miner = m]
      /\ UNCHANGED <<run, mined>>
  BY <1>3 DEF MinerStart
<1>5. /\ role' \in RoleRecords
      /\ role'.isMiner = role.isMiner /\ role'.validator = role.validator /\ role'.toCampaign = role.toCampaign
      /\ role'.isMining /\ role'.runningMiner = role.runningMiner /\ role'.launched = role.launched
  BY <1>1, <1>2, <1>4 DEF RoleTypes, RoleRecords
<1>6. /\ gos' \in [load : Nat, store : Nat, init : Nat, miner : SUBSET (Calls \X Coins)]
      /\ gos'.load = gos.load /\ gos'.store = gos.store /\ gos'.init = gos.init
  BY <1>1, <1>2, <1>3, <1>4 DEF RoleTypes, RoleRecords
<1>7. RoleTypes'
  BY <1>1, <1>4, <1>5, <1>6 DEF RoleTypes, RoleRecords
<1>8. ~role.validator /\ ~(mined.last = "stop" /\ ~mined.early)
  BY <1>1 DEF ValidatorOnly, StoppedInPeace, Quiet
<1>9. ValidatorOnly'
  BY <1>1, <1>4, <1>5, <1>8 DEF ValidatorOnly
<1>10. CampaignUnderWay'
  BY <1>1, <1>4, <1>5, <1>6 DEF CampaignUnderWay
<1>11. StoppedInPeace'
  BY <1>4, <1>8 DEF StoppedInPeace
<1> QED
  BY <1>7, <1>9, <1>10, <1>11 DEF RoleInv

\* Every step of the calls and of the goroutines keeps the invariant.
LEMMA RoleStep == RoleInv /\ [RoleNext]_roleVars => RoleInv'
<1> SUFFICES ASSUME RoleInv, [RoleNext]_roleVars PROVE RoleInv'
  OBVIOUS
<1>1. CASE SetupValidator
  BY <1>1, SetupValidatorKeeps
<1>2. CASE LoadRunning \/ StoreRunning \/ initMinerAndValidator
  BY <1>2, EngineGoroutinesKeep
<1>3. ASSUME NEW g \in gos.miner, MinerStart(g) PROVE RoleInv'
  BY <1>3, MinerStartKeeps
<1>4. ASSUME NEW c \in ApiCalls, ApiStart(c) \/ ApiStop(c) PROVE RoleInv'
  BY <1>4, StartStopKeep
<1>5. ASSUME NEW c \in ApiCalls, ApiSetCoinbase(c) \/ MinerSetCoinbase(c) PROVE RoleInv'
  <2>1. c \in Calls
    BY DEF Calls
  <2> QED
    BY <1>5, <2>1, CallsKeep
<1>6. ASSUME NEW c \in Calls, CheckMining(c) \/ Coinbase(c) \/ AutoCoinbase(c) PROVE RoleInv'
  BY <1>6, CallsKeep
<1>7. ASSUME NEW c \in Calls, Authorize(c) PROVE RoleInv'
  BY <1>7, AuthorizeKeeps
<1>8. ASSUME NEW c \in Calls, SetToCampaign(c) PROVE RoleInv'
  BY <1>8, SetToCampaignKeeps
<1>9. ASSUME NEW c \in Calls, GoStart(c) PROVE RoleInv'
  BY <1>9, GoStartKeeps
<1>10. CASE UNCHANGED roleVars
  <2>1. UNCHANGED <<role, run, gos, mined>>
    BY <1>10 DEF roleVars
  <2>2. Quiet' = Quiet /\ IsMining' = IsMining
    BY <2>1 DEF Quiet, IsMining
  <2> QED
    BY <2>1, <2>2 DEF RoleInv, RoleTypes, ValidatorOnly, CampaignUnderWay, StoppedInPeace
<1> QED
  BY <1>1, <1>2, <1>3, <1>4, <1>5, <1>6, <1>7, <1>8, <1>9, <1>10 DEF RoleNext

\* Every reachable state of the roles satisfies the invariant.
THEOREM RoleInvariant == RoleInit /\ [][RoleNext]_roleVars => []RoleInv
BY RoleInitially, RoleStep, PTL

\* A node started as a validator never becomes a proposer, with any number of calls.
THEOREM RolesStayExclusive == RoleInit /\ [][RoleNext]_roleVars => []RolesExclusive
<1>1. RoleInv => RolesExclusive
  BY DEF RoleInv, ValidatorOnly, RolesExclusive
<1> QED
  BY <1>1, RoleInvariant, PTL

\* When all is through, a node that campaigns mines and has launched its handler.
THEOREM CampaignsTakeEffect == RoleInit /\ [][RoleNext]_roleVars => []CampaignTakesEffect
<1>1. ASSUME RoleInv, Settled, role.toCampaign PROVE IsMining /\ role.launched > 0
  <2>1. RoleTypes /\ CampaignUnderWay
    BY <1>1 DEF RoleInv
  <2>2. gos.load + gos.store + gos.init = 0 /\ gos.miner = {} /\ \A c \in Calls : run[c].pc # "start"
    BY <1>1 DEF Settled, Quiet
  <2>3. IsMining
    BY <1>1, <2>1, <2>2 DEF CampaignUnderWay, IsMining
  <2>4. role.launched > 0
    <3>1. gos.load \in Nat /\ gos.store \in Nat /\ gos.init \in Nat /\ role.launched \in Nat
      BY <2>1 DEF RoleTypes, RoleRecords
    <3>2. gos.load + gos.store + gos.init + role.launched > 0
      BY <1>1, <2>1 DEF CampaignUnderWay
    <3> QED
      BY <2>2, <3>1, <3>2
  <2> QED
    BY <2>3, <2>4
<1>2. RoleInv => CampaignTakesEffect
  BY <1>1 DEF CampaignTakesEffect
<1> QED
  BY <1>2, RoleInvariant, PTL

\* After a Stop that is the last call, and came when nothing was under way, the node does
\* not mine.
THEOREM StopsTakeEffect == RoleInit /\ [][RoleNext]_roleVars => []StopTakesEffect
<1>1. RoleInv => StopTakesEffect
  BY DEF RoleInv, StoppedInPeace, StopTakesEffect
<1> QED
  BY <1>1, RoleInvariant, PTL

-----------------------------------------------------------------------------
(* The life of the node.                                                     *)
Ends == {"inproc", "ipc", "http", "ws"}
NodeRecords == [server : BOOLEAN, p2p : BOOLEAN, up : SUBSET Ends, apis : BOOLEAN, quitCh : Nat,
                mux : {"up", "stopped"}, want : SUBSET Ends, asked : SUBSET {"http", "ws"}]
Locks == {"free", "us", "other"}
HistRecords == [starts : Nat, faults : Nat, closed : SUBSET Nat, ids : SUBSET Nat, damaged : BOOLEAN,
                late : BOOLEAN, used : SUBSET Locks]
LifeTypes ==
    /\ node \in NodeRecords
    /\ dir \in [lock : Locks, file : Nat]
    /\ svc \in [open : SUBSET Services, running : SUBSET Services]
    /\ wait \in [Waiters -> Nat]
    /\ nodeHist \in HistRecords

\* As long as every new key was written, the node has had the identity of the key file, and
\* none if there is no file.
KeyOfFile == ~nodeHist.damaged => nodeHist.ids \subseteq {dir.file} /\ (dir.file = 0 => nodeHist.ids = {})

LifeInv == LifeTypes /\ NodeTypeOK /\ StoppedServesNothing /\ DatabaseLocked /\ WaitersReturn /\ KeyOfFile

\* A new node satisfies the invariant.
LEMMA LifeInitially == NodeInit => LifeInv
<1> SUFFICES ASSUME NodeInit PROVE LifeInv
  OBVIOUS
<1>1. LifeTypes
  BY DEF NodeInit, NewNode, LifeTypes, NodeRecords, HistRecords, Ends, Locks
<1>2. NodeTypeOK /\ StoppedServesNothing /\ DatabaseLocked /\ WaitersReturn /\ KeyOfFile
  BY DEF NodeInit, NewNode, NodeTypeOK, StoppedServesNothing, DatabaseLocked, WaitersReturn, KeyOfFile
<1> QED
  BY <1>1, <1>2 DEF LifeInv

\* openDataDir locks the directory, and gives the node the key of the file or a new one.
LEMMA DirOpened ==
    ASSUME LifeInv, NEW saved \in BOOLEAN, NEW faults \in {0, 1}, openDataDir(saved, faults)
    PROVE  /\ ~node.server
           /\ dir' \in [lock : Locks, file : Nat] /\ dir'.lock = "us"
           /\ nodeHist' \in HistRecords /\ nodeHist'.closed = nodeHist.closed /\ nodeHist'.late = nodeHist.late
           /\ KeyOfFile'
<1>1. PICK key, file, f, st, dm, ids :
          /\ key = NodeKey(dir.file, nodeHist.starts + 1)
          /\ file = IF saved THEN key ELSE dir.file
          /\ f = nodeHist.faults + faults + (IF saved THEN 0 ELSE 1)
          /\ st = nodeHist.starts + 1 /\ dm = (nodeHist.damaged \/ ~saved) /\ ids = nodeHist.ids \cup {key}
  OBVIOUS
<1>2. /\ ~node.server /\ dir' = [lock |-> "us", file |-> file]
      /\ nodeHist' = [nodeHist EXCEPT !.starts = st, !.faults = f, !.damaged = dm, !.ids = ids]
  BY <1>1 DEF openDataDir, Locked
<1>3. /\ dir.file \in Nat /\ nodeHist.starts \in Nat /\ nodeHist.faults \in Nat /\ nodeHist.ids \in SUBSET Nat
      /\ nodeHist.damaged \in BOOLEAN /\ nodeHist \in HistRecords
  BY DEF LifeInv, LifeTypes, HistRecords
<1>4. key \in Nat /\ key # 0 /\ (dir.file # 0 => key = dir.file)
  BY <1>1, <1>3 DEF NodeKey
<1>5. f \in Nat /\ file \in Nat /\ st \in Nat
  BY <1>1, <1>3, <1>4
<1>6. dm \in BOOLEAN /\ ids \in SUBSET Nat
  BY <1>1, <1>3, <1>4
<1>7. /\ nodeHist' \in HistRecords /\ nodeHist'.closed = nodeHist.closed /\ nodeHist'.late = nodeHist.late
      /\ nodeHist'.ids = ids /\ nodeHist'.damaged = dm
  BY <1>2, <1>3, <1>5, <1>6 DEF HistRecords
<1>8. KeyOfFile'
  <2> SUFFICES ASSUME ~nodeHist.damaged, saved PROVE nodeHist'.ids \subseteq {dir'.file} /\ dir'.file # 0
    BY <1>1, <1>7 DEF KeyOfFile
  <2>1. dir'.file = key
    BY <1>1, <1>2
  <2>2. nodeHist.ids \subseteq {key}
    BY <1>4 DEF LifeInv, KeyOfFile
  <2> QED
    BY <1>1, <1>4, <1>7, <2>1, <2>2
<1> QED
  BY <1>2, <1>5, <1>7, <1>8 DEF Locks

\* A Start that fails after the directory was opened, at whichever step, leaves a node
\* without a server that serves no more than before.
LEMMA StartFailsKeeps ==
    ASSUME LifeInv, NEW saved \in BOOLEAN, NEW faults \in {0, 1}, openDataDir(saved, faults),
           svc' \in [open : SUBSET Services, running : SUBSET Services], svc'.running = svc.running,
           node' \in NodeRecords, node'.server = node.server, node'.p2p = node.p2p,
           node'.up \subseteq node.up, wait' = wait
    PROVE  LifeInv'
<1>1. /\ ~node.server
      /\ dir' \in [lock : Locks, file : Nat] /\ dir'.lock = "us"
      /\ nodeHist' \in HistRecords /\ nodeHist'.closed = nodeHist.closed /\ nodeHist'.late = nodeHist.late
      /\ KeyOfFile'
  BY DirOpened
<1>2. LifeTypes'
  BY <1>1 DEF LifeInv, LifeTypes
<1>3. NodeTypeOK' /\ DatabaseLocked'
  BY <1>1 DEF LifeInv, NodeTypeOK, DatabaseLocked
<1>4. StoppedServesNothing'
  BY <1>1 DEF LifeInv, StoppedServesNothing
<1>5. WaitersReturn'
  BY <1>1 DEF LifeInv, WaitersReturn
<1> QED
  BY <1>1, <1>2, <1>3, <1>4, <1>5 DEF LifeInv

\* Start, refused, failing at any step, or successful.
LEMMA StartKeeps == ASSUME LifeInv, Start PROVE LifeInv'
<1>1. /\ node \in NodeRecords /\ svc \in [open : SUBSET Services, running : SUBSET Services]
      /\ dir.lock \in Locks /\ nodeHist \in HistRecords
  BY DEF LifeInv, LifeTypes
<1>2. CASE StartRefused
  <2>1. PICK u : u = IF node.server THEN nodeHist.used ELSE nodeHist.used \cup {dir.lock}
    OBVIOUS
  <2>2. u \in SUBSET Locks /\ nodeHist' = [nodeHist EXCEPT !.used = u] /\ UNCHANGED <<node, dir, svc, wait>>
    BY <1>1, <1>2, <2>1 DEF StartRefused, HistRecords
  <2>3. /\ nodeHist' \in HistRecords /\ nodeHist'.closed = nodeHist.closed /\ nodeHist'.late = nodeHist.late
        /\ nodeHist'.ids = nodeHist.ids /\ nodeHist'.damaged = nodeHist.damaged
    BY <1>1, <2>2 DEF HistRecords
  <2>4. LifeTypes'
    BY <2>2, <2>3 DEF LifeInv, LifeTypes
  <2>5. NodeTypeOK' /\ StoppedServesNothing' /\ DatabaseLocked' /\ WaitersReturn' /\ KeyOfFile'
    BY <2>2, <2>3 DEF LifeInv, NodeTypeOK, StoppedServesNothing, DatabaseLocked, WaitersReturn, KeyOfFile
  <2> QED
    BY <2>4, <2>5 DEF LifeInv
<1>3. ASSUME NEW saved \in BOOLEAN, StartConstructs(saved) PROVE LifeInv'
  <2>1. PICK built \in SUBSET Services, failed \in Services, left \in SUBSET Services :
            /\ openDataDir(saved, IF failed \in svc.open THEN 0 ELSE 1)
            /\ svc' = [svc EXCEPT !.open = svc.open \cup built \cup left] /\ UNCHANGED <<node, wait>>
    <3>1. PICK built \in SUBSET Services, failed \in Services :
              /\ openDataDir(saved, IF failed \in svc.open THEN 0 ELSE 1)
              /\ \E left \in SUBSET ({failed} \cap {"cpc"}) : svc' = [svc EXCEPT !.open = svc.open \cup built \cup left]
              /\ UNCHANGED <<node, wait>>
      BY <1>3 DEF StartConstructs
    <3>2. PICK left \in SUBSET ({failed} \cap {"cpc"}) : svc' = [svc EXCEPT !.open = svc.open \cup built \cup left]
      BY <3>1
    <3>3. left \in SUBSET Services
      BY NodeAssumption
    <3> QED
      BY <3>1, <3>2, <3>3
  <2>2. svc.open \cup built \cup left \in SUBSET Services
    BY <1>1
  <2>3. svc' \in [open : SUBSET Services, running : SUBSET Services] /\ svc'.running = svc.running
    BY <1>1, <2>1, <2>2
  <2>4. PICK f \in {0, 1} : openDataDir(saved, f)
    BY <2>1
  <2> QED
    BY <1>1, <2>1, <2>3, <2>4, StartFailsKeeps
<1>4. ASSUME NEW saved \in BOOLEAN, StartServerFails(saved) PROVE LifeInv'
  <2>1. openDataDir(saved, 1) /\ svc' = [svc EXCEPT !.open = Services] /\ UNCHANGED <<node, wait>>
    BY <1>4 DEF StartServerFails
  <2>2. svc' \in [open : SUBSET Services, running : SUBSET Services] /\ svc'.running = svc.running
    BY <1>1, <2>1
  <2> QED
    BY <1>1, <2>1, <2>2, StartFailsKeeps
<1>5. ASSUME NEW saved \in BOOLEAN, StartServiceFails(saved) PROVE LifeInv'
  <2>1. PICK started : /\ openDataDir(saved, 1) /\ svc' = [svc EXCEPT !.open = Services \ started]
                       /\ node' = [node EXCEPT !.mux = StopsMux(started, node.mux)] /\ wait' = wait
    BY <1>5 DEF StartServiceFails
  <2>2. svc' \in [open : SUBSET Services, running : SUBSET Services] /\ svc'.running = svc.running
    BY <1>1, <2>1
  <2>3. StopsMux(started, node.mux) \in {"up", "stopped"}
    BY <1>1 DEF NodeRecords, StopsMux
  <2>4. node' \in NodeRecords /\ node'.server = node.server /\ node'.p2p = node.p2p /\ node'.up = node.up
    BY <1>1, <2>1, <2>3 DEF NodeRecords
  <2> QED
    BY <2>1, <2>2, <2>4, StartFailsKeeps
<1>6. ASSUME NEW saved \in BOOLEAN, StartRPCFails(saved) PROVE LifeInv'
  <2>1. PICK i \in 0 .. 3 :
            /\ openDataDir(saved, IF Openable(Endpoints[i + 1]) THEN 1 ELSE 0) /\ UNCHANGED <<svc, wait>>
            /\ node' = [node EXCEPT !.up = (node.up \cup (Upto(i) \cap node.want)) \ Upto(i),
                                    !.mux = StopsMux(Services, node.mux)]
    BY <1>6 DEF StartRPCFails, ClosedAgain
  <2>2. PICK u, m : u = (node.up \cup (Upto(i) \cap node.want)) \ Upto(i) /\ m = StopsMux(Services, node.mux)
    OBVIOUS
  <2>3. u \subseteq node.up /\ m \in {"up", "stopped"} /\ node.up \in SUBSET Ends
    BY <1>1, <2>2 DEF StopsMux, NodeRecords
  <2>4. node' \in NodeRecords /\ node'.server = node.server /\ node'.p2p = node.p2p /\ node'.up = u
    BY <1>1, <2>1, <2>2, <2>3 DEF NodeRecords
  <2>5. PICK f \in {0, 1} : openDataDir(saved, f)
    BY <2>1
  <2> QED
    BY <1>1, <2>1, <2>3, <2>4, <2>5, StartFailsKeeps
<1>7. ASSUME NEW saved \in BOOLEAN, StartSucceeds(saved) PROVE LifeInv'
  <2>1. /\ openDataDir(saved, 0) /\ svc' = [open |-> Services, running |-> Services] /\ wait' = wait
        /\ node' = [node EXCEPT !.server = TRUE, !.p2p = TRUE, !.up = node.up \cup node.want,
                                !.apis = TRUE, !.quitCh = nodeHist.starts + 1]
    BY <1>7 DEF StartSucceeds
  <2>2. /\ ~node.server
        /\ dir' \in [lock : Locks, file : Nat] /\ dir'.lock = "us"
        /\ nodeHist' \in HistRecords /\ nodeHist'.closed = nodeHist.closed /\ nodeHist'.late = nodeHist.late
        /\ KeyOfFile'
    BY <2>1, DirOpened
  <2>3. node.up \cup node.want \in SUBSET Ends /\ nodeHist.starts + 1 \in Nat
    BY <1>1 DEF NodeRecords, HistRecords
  <2>4. node' \in NodeRecords /\ node'.server /\ node'.p2p /\ node'.apis
    BY <1>1, <2>1, <2>3 DEF NodeRecords
  <2>5. LifeTypes'
    BY <2>1, <2>2, <2>4 DEF LifeInv, LifeTypes
  <2>6. NodeTypeOK' /\ StoppedServesNothing' /\ DatabaseLocked'
    BY <2>1, <2>2, <2>4 DEF NodeTypeOK, StoppedServesNothing, DatabaseLocked
  <2>7. WaitersReturn'
    BY <2>1, <2>2 DEF LifeInv, WaitersReturn
  <2> QED
    BY <2>2, <2>5, <2>6, <2>7 DEF LifeInv
<1> QED
  BY <1>2, <1>3, <1>4, <1>5, <1>6, <1>7 DEF Start

\* Stop closes the channel that the waiters of this run hold, and frees the directory.
LEMMA StopKeeps == ASSUME LifeInv, Stop PROVE LifeInv'
<1>1. /\ node \in NodeRecords /\ node.quitCh \in Nat /\ dir \in [lock : Locks, file : Nat]
      /\ nodeHist \in HistRecords /\ nodeHist.closed \in SUBSET Nat
  BY DEF LifeInv, LifeTypes, NodeRecords, HistRecords
<1>2. PICK m, k : m = StopsMux(Services, node.mux) /\ k = nodeHist.closed \cup {node.quitCh}
  OBVIOUS
<1>3. m \in {"up", "stopped"} /\ k \in SUBSET Nat
  BY <1>1, <1>2 DEF StopsMux, NodeRecords
<1>4. /\ node' = [node EXCEPT !.server = FALSE, !.p2p = FALSE, !.up = {}, !.apis = FALSE, !.mux = m]
      /\ svc' = [open |-> {}, running |-> {}] /\ dir' = [dir EXCEPT !.lock = "free"]
      /\ nodeHist' = [nodeHist EXCEPT !.closed = k] /\ wait' = wait /\ node.server
  BY <1>2 DEF Stop, StopServices, Closing
<1>5. node' \in NodeRecords /\ ~node'.server /\ ~node'.p2p /\ node'.up = {}
  BY <1>1, <1>3, <1>4 DEF NodeRecords
<1>6. /\ nodeHist' \in HistRecords /\ nodeHist'.closed = k /\ nodeHist'.ids = nodeHist.ids
      /\ nodeHist'.damaged = nodeHist.damaged
  BY <1>1, <1>3, <1>4 DEF HistRecords
<1>7. dir' \in [lock : Locks, file : Nat] /\ dir'.file = dir.file
  BY <1>1, <1>4 DEF Locks
<1>8. LifeTypes'
  BY <1>4, <1>5, <1>6, <1>7 DEF LifeInv, LifeTypes
<1>9. NodeTypeOK' /\ StoppedServesNothing' /\ DatabaseLocked' /\ KeyOfFile'
  BY <1>4, <1>5, <1>6, <1>7 DEF LifeInv, NodeTypeOK, StoppedServesNothing, DatabaseLocked, KeyOfFile
<1>10. WaitersReturn'
  BY <1>2, <1>4, <1>6 DEF LifeInv, WaitersReturn
<1> QED
  BY <1>8, <1>9, <1>10 DEF LifeInv

\* A waiter takes the channel of the run that is on, and goes when that is closed.
LEMMA WaitersKeep == ASSUME LifeInv, NEW w \in Waiters, Wait(w) \/ WaitReturns(w) PROVE LifeInv'
<1>1. node.quitCh \in Nat /\ wait \in [Waiters -> Nat]
  BY DEF LifeInv, LifeTypes, NodeRecords
<1>2. PICK k \in Nat : wait' = [wait EXCEPT ![w] = k] /\ (k # 0 => node.server /\ k = node.quitCh)
  BY <1>1 DEF Wait, WaitReturns
<1>3. UNCHANGED <<node, dir, svc, nodeHist>>
  BY DEF Wait, WaitReturns
<1>4. LifeTypes'
  BY <1>1, <1>2, <1>3 DEF LifeInv, LifeTypes
<1>5. NodeTypeOK' /\ StoppedServesNothing' /\ DatabaseLocked' /\ KeyOfFile'
  BY <1>3 DEF LifeInv, NodeTypeOK, StoppedServesNothing, DatabaseLocked, KeyOfFile
<1>6. WaitersReturn'
  BY <1>1, <1>2, <1>3 DEF LifeInv, WaitersReturn
<1> QED
  BY <1>4, <1>5, <1>6 DEF LifeInv

\* A node whose other fields are given the values they have.
LEMMA SameNode ==
    ASSUME NEW r \in NodeRecords, NEW x
    PROVE  /\ [r EXCEPT !.asked = x] = [r EXCEPT !.asked = x, !.up = r.up, !.want = r.want]
           /\ [r EXCEPT !.up = x] = [r EXCEPT !.asked = r.asked, !.up = x, !.want = r.want]
<1>1. [r EXCEPT !.asked = x] = [r EXCEPT !.asked = x, !.up = r.up, !.want = r.want]
  BY DEF NodeRecords
<1>2. [r EXCEPT !.up = x] = [r EXCEPT !.asked = r.asked, !.up = x, !.want = r.want]
  BY DEF NodeRecords
<1> QED
  BY <1>1, <1>2

\* The endpoints that users open and close: the one that is opened on a node that has been
\* stopped meanwhile is the exception the property names.
LEMMA EndpointsKeep ==
    ASSUME LifeInv, NEW e \in {"http", "ws"}, AskEndpoint(e) \/ StartEndpoint(e) \/ StopEndpoint(e)
    PROVE  LifeInv'
<1>1. /\ node \in NodeRecords /\ node.up \in SUBSET Ends /\ node.want \in SUBSET Ends
      /\ node.asked \in SUBSET {"http", "ws"} /\ nodeHist \in HistRecords /\ e \in Ends
      /\ nodeHist.late \in BOOLEAN /\ node.server \in BOOLEAN
  BY DEF LifeInv, LifeTypes, NodeRecords, HistRecords, Ends
<1>2. PICK u \in SUBSET Ends, n \in SUBSET Ends, a \in SUBSET {"http", "ws"}, l \in BOOLEAN :
          /\ node' = [node EXCEPT !.asked = a, !.up = u, !.want = n]
          /\ nodeHist' = [nodeHist EXCEPT !.late = l]
          /\ nodeHist.late => l
          /\ ~node.server => u \subseteq node.up \/ (l /\ u \subseteq node.up \cup {"http", "ws"})
  <2>1. /\ node = [node EXCEPT !.asked = node.asked, !.up = node.up, !.want = node.want]
        /\ nodeHist = [nodeHist EXCEPT !.late = nodeHist.late]
    BY <1>1 DEF NodeRecords, HistRecords
  <2>2. PICK u0 \in SUBSET Ends, n0 \in SUBSET Ends, l0 \in BOOLEAN :
            u0 = node.up /\ n0 = node.want /\ l0 = nodeHist.late
    BY <1>1
  <2>3. CASE AskEndpoint(e)
    <3>1. PICK a \in SUBSET {"http", "ws"} : a = node.asked \cup {e}
      BY <1>1
    <3>2. node' = [node EXCEPT !.asked = a, !.up = u0, !.want = n0] /\ nodeHist' = [nodeHist EXCEPT !.late = l0]
      <4>1. node' = [node EXCEPT !.asked = a] /\ nodeHist' = nodeHist
        BY <2>3, <3>1 DEF AskEndpoint
      <4> QED
        BY <1>1, <2>1, <2>2, <4>1, SameNode
    <3>3. (nodeHist.late => l0) /\ u0 \subseteq node.up
      BY <2>2
    <3> QED
      BY <3>2, <3>3
  <2>4. CASE StartEndpoint(e)
    <3>1. PICK a \in SUBSET {"http", "ws"} : a = node.asked \ {e}
      BY <1>1
    <3>2. PICK u \in SUBSET Ends, n \in SUBSET Ends : u = node.up \cup {e} /\ n = node.want \cup {e}
      BY <1>1
    <3>3. PICK l \in BOOLEAN : l = (nodeHist.late \/ ~node.server)
      OBVIOUS
    <3>4. CASE /\ node' = [node EXCEPT !.asked = @ \ {e}, !.up = @ \cup {e}, !.want = @ \cup {e}]
               /\ nodeHist' = [nodeHist EXCEPT !.late = @ \/ ~node.server]
      <4>1. node' = [node EXCEPT !.asked = a, !.up = u, !.want = n]
        BY <1>1, <3>1, <3>2, <3>4 DEF NodeRecords
      <4>2. nodeHist' = [nodeHist EXCEPT !.late = l]
        BY <3>3, <3>4
      <4>3. (nodeHist.late => l) /\ (~node.server => l) /\ u \subseteq node.up \cup {"http", "ws"}
        BY <3>2, <3>3
      <4> QED
        BY <4>1, <4>2, <4>3
    <3>5. CASE node' = [node EXCEPT !.asked = @ \ {e}] /\ nodeHist' = nodeHist
      <4>1. node' = [node EXCEPT !.asked = a, !.up = u0, !.want = n0] /\ nodeHist' = [nodeHist EXCEPT !.late = l0]
        <5>1. node' = [node EXCEPT !.asked = a] /\ nodeHist' = nodeHist
          BY <3>1, <3>5
        <5> QED
          BY <1>1, <2>1, <2>2, <5>1, SameNode
      <4>2. (nodeHist.late => l0) /\ u0 \subseteq node.up
        BY <2>2
      <4> QED
        BY <4>1, <4>2
    <3> QED
      BY <2>4, <3>4, <3>5 DEF StartEndpoint
  <2>5. CASE StopEndpoint(e)
    <3>1. PICK u \in SUBSET Ends : u = node.up \ {e}
      BY <1>1
    <3>2. PICK a \in SUBSET {"http", "ws"} : a = node.asked
      BY <1>1
    <3>3. node' = [node EXCEPT !.asked = a, !.up = u, !.want = n0] /\ nodeHist' = [nodeHist EXCEPT !.late = l0]
      <4>1. node' = [node EXCEPT !.up = u] /\ nodeHist' = nodeHist
        BY <2>5, <3>1 DEF StopEndpoint
      <4> QED
        BY <1>1, <2>1, <2>2, <3>2, <4>1, SameNode
    <3>4. (nodeHist.late => l0) /\ u \subseteq node.up
      BY <2>2, <3>1
    <3> QED
      BY <3>3, <3>4
  <2> QED
    BY <2>3, <2>4, <2>5
<1>3. UNCHANGED <<dir, svc, wait>>
  BY DEF AskEndpoint, StartEndpoint, StopEndpoint
<1>4. /\ node' \in NodeRecords /\ node'.server = node.server /\ node'.p2p = node.p2p /\ node'.apis = node.apis
      /\ node'.quitCh = node.quitCh /\ node'.up = u
  BY <1>1, <1>2 DEF NodeRecords
<1>5. /\ nodeHist' \in HistRecords /\ nodeHist'.closed = nodeHist.closed /\ nodeHist'.late = l
      /\ nodeHist'.ids = nodeHist.ids /\ nodeHist'.damaged = nodeHist.damaged
  BY <1>1, <1>2 DEF HistRecords
<1>6. LifeTypes'
  BY <1>3, <1>4, <1>5 DEF LifeInv, LifeTypes
<1>7. NodeTypeOK' /\ DatabaseLocked' /\ WaitersReturn' /\ KeyOfFile'
  BY <1>3, <1>4, <1>5 DEF LifeInv, NodeTypeOK, DatabaseLocked, WaitersReturn, KeyOfFile
<1>8. StoppedServesNothing'
  <2> SUFFICES ASSUME ~node.server PROVE u \subseteq (IF l THEN {"http", "ws"} ELSE {})
    BY <1>4, <1>5 DEF StoppedServesNothing
  <2>1. node.up \subseteq (IF nodeHist.late THEN {"http", "ws"} ELSE {})
    BY DEF LifeInv, StoppedServesNothing
  <2>2. CASE l
    BY <1>2, <2>1, <2>2
  <2>3. CASE ~l
    BY <1>2, <2>1, <2>3
  <2> QED
    BY <2>2, <2>3
<1> QED
  BY <1>6, <1>7, <1>8 DEF LifeInv

\* The process ends and another takes its place; another process uses the directory.
LEMMA ProcessesKeep == ASSUME LifeInv, NodeCrash \/ OtherProcess PROVE LifeInv'
<1>1. /\ dir \in [lock : Locks, file : Nat] /\ nodeHist \in HistRecords /\ nodeHist.faults \in Nat
  BY DEF LifeInv, LifeTypes, HistRecords
<1>2. CASE NodeCrash
  <2>1. PICK k, f : k = (IF dir.lock = "us" THEN "free" ELSE dir.lock) /\ f = nodeHist.faults + 1
    OBVIOUS
  <2>2. k \in Locks /\ f \in Nat
    BY <1>1, <2>1 DEF Locks
  <2>3. /\ dir' = [dir EXCEPT !.lock = k]
        /\ nodeHist' = [nodeHist EXCEPT !.faults = f, !.late = FALSE, !.closed = {}]
        /\ node' = NewNode /\ svc' = [open |-> {}, running |-> {}] /\ wait' = [w \in Waiters |-> 0]
    BY <1>2, <2>1 DEF NodeCrash
  <2>4. dir' \in [lock : Locks, file : Nat] /\ dir'.file = dir.file
    BY <1>1, <2>2, <2>3
  <2>5. nodeHist' \in HistRecords /\ nodeHist'.ids = nodeHist.ids /\ nodeHist'.damaged = nodeHist.damaged
    BY <1>1, <2>2, <2>3 DEF HistRecords
  <2>6. node' \in NodeRecords /\ ~node'.server /\ ~node'.p2p /\ node'.up = {}
    BY <2>3 DEF NewNode, NodeRecords, Ends
  <2>7. LifeTypes'
    BY <2>3, <2>4, <2>5, <2>6 DEF LifeTypes
  <2>8. NodeTypeOK' /\ StoppedServesNothing' /\ DatabaseLocked' /\ WaitersReturn' /\ KeyOfFile'
    BY <2>3, <2>4, <2>5, <2>6
       DEF LifeInv, NodeTypeOK, StoppedServesNothing, DatabaseLocked, WaitersReturn, KeyOfFile
  <2> QED
    BY <2>7, <2>8 DEF LifeInv
<1>3. CASE OtherProcess
  <2>1. PICK k \in Locks : dir' = [dir EXCEPT !.lock = k] /\ dir.lock # "us"
    BY <1>3 DEF OtherProcess, Locks
  <2>2. UNCHANGED <<node, svc, wait, nodeHist>>
    BY <1>3 DEF OtherProcess
  <2>3. dir' \in [lock : Locks, file : Nat] /\ dir'.file = dir.file
    BY <1>1, <2>1
  <2>4. LifeTypes'
    BY <2>2, <2>3 DEF LifeInv, LifeTypes
  <2>5. svc.open = {}
    BY <2>1 DEF LifeInv, DatabaseLocked
  <2>6. NodeTypeOK' /\ StoppedServesNothing' /\ DatabaseLocked' /\ WaitersReturn' /\ KeyOfFile'
    BY <2>2, <2>3, <2>5
       DEF LifeInv, NodeTypeOK, StoppedServesNothing, DatabaseLocked, WaitersReturn, KeyOfFile
  <2> QED
    BY <2>4, <2>6 DEF LifeInv
<1> QED
  BY <1>2, <1>3

\* Every step of the node keeps the invariant.
LEMMA LifeStep == LifeInv /\ [NodeNext]_nodeVars => LifeInv'
<1> SUFFICES ASSUME LifeInv, [NodeNext]_nodeVars PROVE LifeInv'
  OBVIOUS
<1>1. CASE Start
  BY <1>1, StartKeeps
<1>2. CASE Stop
  BY <1>2, StopKeeps
<1>3. CASE NodeCrash \/ OtherProcess
  BY <1>3, ProcessesKeep
<1>4. ASSUME NEW w \in Waiters, Wait(w) \/ WaitReturns(w) PROVE LifeInv'
  BY <1>4, WaitersKeep
<1>5. ASSUME NEW e \in {"http", "ws"}, AskEndpoint(e) \/ StartEndpoint(e) \/ StopEndpoint(e) PROVE LifeInv'
  BY <1>5, EndpointsKeep
<1>6. CASE UNCHANGED nodeVars
  BY <1>6 DEF nodeVars, LifeInv, LifeTypes, NodeTypeOK, StoppedServesNothing, DatabaseLocked, WaitersReturn, KeyOfFile
<1> QED
  BY <1>1, <1>2, <1>3, <1>4, <1>5, <1>6 DEF NodeNext

\* In every reachable state a node has a server exactly while its services run, a stopped
\* node serves nothing but an endpoint opened late, no database is open without the lock of
\* the directory, and every waiter holds the channel of this run or a closed one: for any
\* set of services and waiters, and any number of starts and failures.
THEOREM NodeLife ==
    NodeInit /\ [][NodeNext]_nodeVars => [](NodeTypeOK /\ StoppedServesNothing /\ DatabaseLocked /\ WaitersReturn)
<1>1. LifeInv => NodeTypeOK /\ StoppedServesNothing /\ DatabaseLocked /\ WaitersReturn
  BY DEF LifeInv
<1> QED
  BY <1>1, LifeInitially, LifeStep, PTL

\* The node has one identity over all its starts, unless a new key could not be written.
THEOREM IdentityIsKept == NodeInit /\ [][NodeNext]_nodeVars => []IdentityKept
<1>1. ASSUME LifeInv PROVE IdentityKept
  <2> SUFFICES ASSUME ~nodeHist.damaged PROVE Cardinality(nodeHist.ids) <= 1
    BY DEF IdentityKept
  <2>1. nodeHist.ids \subseteq {dir.file}
    BY <1>1 DEF LifeInv, KeyOfFile
  <2>2. CASE nodeHist.ids = {}
    BY <2>2, FS_EmptySet
  <2>3. CASE nodeHist.ids = {dir.file}
    <3>1. Cardinality({dir.file}) = 1
      BY FS_Singleton, Zenon
    <3> QED
      BY <2>3, <3>1
  <2> QED
    BY <2>1, <2>2, <2>3
<1> QED
  BY <1>1, LifeInitially, LifeStep, PTL
=============================================================================
