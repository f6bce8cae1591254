------------------------------ MODULE Keystore ------------------------------
(* accounts and accounts/keystore.  The first half follows the key files: the   *)
(* directory, the scans of it (file_cache.go, account_cache.go), the watcher    *)
(* (watch.go), the operations that add and delete keys (keystore.go) and the    *)
(* wallet events that reach the account manager (manager.go).  The second half  *)
(* follows one key in memory: unlocking, its expiry, signing, and the rewriting *)
(* of its file.                                                                 *)
EXTENDS Integers, Sequences, FiniteSets, SequencesExt

CONSTANTS Paths,                 \* key files, numbered in the order of their URLs
          Addresses, First, FirstPath,  \* addresses, and the key that is there at first
          Workers,               \* goroutines that call the keystore; the updater is one more
          Others,                \* what others may write to the directory
          MaxOps, MaxExternal    \* operations, and changes of the directory by others

VARIABLES files,    \* of each path: [addr, mod]: the key in it, and when it was written
          fileC,    \* fileCache: [all, lastMod]
          acache,   \* accountCache.all: accounts [addr, path]
          watch,    \* watcher: [state, ev]: does it watch, and does an event wait
          scans,    \* of each goroutine: its scan of the directory
          procs,    \* of each goroutine: where it is
          ksmu,     \* who holds ks.mu
          wallets,  \* ks.wallets
          mgr,      \* the manager: [updates, wallets]
          krun      \* counters, and what happened: [ops, external, clock, missed, crossed, used]
keyVars == <<files, fileC, acache, watch, scans, procs, ksmu, wallets, mgr, krun>>

Updater == "updater"
Watcher == "watcher"
Procs == Workers \cup {Updater}
Scanners == Procs \cup {Watcher}
Gone == [addr |-> "none", mod |-> 0]
NoScan == [pc |-> "no", list |-> {}, creates |-> {}, deletes |-> {}, updates |-> {}, cur |-> 0, hand |-> {}]
NoProc == [pc |-> "idle", path |-> 0, addr |-> "none", scanned |-> FALSE, events |-> <<>>]
\* After NewKeyStore, which has scanned the directory once and started the watcher, and NewManager.
KeyInit ==
    /\ files = [p \in Paths |-> IF p = FirstPath THEN [addr |-> First, mod |-> 1] ELSE Gone]
    /\ acache = {[addr |-> First, path |-> FirstPath]}
    /\ fileC = [all |-> {FirstPath}, lastMod |-> 1]
    /\ watch = [state |-> "starting", ev |-> FALSE]
    /\ scans = [s \in Scanners |-> NoScan] /\ procs = [p \in Procs |-> NoProc]
    /\ ksmu = "free" /\ wallets = acache
    /\ mgr = [updates |-> <<>>, wallets |-> SetToSeq(acache)]
    /\ krun = [ops |-> 0, external |-> 0, clock |-> 1, missed |-> FALSE, crossed |-> FALSE, used |-> {FirstPath}]
-----------------------------------------------------------------------------
\* readAccount: what a scan can read of the directory, files that hold a key.
Readable(p) == files[p].addr \in Addresses
Account(p) == [addr |-> files[p].addr, path |-> p]
\* A change of the directory: the watcher is told, once it watches.
Write(p, f) ==
    /\ files' = [files EXCEPT ![p] = f]
    /\ watch' = [watch EXCEPT !.ev = @ \/ watch.state = "running"]
Stamp(a) == [addr |-> a, mod |-> krun.clock + 1]
\* A scan begins while another is under way.
Scanning == {s \in Scanners : scans[s].pc # "no"}
Overlap == [krun EXCEPT !.missed = @ \/ Scanning # {}]
-----------------------------------------------------------------------------
(* scanAccounts, of goroutine s *)
\* fileCache.scan lists the directory before it takes its lock.
ScanList(s) ==
    /\ scans[s].pc = "list"
    /\ scans' = [scans EXCEPT ![s].pc = "diff", ![s].list = {[path |-> p, mod |-> files[p].mod] :
                                                              p \in {q \in Paths : files[q].addr # "none"}}]
    /\ UNCHANGED <<files, fileC, acache, watch, procs, ksmu, wallets, mgr, krun>>
ListedAccounts(s) == {f.path : f \in scans[s].list}
LastMod(s) == IF scans[s].list = {} THEN 0
              ELSE CHOOSE m \in {f.mod : f \in scans[s].list} : \A f \in scans[s].list : f.mod <= m
Mods(s) == {f.path : f \in {g \in scans[s].list : g.mod > fileC.lastMod}}
ScanDiff(s) ==
    /\ scans[s].pc = "diff"
    /\ LET creates == ListedAccounts(s) \ fileC.all
           deletes == fileC.all \ ListedAccounts(s)
           updates == Mods(s) \ creates
       IN scans' = [scans EXCEPT ![s] = IF creates \cup deletes \cup updates = {} THEN NoScan
              ELSE [NoScan EXCEPT !.pc = "items", !.creates = creates, !.deletes = deletes, !.updates = updates]]
    /\ fileC' = [all |-> ListedAccounts(s), lastMod |-> LastMod(s)]
    /\ UNCHANGED <<files, acache, watch, procs, ksmu, wallets, mgr, krun>>
\* readAccount, of a created file; of an updated one after deleteByFile.
ReadAccount(s, p) ==
    scans' = [scans EXCEPT ![s].pc = "add", ![s].hand = IF Readable(p) THEN {Account(p)} ELSE {},
                           ![s].creates = @ \ {p}, ![s].cur = 0]
ScanCreate(s) ==
    /\ scans[s].pc = "items"
    /\ \E p \in scans[s].creates : ReadAccount(s, p)
    /\ UNCHANGED <<files, fileC, acache, watch, procs, ksmu, wallets, mgr, krun>>
ScanDelete(s) ==
    /\ scans[s].pc = "items" /\ scans[s].creates = {}
    /\ \E p \in scans[s].deletes :
          /\ acache' = {a \in acache : a.path # p}
          /\ scans' = [scans EXCEPT ![s].deletes = @ \ {p}]
    /\ UNCHANGED <<files, fileC, watch, procs, ksmu, wallets, mgr, krun>>
ScanUpdate(s) ==
    /\ scans[s].pc = "items" /\ scans[s].creates \cup scans[s].deletes = {}
    /\ \E p \in scans[s].updates :
          /\ acache' = {a \in acache : a.path # p}
          /\ scans' = [scans EXCEPT ![s].pc = "reread", ![s].cur = p, ![s].updates = @ \ {p}]
    /\ UNCHANGED <<files, fileC, watch, procs, ksmu, wallets, mgr, krun>>
ScanReread(s) ==
    /\ scans[s].pc = "reread" /\ ReadAccount(s, scans[s].cur)
    /\ UNCHANGED <<files, fileC, acache, watch, procs, ksmu, wallets, mgr, krun>>
ScanAdd(s) ==
    /\ scans[s].pc = "add" /\ acache' = acache \cup scans[s].hand
    /\ scans' = [scans EXCEPT ![s].pc = "items", ![s].hand = {}]
    /\ UNCHANGED <<files, fileC, watch, procs, ksmu, wallets, mgr, krun>>
ScanDone(s) ==
    /\ scans[s].pc = "items" /\ scans[s].creates \cup scans[s].deletes \cup scans[s].updates = {}
    /\ scans' = [scans EXCEPT ![s] = NoScan]
    /\ UNCHANGED <<files, fileC, acache, watch, procs, ksmu, wallets, mgr, krun>>
Scan(s) == \/ ScanList(s) \/ ScanDiff(s) \/ ScanCreate(s) \/ ScanDelete(s) \/ ScanUpdate(s)
           \/ ScanReread(s) \/ ScanAdd(s) \/ ScanDone(s)
-----------------------------------------------------------------------------
(* the watcher *)
WatchBegins ==
    /\ watch.state = "starting" /\ watch' = [watch EXCEPT !.state = "running"]
    /\ UNCHANGED <<files, fileC, acache, scans, procs, ksmu, wallets, mgr, krun>>
WatchFails ==
    /\ watch.state = "starting" /\ watch' = [watch EXCEPT !.state = "off"]
    /\ UNCHANGED <<files, fileC, acache, scans, procs, ksmu, wallets, mgr, krun>>
\* Some time after an event it scans; events that come during the scan make it scan again.
Rescan ==
    /\ watch.state = "running" /\ watch.ev /\ scans[Watcher].pc = "no"
    /\ watch' = [watch EXCEPT !.ev = FALSE]
    /\ scans' = [scans EXCEPT ![Watcher].pc = "list"] /\ krun' = Overlap
    /\ UNCHANGED <<files, fileC, acache, procs, ksmu, wallets, mgr>>
-----------------------------------------------------------------------------
(* maybeReload *)
\* No watcher runs, and the timer has fired: the caller starts one, and scans.
Reload(p) ==
    /\ procs[p].pc \in {"has", "find", "refresh"} /\ ~procs[p].scanned /\ watch.state # "running"
    /\ IF procs[p].pc = "refresh" THEN ksmu = "free" /\ ksmu' = p ELSE UNCHANGED ksmu
    /\ watch' = [watch EXCEPT !.state = "starting"]
    /\ scans' = [scans EXCEPT ![p].pc = "list"] /\ krun' = Overlap
    /\ procs' = [procs EXCEPT ![p].scanned = TRUE]
    /\ UNCHANGED <<files, fileC, acache, wallets, mgr>>
KeyGoes(p, pc) == procs' = [procs EXCEPT ![p].pc = pc, ![p].scanned = FALSE]
At(p, pc) == procs[p].pc = pc /\ scans[p].pc = "no"
-----------------------------------------------------------------------------
(* operations *)
BeginKey(p, path, a, pc) ==
    /\ p \in Workers /\ procs[p] = NoProc /\ krun.ops < MaxOps /\ path \notin krun.used
    /\ procs' = [procs EXCEPT ![p] = [NoProc EXCEPT !.path = path, !.addr = a, !.pc = pc]]
    /\ krun' = [krun EXCEPT !.ops = @ + 1, !.used = @ \cup ({path} \ {0})]
    /\ UNCHANGED <<files, fileC, acache, watch, scans, ksmu, wallets, mgr>>
\* NewAccount, Import: the key is stored under a new name (it has the time in it).  ImportECDSA looks it up first.
NewAccount(p, path, a) == BeginKey(p, path, a, "store")
ImportECDSA(p, path, a) == BeginKey(p, path, a, "has")
Delete(p, a) == BeginKey(p, 0, a, "find")
HasAddress(p) ==
    /\ At(p, "has")
    /\ procs' = [procs EXCEPT ![p] = IF {a \in acache : a.addr = @.addr} # {} THEN NoProc
                                     ELSE [@ EXCEPT !.pc = "store", !.scanned = FALSE]]
    /\ UNCHANGED <<files, fileC, acache, watch, scans, ksmu, wallets, mgr, krun>>
\* writeKeyFile: the rename puts the whole file in place.
StoreKey(p) ==
    /\ At(p, "store") /\ files[procs[p].path] = Gone
    /\ Write(procs[p].path, Stamp(procs[p].addr)) /\ krun' = [krun EXCEPT !.clock = @ + 1]
    /\ KeyGoes(p, "add")
    /\ UNCHANGED <<fileC, acache, scans, ksmu, wallets, mgr>>
CacheAdd(p) ==
    /\ At(p, "add") /\ acache' = acache \cup {[addr |-> procs[p].addr, path |-> procs[p].path]}
    /\ KeyGoes(p, "refresh")
    /\ UNCHANGED <<files, fileC, watch, scans, ksmu, wallets, mgr, krun>>
\* accountCache.find by address: there must be one match; then the key is read.
Matches(a) == {x \in acache : x.addr = a}
\* GetKey: the file must be there, and be of that address.
GetKey(path, a) == files[path].addr = a
FindKey(p) ==
    /\ At(p, "find")
    /\ procs' = [procs EXCEPT ![p] =
          IF Cardinality(Matches(@.addr)) # 1 THEN NoProc
          ELSE LET path == (CHOOSE x \in Matches(@.addr) : TRUE).path
               IN IF GetKey(path, @.addr) THEN [@ EXCEPT !.pc = "remove", !.path = path, !.scanned = FALSE] ELSE NoProc]
    /\ UNCHANGED <<files, fileC, acache, watch, scans, ksmu, wallets, mgr, krun>>
CacheWithout(a) == acache \ {a}
RemoveFile(p) ==
    /\ At(p, "remove")
    /\ IF files[procs[p].path].addr # "none"
       THEN Write(procs[p].path, Gone) /\ KeyGoes(p, "drop")
       ELSE procs' = [procs EXCEPT ![p] = NoProc] /\ UNCHANGED <<files, watch>>
    /\ UNCHANGED <<fileC, acache, scans, ksmu, wallets, mgr, krun>>
CacheDelete(p) ==
    /\ At(p, "drop") /\ acache' = CacheWithout([addr |-> procs[p].addr, path |-> procs[p].path])
    /\ KeyGoes(p, "refresh")
    /\ UNCHANGED <<files, fileC, watch, scans, ksmu, wallets, mgr, krun>>
-----------------------------------------------------------------------------
(* refreshWallets *)
\* The new list: wallets of accounts that stay, and of those at a path that had none.
NewWallets == {a \in acache : a \in wallets \/ \A w \in wallets : w.path # a.path}
Events == SetToSortSeq({[kind |-> "dropped", wallet |-> w] : w \in wallets \ NewWallets}
                           \cup {[kind |-> "arrived", wallet |-> w] : w \in NewWallets \ wallets},
                       LAMBDA e, f : e.wallet.path < f.wallet.path)
Sending == {p \in Procs : procs[p].events # <<>>}
RefreshWallets(p) ==
    /\ At(p, "refresh") /\ ksmu \in {"free", p} /\ ksmu' = "free" /\ wallets' = NewWallets
    /\ procs' = [procs EXCEPT ![p] = [NoProc EXCEPT !.events = Events, !.pc = IF Events = <<>> THEN "idle" ELSE "send"]]
    /\ krun' = [krun EXCEPT !.crossed = @ \/ (Sending # {} /\ Events # <<>>)]
    /\ UNCHANGED <<files, fileC, acache, watch, scans, mgr>>
\* The events are sent after the lock is released.
SendEvent(p) ==
    /\ procs[p].pc = "send"
    /\ mgr' = [mgr EXCEPT !.updates = Append(@, Head(procs[p].events))]
    /\ procs' = [procs EXCEPT ![p] = IF Len(@.events) = 1 THEN NoProc ELSE [@ EXCEPT !.events = Tail(@)]]
    /\ UNCHANGED <<files, fileC, acache, watch, scans, ksmu, wallets, krun>>
\* updater: a change, or three seconds.
Update ==
    /\ procs[Updater] = NoProc
    /\ procs' = [procs EXCEPT ![Updater].pc = "refresh"]
    /\ UNCHANGED <<files, fileC, acache, watch, scans, ksmu, wallets, mgr, krun>>

\* Manager.update: merge and drop look the position up by URL.
Position(list, w) == Cardinality({i \in 1 .. Len(list) : list[i].path < w.path}) + 1
Merge(list, w) == InsertAt(list, Position(list, w), w)
DropWallet(list, w) == IF Position(list, w) > Len(list) THEN list ELSE RemoveAt(list, Position(list, w))
ManagerUpdate ==
    /\ mgr.updates # <<>>
    /\ mgr' = [updates |-> Tail(mgr.updates),
               wallets |-> LET e == Head(mgr.updates)
                           IN IF e.kind = "arrived" THEN Merge(mgr.wallets, e.wallet)
                              ELSE DropWallet(mgr.wallets, e.wallet)]
    /\ UNCHANGED <<files, fileC, acache, watch, scans, procs, ksmu, wallets, krun>>

\* Someone else writes a file into the directory, or removes one.  It is missed when it
\* comes before the watcher watches, or changes a file that an operation is working on or
\* has made and no scan has seen.
External(p, a) ==
    /\ krun.external < MaxExternal /\ files[p].addr # a
    /\ Write(p, IF a = "none" THEN Gone ELSE Stamp(a))
    /\ krun' = [krun EXCEPT !.external = @ + 1, !.clock = @ + 1, !.used = @ \cup {p},
                            !.missed = @ \/ watch.state = "starting" \/ (files[p] # Gone /\ p \notin fileC.all)
                                         \/ p \in {procs[w].path : w \in Workers}]
    /\ UNCHANGED <<fileC, acache, scans, procs, ksmu, wallets, mgr>>

ProcStep(p) == \/ Reload(p) \/ HasAddress(p) \/ StoreKey(p) \/ CacheAdd(p) \/ FindKey(p)
               \/ RemoveFile(p) \/ CacheDelete(p) \/ RefreshWallets(p) \/ SendEvent(p)
KeyNext ==
    \/ \E s \in Scanners : Scan(s)
    \/ WatchBegins \/ WatchFails \/ Rescan \/ Update \/ ManagerUpdate
    \/ \E p \in Procs : ProcStep(p)
    \/ \E p \in Workers, a \in Addresses : \/ Delete(p, a)
                                           \/ \E path \in Paths : NewAccount(p, path, a) \/ ImportECDSA(p, path, a)
    \/ \E p \in Paths, a \in Others : External(p, a)
KeySpec == KeyInit /\ [][KeyNext]_keyVars
-----------------------------------------------------------------------------
\* Only the holder of ks.mu scans in refreshWallets, and the cache holds accounts.
KeyTypeOK ==
    /\ \A p \in Procs : procs[p].pc = "refresh" /\ procs[p].scanned <=> ksmu = p
    /\ \A a \in acache : a.path \in Paths /\ a.addr \in Addresses

\* accountCache: when the watcher runs and has nothing to do, and no operation is under way,
\* the cache is what the directory holds, whatever order the scans, NewAccount, Delete and
\* others' changes came in, unless a change by others was missed, or two scans overlapped.
KeyQuiet == watch.state = "running" /\ ~watch.ev /\ Scanning = {} /\ \A p \in Procs : procs[p].pc \in {"idle", "send"}
\* The cache of a quiet account manager is the directory.
CacheIsDirectory ==
    KeyQuiet /\ ~krun.missed => acache = {Account(p) : p \in {q \in Paths : Readable(q)}}

\* The manager's list is the keystore's once every event has been handled, unless two
\* goroutines sent events at the same time (or a change of a file was missed, as above).
ManagerFollows ==
    Sending = {} /\ mgr.updates = <<>> /\ ~krun.crossed /\ ~krun.missed =>
        /\ ToSet(mgr.wallets) = wallets /\ Len(mgr.wallets) = Cardinality(wallets)
        /\ \A i \in 1 .. Len(mgr.wallets) - 1 : mgr.wallets[i].path < mgr.wallets[i + 1].path

-----------------------------------------------------------------------------
(* One key: its file, and what is in memory of it. *)
CONSTANTS Users,               \* goroutines that use the key
          Passphrases,         \* the first of them is that of the file at first
          FirstPass, Imports,  \* and key files that a user may import
          MaxUnlocks, MaxStores
VARIABLES kfile,    \* the key file: [json, tmp]
          unlocked, \* ks.unlocked: the instance in it, or 0
          keys,     \* the instances: [timed, aborted, expiring, zeroed]: expiring is that of the goroutine in expire
          users,    \* of each user: [pc, cur, json]
          kstores
unlockVars == <<kfile, unlocked, keys, users, kstores>>

\* EncryptKey, and DecryptKey: both versions check the MAC, which the passphrase makes.
EncryptKey(auth) == [version |-> "3", cipher |-> "aes-128-ctr", kdf |-> "scrypt", auth |-> auth, whole |-> TRUE]
getKDFKey(json, auth) == IF json.kdf \in {"scrypt", "pbkdf2"} THEN {auth} ELSE {}
decryptKeyV1(json, auth) == json.auth \in getKDFKey(json, auth)
decryptKeyV3(json, auth) ==
    json.version = "3" /\ json.cipher = "aes-128-ctr" /\ json.auth \in getKDFKey(json, auth)
DecryptKey(json, auth) ==
    json.whole /\ (IF json.version = "1" THEN decryptKeyV1(json, auth) ELSE decryptKeyV3(json, auth))

FreeUser == [pc |-> "idle", cur |-> 0, json |-> {}]
UnlockInit ==
    /\ kfile = [json |-> EncryptKey(FirstPass), tmp |-> {}]
    /\ unlocked = 0 /\ keys = <<>> /\ kstores = 0 /\ users = [u \in Users |-> FreeUser]
Readers == {u \in Users : users[u].pc = "sign"}
Exclusive == Readers = {}
Expiring(timed) == IF timed THEN "timer" ELSE "no"

\* TimedUnlock: the key is decrypted, and then the map is changed under ks.mu.
UnlockRead(u, auth, timed) ==
    /\ users[u].pc = "idle" /\ Len(keys) < MaxUnlocks /\ DecryptKey(kfile.json, auth)
    /\ users' = [users EXCEPT ![u].pc = IF timed THEN "timed" ELSE "forever"]
    /\ UNCHANGED <<kfile, unlocked, keys, kstores>>
TimedUnlock(u) ==
    /\ users[u].pc \in {"timed", "forever"} /\ Exclusive /\ Len(keys) < MaxUnlocks
    /\ users' = [users EXCEPT ![u] = FreeUser]
    /\ IF unlocked # 0 /\ ~keys[unlocked].timed THEN UNCHANGED <<unlocked, keys>>
       ELSE LET timed == users[u].pc = "timed"
            IN /\ keys' = Append([i \in DOMAIN keys |-> IF i = unlocked THEN [keys[i] EXCEPT !.aborted = TRUE] ELSE keys[i]],
                                 [timed |-> timed, aborted |-> FALSE, expiring |-> Expiring(timed), zeroed |-> FALSE])
               /\ unlocked' = Len(keys) + 1
    /\ UNCHANGED <<kfile, kstores>>
\* expire: the key is dropped if it is still the one in the map.
SameKey(i) == unlocked = i
Dropped(i) == IF SameKey(i) THEN 0 ELSE unlocked
DropKey(i) ==
    /\ Exclusive
    /\ keys' = [keys EXCEPT ![i].zeroed = @ \/ SameKey(i), ![i].expiring = "no"]
    /\ unlocked' = Dropped(i)
TimerFires(i) ==
    /\ keys[i].expiring = "timer" /\ keys' = [keys EXCEPT ![i].expiring = "due"]
    /\ UNCHANGED <<kfile, unlocked, users, kstores>>
Expire(i) ==
    /\ keys[i].expiring = "due" /\ DropKey(i) /\ UNCHANGED <<kfile, users, kstores>>
ExpireAborted(i) ==
    /\ keys[i].expiring = "timer" /\ keys[i].aborted
    /\ keys' = [keys EXCEPT ![i].expiring = "no"] /\ UNCHANGED <<kfile, unlocked, users, kstores>>
\* Lock: it looks the key up, releases ks.mu, and lets it expire at once.
LockBegin(u) ==
    /\ users[u].pc = "idle" /\ Exclusive /\ unlocked # 0
    /\ users' = [users EXCEPT ![u].pc = "lock", ![u].cur = unlocked]
    /\ UNCHANGED <<kfile, unlocked, keys, kstores>>
Lock(u) ==
    /\ users[u].pc = "lock"
    /\ LET i == users[u].cur
       IN \/ Exclusive /\ unlocked' = Dropped(i) /\ keys' = [keys EXCEPT ![i].zeroed = @ \/ SameKey(i)]
          \/ keys[i].aborted /\ UNCHANGED <<keys, unlocked>>
    /\ users' = [users EXCEPT ![u] = FreeUser]
    /\ UNCHANGED <<kfile, kstores>>
\* SignHash, SignTx: under the read lock, which a writer that waits comes before.
Due == {i \in DOMAIN keys : keys[i].expiring = "due"}
SignBegin(u) ==
    /\ users[u].pc = "idle" /\ unlocked # 0 /\ Due = {}
    /\ users' = [users EXCEPT ![u].pc = "sign", ![u].cur = unlocked]
    /\ UNCHANGED <<kfile, unlocked, keys, kstores>>
SignHash(u) ==
    /\ users[u].pc = "sign" /\ users' = [users EXCEPT ![u] = FreeUser]
    /\ UNCHANGED <<kfile, unlocked, keys, kstores>>
\* Update, and Import over the file: the new file is written beside it, and renamed.
StoreBegin(u, json) ==
    /\ users[u].pc = "idle" /\ kstores < MaxStores /\ kstores' = kstores + 1
    /\ users' = [users EXCEPT ![u].pc = "write", ![u].json = {json}]
    /\ UNCHANGED <<kfile, unlocked, keys>>
ChangePassphrase(u, auth, new) == DecryptKey(kfile.json, auth) /\ StoreBegin(u, EncryptKey(new))
Import(u, json, auth, new) == DecryptKey(json, auth) /\ StoreBegin(u, EncryptKey(new))
Written(json) == [kfile EXCEPT !.tmp = {json}]
WriteTemp(u) ==
    /\ users[u].pc = "write" /\ kfile' = Written(CHOOSE j \in users[u].json : TRUE)
    /\ users' = [users EXCEPT ![u].pc = "rename"]
    /\ UNCHANGED <<unlocked, keys, kstores>>
Rename(u) ==
    /\ users[u].pc = "rename" /\ kfile' = [json |-> CHOOSE j \in users[u].json : TRUE, tmp |-> {}]
    /\ users' = [users EXCEPT ![u] = FreeUser]
    /\ UNCHANGED <<unlocked, keys, kstores>>
\* The process dies; nothing is unlocked afterwards.
KeyCrash ==
    /\ {u \in Users : users[u].pc \in {"write", "rename"}} # {}
    /\ users' = [u \in Users |-> FreeUser] /\ unlocked' = 0
    /\ keys' = [i \in DOMAIN keys |-> [keys[i] EXCEPT !.expiring = "no", !.zeroed = TRUE]]
    /\ UNCHANGED <<kfile, kstores>>

UnlockNext ==
    \/ \E u \in Users : \/ \E auth \in Passphrases : \/ \E timed \in BOOLEAN : UnlockRead(u, auth, timed)
                                                    \/ \E new \in Passphrases :
                                                           \/ ChangePassphrase(u, auth, new)
                                                           \/ \E json \in Imports : Import(u, json, auth, new)
                       \/ TimedUnlock(u) \/ LockBegin(u) \/ Lock(u) \/ SignBegin(u) \/ SignHash(u)
                       \/ WriteTemp(u) \/ Rename(u)
    \/ (\E i \in DOMAIN keys : TimerFires(i) \/ Expire(i) \/ ExpireAborted(i)) \/ KeyCrash
\* Timers fire, and who has a lock or waits for one goes on.
ExpireSteps == \E i \in DOMAIN keys : TimerFires(i) \/ Expire(i)
UnlockFairness == WF_unlockVars(ExpireSteps) /\ \A u \in Users : WF_unlockVars(SignHash(u))
UnlockSpec == UnlockInit /\ [][UnlockNext]_unlockVars /\ UnlockFairness
-----------------------------------------------------------------------------
\* SignHash and SignTx never use a key that expire or Lock has zeroed.
SignsWithLiveKey == \A u \in Users : users[u].pc = "sign" => ~keys[users[u].cur].zeroed

\* TimedUnlock: "If the address was previously unlocked indefinitely the timeout is not
\* altered": no expiry, started before or after, ends it; only Lock does (or the process).
ForeverStays ==
    [][unlocked # 0 /\ ~keys[unlocked].timed /\ unlocked' # unlocked =>
          KeyCrash \/ \E u \in Users : users[u].pc = "lock" /\ users[u].cur = unlocked]_unlockVars

\* Whatever is interrupted, the file holds the whole key under some passphrase.
KeyNeverLost == \E auth \in Passphrases : DecryptKey(kfile.json, auth)

\* A key that is unlocked for a time is locked again.
TimedIsLocked == \A i \in 1 .. MaxUnlocks : (unlocked = i /\ keys[i].timed) ~> unlocked # i
==============================================================================
