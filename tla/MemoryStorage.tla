--------------------------- MODULE MemoryStorage ---------------------------
(***************************************************************************)
(* The in-memory storage, pkg/storage/memory.go: a general key-value store *)
(* and six typed stores, each a sync.Map with a counter under statsMu; the *)
(* cleanup goroutine; Close, which writes the typed stores to a file; and  *)
(* the start, which reads the file back.  Every access to a map, every     *)
(* reading of the clock and every update of a counter is one action.       *)
(*                                                                         *)
(* An entry is what its expiration time leaves of its life: 1..MaxLife     *)
(* ticks, 0 when it has expired, Never when the time is zero.  All keys    *)
(* of the key-value store are in one shard (ShardCount = 1).  Of the       *)
(* statistics, the item counts are kept; ExpiredItems is left out.         *)
(***************************************************************************)
EXTENDS Integers, Sequences, FiniteSets

CONSTANTS
    Clients,        \* goroutines that call the storage
    Callers,        \* the clients that use each of the seven stores
    Keys,
    NoItem,
    MaxLife,        \* the longest life of an entry, in ticks
    Uses,           \* which of the seven stores a behaviour uses, the choices
    MaxDrift,       \* bound on how far a counter is followed
    MaxRestarts     \* bound on the number of starts after the first; the
                    \* last life of the process is not followed to its end

ASSUME StorageAssumption ==
    /\ {"cleaner", "closer"} \cap Clients = {}
    /\ IsFiniteSet(Keys)
    /\ MaxLife \in Nat \ {0}
    /\ MaxDrift \in Nat
    /\ MaxRestarts \in Nat

Typed == {"dialog", "rtp", "ami", "client", "ws", "reg"}
Kinds == Typed \cup {"kv"}
Items == Kinds \X Keys
ItemsOf(k) == {k} \X Keys
Procs == Clients \cup {"cleaner", "closer"}

ASSUME ItemsAssumption ==
    /\ NoItem \notin Items
    /\ Uses \subseteq SUBSET Kinds
    /\ Callers \in [Kinds -> SUBSET Clients]

None == -1              \* no entry
Never == MaxLife + 1    \* an entry with a zero expiration time
Lives == 0..Never

(* The stores that persistToFile writes, and their items.                  *)
PersistKinds == {"dialog", "rtp", "client", "reg", "ami"}
Persistent == PersistKinds \X Keys

VARIABLES
    inUse,      \* the stores used in this behaviour; the others stay empty
    persists,   \* persistOnShutdown && persistPath != ""
    store,      \* the entry of each item
    count,      \* the statistics: number of items of each kind
    proc,       \* what each goroutine is doing, see Idle
    up,         \* the process runs
    tmp,        \* the temporary file: the stores encoded so far, the entries
    file,       \* the file at persistPath
    raced,      \* history: items that two calls used at the same time
    owed,       \* history: items alive and untouched since Close
    restarts

vars == <<inUse, persists, store, count, proc, up, tmp, file, raced, owed, restarts>>
diskVars == <<tmp, file>>

Empty == [x \in Items |-> None]

(* Listing a store that is not in use does nothing.                        *)
Only(k) == IF k \in inUse THEN <<k>> ELSE <<>>

(* The stores that Cleanup lists, and those that persistToFile lists, in   *)
(* order.                                                                  *)
CleanupLists == Only("dialog") \o Only("rtp") \o Only("client") \o Only("reg")
PersistLists == CleanupLists \o Only("ami")

(* The sections of a file that persistToFile has written to the end, and a *)
(* file just created.  No file at all is like a complete one without       *)
(* entries.                                                                *)
Sections == PersistKinds \cap inUse
Created == [lists |-> {}, entry |-> Empty]

(* A goroutine between calls.  item and seen are the item and the entry it *)
(* has in hand; todo, doomed, kind and plan are the state of a Range: keys *)
(* still to visit, keys found expired, the store and the stores after it.  *)
Idle == [pc |-> "idle", item |-> NoItem, seen |-> None, todo |-> {},
         doomed |-> {}, kind |-> "kv", plan |-> <<>>]

Steps == {"idle", "check", "remove", "uncount", "writeNew", "writeOver", "count",
          "erase", "list", "collect", "purge", "waitCleaner", "rename",
          "closed", "exited"}

TypeOK ==
    /\ inUse \in SUBSET Kinds
    /\ persists \in BOOLEAN
    /\ store \in [Items -> Lives \cup {None}]
    /\ count \in [Kinds -> Int]
    /\ proc \in [Procs -> [pc : Steps, item : Items \cup {NoItem},
                           seen : Lives \cup {None}, todo : SUBSET Keys,
                           doomed : SUBSET Keys, kind : Kinds, plan : Seq(Kinds)]]
    /\ up \in BOOLEAN
    /\ {tmp, file} \subseteq [lists : SUBSET Kinds, entry : [Items -> Lives \cup {None}]]
    /\ raced \in SUBSET Items
    /\ owed \in SUBSET Items
    /\ restarts \in 0..MaxRestarts

Init ==
    /\ inUse \in Uses
    /\ persists \in BOOLEAN
    /\ store = Empty
    /\ count = [k \in Kinds |-> 0]
    /\ proc = [p \in Procs |-> Idle]
    /\ up = TRUE
    /\ tmp = Created
    /\ file = [lists |-> Sections, entry |-> Empty]
    /\ raced = {}
    /\ owed = {}
    /\ restarts = 0

-----------------------------------------------------------------------------

(* Mutant of Expired: the zero time is taken for a time long past.         *)
ExpiredZeroToo(l) == l \in {0, Never}

(* Expiration.Before(time.Now()), unless the expiration time is zero.      *)
Expired(l) == l = 0

At(p, pc) == up /\ proc[p].pc = pc

(* p goes on with the call or the Range it is in.                          *)
Resume(p) ==
    proc' = [proc EXCEPT ![p] =
        IF @.todo # {} \/ @.plan # <<>> \/ p = "closer"
        THEN [@ EXCEPT !.pc = "list", !.item = NoItem, !.seen = None]
        ELSE Idle]

Hold(p, pc, x, l) ==
    proc' = [proc EXCEPT ![p] = [@ EXCEPT !.pc = pc, !.item = x, !.seen = l]]

(* q has begun something on x that it has not finished.                    *)
InCall(q, x) ==
    \/ proc[q].item = x
    \/ x[1] = "kv" /\ x[2] \in proc[q].doomed

(* p begins a call on x.                                                   *)
Begin(p, x) ==
    raced' = IF \E q \in Procs \ {p} : InCall(q, x) THEN raced \cup {x} ELSE raced

(* A client calls a function on an item of store k.                        *)
Calls(p, k, x) ==
    /\ At(p, "idle")
    /\ k \in inUse
    /\ p \in Callers[k]
    /\ x \in ItemsOf(k)
    /\ count[k] \in (-MaxDrift)..MaxDrift

Put(x, l) ==
    /\ store' = [store EXCEPT ![x] = l]
    /\ owed' = owed \ {x}

Take(x) ==
    /\ store' = [store EXCEPT ![x] = None]
    /\ owed' = owed \ {x}

-----------------------------------------------------------------------------
(* Get, Store and Delete of one item                                       *)

(* Load: an entry that is there is examined in the next step.              *)
GetFrom(p, k) ==
    \E x \in ItemsOf(k) :
        /\ Calls(p, k, x)
        /\ store[x] # None
        /\ Hold(p, "check", x, store[x])
        /\ Begin(p, x)
        /\ UNCHANGED <<inUse, persists, store, count, up, diskVars, owed, restarts>>

(* The clock is read: an expired entry is removed, a Range goes on with    *)
(* the next key.  The AMI actions are written to the file by a Range that  *)
(* removes nothing.                                                        *)
CheckExpired(p) ==
    LET x == proc[p].item
        l == proc[p].seen
        writing == p = "closer"
    IN  /\ At(p, "check")
        /\ IF Expired(l) /\ ~ (writing /\ x[1] = "ami")
           THEN Hold(p, "remove", x, None)
           ELSE Resume(p)
        /\ tmp' = IF writing /\ ~ Expired(l) THEN [tmp EXCEPT !.entry[x] = l] ELSE tmp
        /\ UNCHANGED <<inUse, persists, store, count, up, file, raced, owed, restarts>>

(* Mutant of RemoveExpired: no store counts the removal.                   *)
RemoveExpiredUncounted(p) ==
    /\ At(p, "remove")
    /\ Take(proc[p].item)
    /\ Resume(p)
    /\ UNCHANGED <<inUse, persists, count, up, diskVars, raced, restarts>>

(* Delete(key) removes whatever is stored by now.  The key-value store     *)
(* does not count the removal.                                             *)
RemoveExpired(p) ==
    LET x == proc[p].item IN
        /\ At(p, "remove")
        /\ Take(x)
        /\ IF x[1] = "kv" THEN Resume(p) ELSE Hold(p, "uncount", x, None)
        /\ UNCHANGED <<inUse, persists, count, up, diskVars, raced, restarts>>

CountDown(p) ==
    LET x == proc[p].item IN
        /\ At(p, "uncount")
        /\ count' = [count EXCEPT ![x[1]] = @ - 1]
        /\ Resume(p)
        /\ UNCHANGED <<inUse, persists, store, up, diskVars, raced, owed, restarts>>

(* Mutant of StoreTo: the expiration time that is set already is moved     *)
(* further.                                                                *)
StoreToExtends(p, k) ==
    \E x \in ItemsOf(k), l \in 0..MaxLife :
        /\ Calls(p, k, x)
        /\ Hold(p, IF store[x] = None THEN "writeNew" ELSE "writeOver", x,
                IF store[x] > 0 THEN store[x] + l ELSE l)
        /\ Begin(p, x)
        /\ UNCHANGED <<inUse, persists, store, count, up, diskVars, owed, restarts>>

(* Load to see whether the item is new.  A new object lives MaxLife; one   *)
(* that was read from the store keeps the expiration time it has.          *)
StoreTo(p, k) ==
    \E x \in ItemsOf(k), l \in 0..MaxLife :
        /\ Calls(p, k, x)
        /\ Hold(p, IF store[x] = None THEN "writeNew" ELSE "writeOver", x, l)
        /\ Begin(p, x)
        /\ UNCHANGED <<inUse, persists, store, count, up, diskVars, owed, restarts>>

WriteNew(p) ==
    LET x == proc[p].item IN
        /\ At(p, "writeNew")
        /\ Put(x, proc[p].seen)
        /\ Hold(p, "count", x, None)
        /\ UNCHANGED <<inUse, persists, count, up, diskVars, raced, restarts>>

WriteOver(p) ==
    /\ At(p, "writeOver")
    /\ Put(proc[p].item, proc[p].seen)
    /\ proc' = [proc EXCEPT ![p] = Idle]
    /\ UNCHANGED <<inUse, persists, count, up, diskVars, raced, restarts>>

CountUp(p) ==
    LET x == proc[p].item IN
        /\ At(p, "count")
        /\ count' = [count EXCEPT ![x[1]] = @ + 1]
        /\ proc' = [proc EXCEPT ![p] = Idle]
        /\ UNCHANGED <<inUse, persists, store, up, diskVars, raced, owed, restarts>>

DeleteFrom(p, k) ==
    \E x \in ItemsOf(k) :
        /\ Calls(p, k, x)
        /\ store[x] # None
        /\ Hold(p, "erase", x, None)
        /\ Begin(p, x)
        /\ UNCHANGED <<inUse, persists, store, count, up, diskVars, owed, restarts>>

Erase(p) ==
    LET x == proc[p].item IN
        /\ At(p, "erase")
        /\ Take(x)
        /\ Hold(p, "uncount", x, None)
        /\ UNCHANGED <<inUse, persists, count, up, diskVars, raced, restarts>>

-----------------------------------------------------------------------------
(* The functions of the interface                                          *)

Get(p) == GetFrom(p, "kv")
Delete(p) == DeleteFrom(p, "kv")

(* Set stores without looking, and counts even if it overwrites.           *)
Set(p) ==
    \E x \in ItemsOf("kv"), l \in 1..Never :
        /\ Calls(p, "kv", x)
        /\ Put(x, l)
        /\ Hold(p, "count", x, None)
        /\ Begin(p, x)
        /\ UNCHANGED <<inUse, persists, count, up, diskVars, restarts>>

GetDialog(p) == GetFrom(p, "dialog")
StoreDialog(p) == StoreTo(p, "dialog")
DeleteDialog(p) == DeleteFrom(p, "dialog")

GetRTPSession(p) == GetFrom(p, "rtp")
StoreRTPSession(p) == StoreTo(p, "rtp")
DeleteRTPSession(p) == DeleteFrom(p, "rtp")

GetAMIAction(p) == GetFrom(p, "ami")
StoreAMIAction(p) == StoreTo(p, "ami")
DeleteAMIAction(p) == DeleteFrom(p, "ami")

GetClientSession(p) == GetFrom(p, "client")
StoreClientSession(p) == StoreTo(p, "client")
DeleteClientSession(p) == DeleteFrom(p, "client")

GetWSConnection(p) == GetFrom(p, "ws")
StoreWSConnection(p) == StoreTo(p, "ws")
DeleteWSConnection(p) == DeleteFrom(p, "ws")

GetRegistration(p) == GetFrom(p, "reg")
StoreRegistration(p) == StoreTo(p, "reg")
DeleteRegistration(p) == DeleteFrom(p, "reg")

(* A List function visits the keys of its store in any order.              *)
ListOf(p, k) ==
    /\ At(p, "idle")
    /\ k \in inUse
    /\ p \in Callers[k]
    /\ count[k] \in (-MaxDrift)..MaxDrift
    /\ proc' = [proc EXCEPT ![p] = [Idle EXCEPT !.pc = "list", !.kind = k, !.todo = Keys]]
    /\ UNCHANGED <<inUse, persists, store, count, up, diskVars, raced, owed, restarts>>

ListDialogs(p) == ListOf(p, "dialog")
ListRTPSessions(p) == ListOf(p, "rtp")
ListClientSessions(p) == ListOf(p, "client")
ListRegistrations(p) == ListOf(p, "reg")
ListAMIActionIDs(p) == ListOf(p, "ami")

(* The next key of a Range.                                                *)
Visit(p) ==
    \E key \in proc[p].todo :
        LET x == <<proc[p].kind, key>>
            rest == [proc[p] EXCEPT !.todo = @ \ {key}]
        IN  /\ At(p, "list")
            /\ IF store[x] = None
               THEN /\ proc' = [proc EXCEPT ![p] = rest]
                    /\ UNCHANGED raced
               ELSE /\ proc' = [proc EXCEPT ![p] =
                          [rest EXCEPT !.pc = "check", !.item = x, !.seen = store[x]]]
                    /\ Begin(p, x)
            /\ UNCHANGED <<inUse, persists, store, count, up, diskVars, owed, restarts>>

(* The Range is over: the caller lists its next store, or is done.  Close  *)
(* encodes what it has listed.                                             *)
ListDone(p) ==
    /\ At(p, "list")
    /\ proc[p].todo = {}
    /\ proc' = [proc EXCEPT ![p] =
          IF @.plan # <<>>
          THEN [@ EXCEPT !.kind = Head(proc[p].plan), !.plan = Tail(proc[p].plan),
                        !.todo = Keys]
          ELSE IF p = "closer" THEN [Idle EXCEPT !.pc = "rename"] ELSE Idle]
    /\ tmp' = IF p = "closer" THEN [tmp EXCEPT !.lists = @ \cup ({proc[p].kind} \cap Sections)]
              ELSE tmp
    /\ UNCHANGED <<inUse, persists, store, count, up, file, raced, owed, restarts>>

-----------------------------------------------------------------------------
(* Cleanup, in the goroutine cleanupLoop                                   *)

Stopping == proc["closer"].pc # "idle"

(* The ticker fires: the expired keys of the shard are collected first.    *)
Cleanup ==
    /\ At("cleaner", "idle")
    /\ proc' = [proc EXCEPT !["cleaner"] =
          [Idle EXCEPT !.pc = "collect", !.todo = IF "kv" \in inUse THEN Keys ELSE {},
                       !.plan = CleanupLists]]
    /\ UNCHANGED <<inUse, persists, store, count, up, diskVars, raced, owed, restarts>>

Collect ==
    \E key \in proc["cleaner"].todo :
        LET x == <<"kv", key>>
            hit == store[x] # None /\ Expired(store[x])
        IN  /\ At("cleaner", "collect")
            /\ proc' = [proc EXCEPT !["cleaner"].todo = @ \ {key},
                                    !["cleaner"].doomed = IF hit THEN @ \cup {key} ELSE @]
            /\ IF hit THEN Begin("cleaner", x) ELSE UNCHANGED raced
            /\ UNCHANGED <<inUse, persists, store, count, up, diskVars, owed, restarts>>

CollectDone ==
    /\ At("cleaner", "collect")
    /\ proc["cleaner"].todo = {}
    /\ proc' = [proc EXCEPT !["cleaner"].pc = "purge"]
    /\ UNCHANGED <<inUse, persists, store, count, up, diskVars, raced, owed, restarts>>

(* A collected key is deleted, whatever is stored there by now.            *)
Purge ==
    \E key \in proc["cleaner"].doomed :
        /\ At("cleaner", "purge")
        /\ proc["cleaner"].item = NoItem
        /\ Take(<<"kv", key>>)
        /\ Hold("cleaner", "purge", <<"kv", key>>, None)
        /\ UNCHANGED <<inUse, persists, count, up, diskVars, raced, restarts>>

PurgeCount ==
    LET x == proc["cleaner"].item IN
        /\ At("cleaner", "purge")
        /\ x # NoItem
        /\ count' = [count EXCEPT !["kv"] = @ - 1]
        /\ proc' = [proc EXCEPT !["cleaner"].item = NoItem,
                                !["cleaner"].doomed = @ \ {x[2]}]
        /\ UNCHANGED <<inUse, persists, store, up, diskVars, raced, owed, restarts>>

PurgeDone ==
    /\ At("cleaner", "purge")
    /\ proc["cleaner"].item = NoItem
    /\ proc["cleaner"].doomed = {}
    /\ proc' = [proc EXCEPT !["cleaner"].pc = "list"]
    /\ UNCHANGED <<inUse, persists, store, count, up, diskVars, raced, owed, restarts>>

CleanerExit ==
    /\ At("cleaner", "idle")
    /\ Stopping
    /\ proc' = [proc EXCEPT !["cleaner"].pc = "exited"]
    /\ UNCHANGED <<inUse, persists, store, count, up, diskVars, raced, owed, restarts>>

-----------------------------------------------------------------------------
(* Close and persistToFile, loadFromFile at the next start                 *)

Close ==
    /\ At("closer", "idle")
    /\ restarts < MaxRestarts
    /\ proc' = [proc EXCEPT !["closer"].pc = "waitCleaner"]
    /\ owed' = {x \in Persistent : store[x] > 0}
    /\ UNCHANGED <<inUse, persists, store, count, up, diskVars, raced, restarts>>

(* Nothing is to be written: Close returns.                                *)
CloseUnsaved ==
    /\ At("closer", "waitCleaner")
    /\ proc["cleaner"].pc = "exited"
    /\ ~ persists
    /\ proc' = [proc EXCEPT !["closer"].pc = "closed"]
    /\ UNCHANGED <<inUse, persists, store, count, up, diskVars, raced, owed, restarts>>

(* Mutant of PersistBegin: the data is written to persistPath itself.      *)
PersistBeginInPlace ==
    /\ At("closer", "waitCleaner")
    /\ proc["cleaner"].pc = "exited"
    /\ persists
    /\ tmp' = Created
    /\ file' = Created
    /\ proc' = [proc EXCEPT !["closer"] =
          [Idle EXCEPT !.pc = "list", !.plan = PersistLists]]
    /\ UNCHANGED <<inUse, persists, store, count, up, raced, owed, restarts>>

(* Mutant of PersistBegin: the AMI actions are not written.                *)
PersistBeginNoAMI ==
    /\ At("closer", "waitCleaner")
    /\ proc["cleaner"].pc = "exited"
    /\ persists
    /\ tmp' = Created
    /\ proc' = [proc EXCEPT !["closer"] =
          [Idle EXCEPT !.pc = "list", !.plan = CleanupLists]]
    /\ UNCHANGED <<inUse, persists, store, count, up, file, raced, owed, restarts>>

(* The cleanup goroutine is gone; if data is to be kept the temporary file *)
(* is created.                                                             *)
PersistBegin ==
    /\ At("closer", "waitCleaner")
    /\ proc["cleaner"].pc = "exited"
    /\ persists
    /\ tmp' = Created
    /\ proc' = [proc EXCEPT !["closer"] =
          [Idle EXCEPT !.pc = "list", !.plan = PersistLists]]
    /\ UNCHANGED <<inUse, persists, store, count, up, file, raced, owed, restarts>>

(* Creating, encoding or renaming fails: Close returns the error.          *)
PersistFails ==
    /\ up
    /\ proc["closer"].pc \in {"list", "rename"}
    /\ proc' = [proc EXCEPT !["closer"] = [Idle EXCEPT !.pc = "exited"]]
    /\ UNCHANGED <<inUse, persists, store, count, up, diskVars, raced, owed, restarts>>

PersistRename ==
    /\ At("closer", "rename")
    /\ file' = tmp
    /\ tmp' = Created
    /\ proc' = [proc EXCEPT !["closer"].pc = "closed"]
    /\ UNCHANGED <<inUse, persists, store, count, up, raced, owed, restarts>>

(* The process ends, after Close or by a crash at any point.               *)
Down ==
    /\ up
    /\ restarts < MaxRestarts
    /\ up' = FALSE
    /\ store' = Empty
    /\ count' = [k \in Kinds |-> 0]
    /\ proc' = [p \in Procs |-> Idle]
    /\ tmp' = Created
    /\ raced' = {}
    /\ owed' = {}
    /\ UNCHANGED <<inUse, persists, file, restarts>>

(* NewMemoryStorage: the file is decoded as a whole before anything is     *)
(* stored; what has expired meanwhile is left out.                         *)
loadFromFile ==
    [x \in Items |-> IF file.lists = Sections /\ file.entry[x] # None /\ ~ Expired(file.entry[x])
                     THEN file.entry[x] ELSE None]

NewMemoryStorage ==
    /\ ~ up
    /\ restarts' = restarts + 1
    /\ up' = TRUE
    /\ store' = loadFromFile
    /\ count' = [k \in Kinds |-> Cardinality({x \in ItemsOf(k) : loadFromFile[x] # None})]
    /\ UNCHANGED <<inUse, persists, proc, diskVars, raced, owed>>

-----------------------------------------------------------------------------

Aged(l) == IF l \in 1..MaxLife THEN l - 1 ELSE l

Tick ==
    /\ store' = [x \in Items |-> Aged(store[x])]
    /\ proc' = [p \in Procs |-> [proc[p] EXCEPT !.seen = Aged(@)]]
    /\ tmp' = [tmp EXCEPT !.entry = [x \in Items |-> Aged(@[x])]]
    /\ file' = [file EXCEPT !.entry = [x \in Items |-> Aged(@[x])]]
    /\ owed' = owed \ {x \in Items : store[x] = 1}
    /\ UNCHANGED <<inUse, persists, count, up, raced, restarts>>

(* A goroutine goes on with what it has begun.                             *)
Continue(p) ==
    \/ CheckExpired(p) \/ RemoveExpired(p) \/ CountDown(p)
    \/ WriteNew(p) \/ WriteOver(p) \/ CountUp(p) \/ Erase(p)
    \/ Visit(p) \/ ListDone(p)

CleanerStep ==
    \/ Continue("cleaner")
    \/ Cleanup \/ Collect \/ CollectDone \/ Purge \/ PurgeCount \/ PurgeDone
    \/ CleanerExit

Call(p) ==
    \/ Get(p) \/ Set(p) \/ Delete(p)
    \/ GetDialog(p) \/ StoreDialog(p) \/ DeleteDialog(p)
    \/ GetRTPSession(p) \/ StoreRTPSession(p) \/ DeleteRTPSession(p)
    \/ GetAMIAction(p) \/ StoreAMIAction(p) \/ DeleteAMIAction(p)
    \/ GetClientSession(p) \/ StoreClientSession(p) \/ DeleteClientSession(p)
    \/ GetWSConnection(p) \/ StoreWSConnection(p) \/ DeleteWSConnection(p)
    \/ GetRegistration(p) \/ StoreRegistration(p) \/ DeleteRegistration(p)
    \/ ListDialogs(p) \/ ListRTPSessions(p) \/ ListClientSessions(p)
    \/ ListRegistrations(p) \/ ListAMIActionIDs(p)

Next ==
    \/ \E p \in Clients : Call(p) \/ Continue(p)
    \/ CleanerStep
    \/ Close \/ Continue("closer") \/ CloseUnsaved
    \/ PersistBegin \/ PersistFails \/ PersistRename
    \/ Down \/ NewMemoryStorage
    \/ Tick

Spec == Init /\ [][Next]_vars

-----------------------------------------------------------------------------
(* p has met an expired entry of x and is about to remove the key.         *)
Dooms(p, x) ==
    \/ proc[p].pc = "remove" /\ proc[p].item = x
    \/ x[1] = "kv" /\ x[2] \in proc[p].doomed /\ proc[p].item # x

(* The storage is a KVStore: each operation takes effect at one step.  An  *)
(* entry vanishes only by a Delete, or because a Get, a List or Cleanup    *)
(* has met an expired one at its key before and removes what is there now, *)
(* once for each it met.  A key that is always set without expiration is   *)
(* never lost.  The file is replaced as a whole, by entries that Close has *)
(* read alive.                                                             *)
KV == INSTANCE KVStore WITH
    Users    <- Procs,
    content  <- store,
    reading  <- [p \in Procs |-> IF proc[p].pc = "check"
                                THEN [item |-> proc[p].item, life |-> proc[p].seen]
                                ELSE [item |-> NoItem, life |-> None]],
    doomed   <- {u \in Procs \X Items : Dooms(u[1], u[2])},
    deleting <- [p \in Procs |-> IF proc[p].pc = "erase" THEN proc[p].item ELSE NoItem],
    draft    <- tmp.entry,
    saved    <- file.entry,
    open     <- up

ImplementsKVStore == KV!Spec

(* The statistics are right where calls do not overlap: the counter of a   *)
(* typed store is the number of its entries when nobody is in a call and   *)
(* no item was used by two calls at once, and TotalItems, which counts     *)
(* overwrites too and misses removals by Get, is never less than the       *)
(* number of keys.                                                         *)
CountsExactUnlessRaced ==
    \A k \in Kinds :
        LET size == Cardinality({x \in ItemsOf(k) : store[x] # None}) IN
        (\A x \in ItemsOf(k) : x \notin raced /\ \A p \in Procs : ~ InCall(p, x))
            => IF k = "kv" THEN count[k] >= size ELSE count[k] = size

(* Whenever the process dies, the file at persistPath is one that          *)
(* loadFromFile can decode to the end, although persistToFile fails or is  *)
(* cut off between any two of its steps: what is half written is only ever *)
(* the temporary file.                                                     *)
FileComplete == file.lists = Sections

(* When Close of a storage that is to persist returns without error, every *)
(* entry of the five written stores that was alive when Close was called   *)
(* and that no one has removed or replaced since is in the file, although  *)
(* clients go on calling, on other keys and other stores too.              *)
CloseSaves ==
    persists /\ proc["closer"].pc = "closed" => \A x \in owed : file.entry[x] > 0

=============================================================================
