------------------------- MODULE MemoryStorageProofs -------------------------
(***************************************************************************)
(* Theorems about MemoryStorage for any clients, keys, lives and restarts: *)
(* that it implements KVStore, that the file it leaves behind is complete, *)
(* that Close saves what it should, and that the statistics are right for  *)
(* items that no two calls used at the same time.                          *)
(***************************************************************************)
EXTENDS MemoryStorage, FiniteSetTheorems, TLAPS

ProcStates == [pc : Steps, item : Items \cup {NoItem}, seen : Lives \cup {None},
               todo : SUBSET Keys, doomed : SUBSET Keys, kind : Kinds, plan : Seq(Kinds)]

(* Where a goroutine has an item, or an entry of it, in hand.              *)
WithItem == {"check", "remove", "uncount", "writeNew", "writeOver", "count", "erase"}
WithEntry == {"check", "writeNew", "writeOver"}
Writing == {"writeNew", "writeOver"}
Listing == {"list", "check", "remove", "uncount"}

(* TypeOK in two parts: the goroutines and the rest.                       *)
ProcType == proc \in [Procs -> ProcStates]

RestType ==
    /\ inUse \in SUBSET Kinds
    /\ persists \in BOOLEAN
    /\ store \in [Items -> Lives \cup {None}]
    /\ count \in [Kinds -> Int]
    /\ up \in BOOLEAN
    /\ tmp \in [lists : SUBSET Kinds, entry : [Items -> Lives \cup {None}]]
    /\ file \in [lists : SUBSET Kinds, entry : [Items -> Lives \cup {None}]]
    /\ raced \in SUBSET Items
    /\ owed \in SUBSET Items
    /\ restarts \in 0..MaxRestarts

InHand ==
    \A p \in Procs :
        /\ proc[p].pc \in WithItem => proc[p].item \in Items
        /\ proc[p].pc \in WithEntry => proc[p].seen \in Lives
        /\ proc[p].pc \in Writing => proc[p].item[1] # "kv" /\ proc[p].seen <= MaxLife

(* While the process is down nothing is going on.                          *)
DownBriefly ==
    ~ up => /\ restarts < MaxRestarts
            /\ owed = {}
            /\ \A p \in Procs : proc[p].pc = "idle" /\ proc[p].doomed = {}

(* Only the cleaner collects keys, and only in its first phases.           *)
CollectorOnly ==
    \A p \in Procs :
        /\ proc[p].doomed # {} => p = "cleaner" /\ proc[p].pc \in {"collect", "purge"}
        /\ proc[p].pc \in {"collect", "purge"} => p = "cleaner"
        /\ proc[p].pc = "collect" => proc[p].item = NoItem
        /\ proc[p].pc = "purge" => proc[p].item = NoItem \/ proc[p].item[1] = "kv"

(* Only stores in use have entries, and only the key-value store has       *)
(* entries that never expire.                                              *)
StoreBounded ==
    \A x \in Items : store[x] # None => x[1] \in inUse /\ (x[1] = "kv" \/ store[x] <= MaxLife)

WritersInUse == \A p \in Procs : proc[p].pc \in Writing => proc[p].item[1] \in inUse

(* Entries that persistToFile may write.                                   *)
Saveable(x, l) == l # None => x \in Persistent /\ x[1] \in inUse /\ l <= MaxLife

FilesSaveable == \A x \in Items : Saveable(x, tmp.entry[x]) /\ Saveable(x, file.entry[x])

(* The closer visits the stores that are written and nothing else.         *)
CloserRange ==
    /\ proc["closer"].pc \in Listing \cup {"idle", "waitCleaner", "rename", "closed", "exited"}
    /\ proc["closer"].plan \in Seq(PersistKinds)
    /\ proc["closer"].todo # {} => proc["closer"].kind \in PersistKinds
    /\ proc["closer"].pc = "check" => Saveable(proc["closer"].item, proc["closer"].seen)

(* The stores the closer has yet to list when it ends the current Range.   *)
Elements(s) == {s[i] : i \in 1..Len(s)}
Planned == Elements(proc["closer"].plan)

(* The temporary file lacks no more than the store being listed and those  *)
(* still planned.                                                          *)
TmpProgress ==
    /\ tmp.lists \subseteq Sections
    /\ proc["closer"].pc \in Listing =>
          Sections \subseteq tmp.lists \cup Planned \cup {proc["closer"].kind}
    /\ proc["closer"].pc = "rename" => tmp.lists = Sections

(* What Close owes is still in the store, and the closer has written it,   *)
(* has it in hand or has yet to come to it.                                *)
OwedPending ==
    /\ owed \subseteq Persistent
    /\ \A x \in owed :
        /\ store[x] > 0
        /\ proc["closer"].pc = "check" /\ proc["closer"].item = x => proc["closer"].seen = store[x]
        /\ proc["closer"].pc \in Listing =>
              \/ tmp.entry[x] = store[x]
              \/ proc["closer"].pc = "check" /\ proc["closer"].item = x
              \/ x[1] = proc["closer"].kind /\ x[2] \in proc["closer"].todo
              \/ x[1] \in Planned
        /\ proc["closer"].pc = "rename" => tmp.entry[x] = store[x]
        /\ persists /\ proc["closer"].pc = "closed" => file.entry[x] = store[x]

IInv ==
    /\ ProcType /\ RestType /\ InHand /\ DownBriefly
    /\ CollectorOnly
    /\ StoreBounded /\ WritersInUse /\ FilesSaveable /\ CloserRange
    /\ TmpProgress /\ FileComplete /\ OwedPending

-----------------------------------------------------------------------------
(* The steps of the storage: the functions of the interface are instances  *)
(* of a few operations on a store.                                         *)
LEMMA StepCases ==
    ASSUME [Next]_vars
    PROVE  \/ \E p \in Clients, k \in Kinds : GetFrom(p, k) \/ DeleteFrom(p, k) \/ ListOf(p, k)
           \/ \E p \in Clients, k \in Typed : StoreTo(p, k)
           \/ \E p \in Clients : Set(p)
           \/ \E p \in Procs : Continue(p)
           \/ Cleanup \/ Collect \/ CollectDone \/ Purge \/ PurgeCount \/ PurgeDone
           \/ CleanerExit
           \/ Close \/ CloseUnsaved \/ PersistBegin \/ PersistFails \/ PersistRename
           \/ Down \/ NewMemoryStorage \/ Tick
           \/ UNCHANGED vars
  BY DEF Next, Call, CleanerStep, Procs, Kinds, Typed, Get, Set, Delete,
         GetDialog, StoreDialog, DeleteDialog, GetRTPSession, StoreRTPSession,
         DeleteRTPSession, GetAMIAction, StoreAMIAction, DeleteAMIAction,
         GetClientSession, StoreClientSession, DeleteClientSession,
         GetWSConnection, StoreWSConnection, DeleteWSConnection,
         GetRegistration, StoreRegistration, DeleteRegistration,
         ListDialogs, ListRTPSessions, ListClientSessions, ListRegistrations, ListAMIActionIDs

(* A list of stores to visit is a sequence of stores that are in use.      *)
LEMMA PlansTyped == CleanupLists \in Seq(Kinds) /\ PersistLists \in Seq(PersistKinds)
  <1>1. ASSUME NEW S, NEW k \in S PROVE Only(k) \in Seq(S)
    BY DEF Only
  <1>2. ASSUME NEW S, NEW s \in Seq(S), NEW t \in Seq(S) PROVE s \o t \in Seq(S)
    OBVIOUS
  <1>3. ASSUME NEW S, {"dialog", "rtp", "client", "reg"} \subseteq S
        PROVE  CleanupLists \in Seq(S)
    <2>1. /\ Only("dialog") \in Seq(S) /\ Only("rtp") \in Seq(S)
          /\ Only("client") \in Seq(S) /\ Only("reg") \in Seq(S)
      BY <1>1, <1>3
    <2> HIDE DEF Only
    <2>2. Only("dialog") \o Only("rtp") \in Seq(S)
      BY <2>1, <1>2
    <2>3. (Only("dialog") \o Only("rtp")) \o Only("client") \in Seq(S)
      BY <2>1, <2>2, <1>2
    <2> QED BY <2>1, <2>3, <1>2 DEF CleanupLists
  <1>4. PersistLists \in Seq(PersistKinds)
    <2>1. CleanupLists \in Seq(PersistKinds) /\ Only("ami") \in Seq(PersistKinds)
      BY <1>1, <1>3 DEF PersistKinds
    <2> QED BY <2>1, <1>2 DEF PersistLists
  <1>5. CleanupLists \in Seq(Kinds)
    BY <1>3 DEF Kinds, Typed
  <1> QED BY <1>4, <1>5

(* Lives and the ageing of entries.                                        *)
LEMMA LifeFacts ==
    /\ MaxLife \in Nat \ {0} /\ None \notin Lives /\ Never \in Lives /\ 0 \in Lives
    /\ \A l \in Lives \cup {None} :
          /\ l \in Int
          /\ Aged(l) \in Lives \cup {None}
          /\ Aged(l) = None <=> l = None
          /\ l \in Lives => Aged(l) \in Lives /\ (l <= MaxLife => Aged(l) <= MaxLife)
          /\ l = 0 => Aged(l) = 0
          /\ Aged(l) > 0 <=> l > 1
    /\ \A l, m \in Lives : l <= m => Aged(l) <= Aged(m)
    /\ \A l \in 0..MaxLife : l \in Lives
    /\ \A l \in 1..Never : l \in Lives
  BY StorageAssumption DEF Lives, Never, None, Aged

(* A store has finitely many items, so the counts that loadFromFile sets   *)
(* are numbers.                                                            *)
LEMMA ItemsFinite ==
    ASSUME NEW k, NEW S \in SUBSET ItemsOf(k)
    PROVE  IsFiniteSet(S) /\ Cardinality(S) \in Nat
  BY StorageAssumption, FS_Singleton, FS_Product, FS_Subset, FS_CardinalityType DEF ItemsOf

(* A goroutine between calls is in its type.                               *)
LEMMA IdleTyped == Idle \in ProcStates
  <1>1. "idle" \in Steps /\ "kv" \in Kinds /\ <<>> \in Seq(Kinds)
    BY DEF Steps, Kinds
  <1> QED BY <1>1 DEF Idle, ProcStates

(* The record of a goroutine after the changes the actions make to it.     *)
LEMMA RecordTyped ==
    ASSUME NEW r \in ProcStates, NEW c \in Steps, NEW x \in Items \cup {NoItem},
           NEW l \in Lives \cup {None}
    PROVE  /\ [r EXCEPT !.pc = c] \in ProcStates
           /\ [r EXCEPT !.pc = c, !.item = x, !.seen = l] \in ProcStates
           /\ [r EXCEPT !.seen = l] \in ProcStates
           /\ [r EXCEPT !.item = x] \in ProcStates
  <1>1. [r EXCEPT !.pc = c, !.item = x, !.seen = l] \in ProcStates
    BY DEF ProcStates
  <1> QED BY <1>1 DEF ProcStates

(* TypeOK is the conjunction of its parts.                                 *)
LEMMA TypeParts == TypeOK <=> ProcType /\ RestType
  BY DEF TypeOK, ProcType, RestType, ProcStates

(* The parts of an item, and the entries of an empty store and file.       *)
LEMMA ItemFacts ==
    /\ \A x \in Items : x[1] \in Kinds /\ x[2] \in Keys /\ x = <<x[1], x[2]>>
    /\ \A k \in Kinds, key \in Keys : <<k, key>> \in Items
    /\ \A k \in Kinds : \A x \in ItemsOf(k) : x \in Items /\ x[1] = k
    /\ PersistKinds \subseteq Typed /\ Typed \subseteq Kinds /\ "kv" \notin Typed
    /\ Persistent \subseteq Items
    /\ \A x \in Items : x \in Persistent <=> x[1] \in PersistKinds
  BY DEF Items, ItemsOf, Persistent, PersistKinds, Kinds, Typed

(* The entries of an empty store and of a file just created.               *)
LEMMA EmptyTyped ==
    /\ Empty \in [Items -> Lives \cup {None}]
    /\ Created \in [lists : SUBSET Kinds, entry : [Items -> Lives \cup {None}]]
    /\ \A x \in Items : Empty[x] = None
    /\ Created.lists = {} /\ Created.entry = Empty
  BY LifeFacts DEF Empty, Created

(* The cleaner and the closer are goroutines, and no clients.              *)
LEMMA ProcFacts ==
    /\ "cleaner" \in Procs /\ "closer" \in Procs
    /\ \A p \in Clients : p \in Procs /\ p # "cleaner" /\ p # "closer"
    /\ \A k \in Kinds : ItemsOf(k) \subseteq Items
    /\ \A k \in Typed : k \in Kinds
    /\ "kv" \in Kinds
  BY StorageAssumption DEF Procs, Typed, Kinds, ItemsOf, Items

-----------------------------------------------------------------------------
(* What the actions do to the record of a goroutine, field by field.       *)

Becomes(p, c, x, l, t, d, k, s) ==
    /\ proc'[p].pc = c /\ proc'[p].item = x /\ proc'[p].seen = l
    /\ proc'[p].todo = t /\ proc'[p].doomed = d
    /\ proc'[p].kind = k /\ proc'[p].plan = s
    /\ \A q \in Procs \ {p} : proc'[q] = proc[q]

(* p keeps the state of its Range.                                         *)
Holds(p, c, x, l) ==
    Becomes(p, c, x, l, proc[p].todo, proc[p].doomed, proc[p].kind, proc[p].plan)

(* p enters step c afresh.                                                 *)
Enters(p, c) == Becomes(p, c, NoItem, None, {}, {}, "kv", <<>>)

(* An assignment to the whole record of a goroutine.                       *)
LEMMA Assigned ==
    ASSUME ProcType, NEW p \in Procs, NEW r \in ProcStates, proc' = [proc EXCEPT ![p] = r]
    PROVE  /\ ProcType'
           /\ Becomes(p, r.pc, r.item, r.seen, r.todo, r.doomed, r.kind, r.plan)
  BY DEF ProcType, Becomes

(* A goroutine that takes an item in hand.                                 *)
LEMMA HoldMoves ==
    ASSUME ProcType, NEW p \in Procs, NEW c \in Steps, NEW x \in Items \cup {NoItem},
           NEW l \in Lives \cup {None}, Hold(p, c, x, l)
    PROVE  ProcType' /\ Holds(p, c, x, l)
  <1> DEFINE r == [proc[p] EXCEPT !.pc = c, !.item = x, !.seen = l]
  <1>1. proc[p] \in ProcStates
    BY DEF ProcType
  <1>2. /\ r.pc = c /\ r.item = x /\ r.seen = l /\ r.todo = proc[p].todo
        /\ r.doomed = proc[p].doomed /\ r.kind = proc[p].kind /\ r.plan = proc[p].plan
    BY <1>1 DEF ProcStates
  <1>3. r \in ProcStates
    BY <1>1, RecordTyped
  <1>4. proc' = [proc EXCEPT ![p] = r]
    BY DEF Hold
  <1> HIDE DEF r
  <1> QED BY <1>2, <1>3, <1>4, Assigned DEF Holds

(* A goroutine whose record is Idle but for its step.                      *)
LEMMA EnterMoves ==
    ASSUME ProcType, NEW p \in Procs, NEW c \in Steps,
           proc' = [proc EXCEPT ![p] = [Idle EXCEPT !.pc = c]]
    PROVE  ProcType' /\ Enters(p, c)
  <1> DEFINE r == [Idle EXCEPT !.pc = c]
  <1>1. Idle \in ProcStates
    BY IdleTyped
  <1>2. /\ r.pc = c /\ r.item = NoItem /\ r.seen = None /\ r.todo = {}
        /\ r.doomed = {} /\ r.kind = "kv" /\ r.plan = <<>>
    BY DEF Idle
  <1>3. r \in ProcStates
    BY <1>1 DEF ProcStates
  <1> HIDE DEF r
  <1> QED BY <1>2, <1>3, Assigned DEF Enters, r

(* A call returns.                                                         *)
LEMMA IdleMoves ==
    ASSUME ProcType, NEW p \in Procs, proc' = [proc EXCEPT ![p] = Idle]
    PROVE  ProcType' /\ Enters(p, "idle")
  <1>1. Idle \in ProcStates
    BY IdleTyped
  <1>2. /\ Idle.pc = "idle" /\ Idle.item = NoItem /\ Idle.seen = None /\ Idle.todo = {}
        /\ Idle.doomed = {} /\ Idle.kind = "kv" /\ Idle.plan = <<>>
    BY DEF Idle
  <1> QED BY <1>1, <1>2, Assigned DEF Enters

(* A goroutine goes on with its Range, if it is in one.                    *)
LEMMA ResumeMoves ==
    ASSUME ProcType, NEW p \in Procs, Resume(p)
    PROVE  /\ ProcType'
           /\ \/ Holds(p, "list", NoItem, None)
              \/ Enters(p, "idle") /\ p # "closer"
  <1>1. CASE proc[p].todo # {} \/ proc[p].plan # <<>> \/ p = "closer"
    <2>1. Hold(p, "list", NoItem, None)
      BY <1>1 DEF Resume, Hold, ProcType
    <2> QED BY <2>1, HoldMoves DEF Steps
  <1>2. CASE ~ (proc[p].todo # {} \/ proc[p].plan # <<>> \/ p = "closer")
    <2>1. proc' = [proc EXCEPT ![p] = Idle]
      BY <1>2 DEF Resume, ProcType
    <2> QED BY <1>2, <2>1, IdleMoves
  <1> QED BY <1>1, <1>2

(* Only the step changes.                                                  *)
LEMMA StepMoves ==
    ASSUME ProcType, NEW p \in Procs, NEW c \in Steps, proc' = [proc EXCEPT ![p].pc = c]
    PROVE  ProcType' /\ Holds(p, c, proc[p].item, proc[p].seen)
  <1> DEFINE r == [proc[p] EXCEPT !.pc = c]
  <1>1. proc[p] \in ProcStates
    BY DEF ProcType
  <1>2. /\ r.pc = c /\ r.item = proc[p].item /\ r.seen = proc[p].seen /\ r.todo = proc[p].todo
        /\ r.doomed = proc[p].doomed /\ r.kind = proc[p].kind /\ r.plan = proc[p].plan
    BY <1>1 DEF ProcStates
  <1>3. r \in ProcStates
    BY <1>1 DEF ProcStates
  <1>4. proc' = [proc EXCEPT ![p] = r]
    OBVIOUS
  <1> HIDE DEF r
  <1> QED BY <1>2, <1>3, <1>4, Assigned DEF Holds

(* The start of a Range over a store, of the cleanup and of the saving.    *)
LEMMA ListOfMoves ==
    ASSUME ProcType, NEW p \in Procs, NEW k \in Kinds, ListOf(p, k)
    PROVE  ProcType' /\ Becomes(p, "list", NoItem, None, Keys, {}, k, <<>>)
  <1> DEFINE r == [Idle EXCEPT !.pc = "list", !.kind = k, !.todo = Keys]
  <1>1. Idle \in ProcStates
    BY IdleTyped
  <1>2. /\ r.pc = "list" /\ r.item = NoItem /\ r.seen = None /\ r.todo = Keys
        /\ r.doomed = {} /\ r.kind = k /\ r.plan = <<>>
    BY DEF Idle
  <1>3. r \in ProcStates
    BY <1>1, LifeFacts DEF ProcStates, Steps
  <1>4. proc' = [proc EXCEPT ![p] = r]
    BY DEF ListOf
  <1> HIDE DEF r
  <1> QED BY <1>2, <1>3, <1>4, Assigned

(* The ticker fires and Cleanup begins with the shard.                     *)
LEMMA CleanupMoves ==
    ASSUME ProcType, Cleanup
    PROVE  /\ ProcType'
           /\ \E t \in SUBSET Keys :
                 Becomes("cleaner", "collect", NoItem, None, t, {}, "kv", CleanupLists)
  <1> DEFINE t == IF "kv" \in inUse THEN Keys ELSE {}
             r == [Idle EXCEPT !.pc = "collect", !.todo = t, !.plan = CleanupLists]
  <1>0. t \in SUBSET Keys
    OBVIOUS
  <1>1. Idle \in ProcStates
    BY IdleTyped
  <1>2. /\ r.pc = "collect" /\ r.item = NoItem /\ r.seen = None /\ r.todo = t
        /\ r.doomed = {} /\ r.kind = "kv" /\ r.plan = CleanupLists
    BY DEF Idle
  <1>3. r \in ProcStates
    BY <1>1, <1>0, PlansTyped DEF ProcStates, Steps
  <1>4. proc' = [proc EXCEPT !["cleaner"] = r]
    BY DEF Cleanup
  <1> HIDE DEF r, t
  <1> QED BY <1>2, <1>3, <1>4, <1>0, ProcFacts, Assigned

(* persistToFile begins.                                                   *)
LEMMA PersistMoves ==
    ASSUME ProcType, PersistBegin
    PROVE  ProcType' /\ Becomes("closer", "list", NoItem, None, {}, {}, "kv", PersistLists)
  <1> DEFINE r == [Idle EXCEPT !.pc = "list", !.plan = PersistLists]
  <1>0. PersistLists \in Seq(Kinds)
    BY PlansTyped DEF PersistKinds, Kinds, Typed
  <1>1. Idle \in ProcStates
    BY IdleTyped
  <1>2. /\ r.pc = "list" /\ r.item = NoItem /\ r.seen = None /\ r.todo = {}
        /\ r.doomed = {} /\ r.kind = "kv" /\ r.plan = PersistLists
    BY DEF Idle
  <1>3. r \in ProcStates
    BY <1>1, <1>0 DEF ProcStates, Steps
  <1>4. proc' = [proc EXCEPT !["closer"] = r]
    BY DEF PersistBegin
  <1> HIDE DEF r
  <1> QED BY <1>2, <1>3, <1>4, ProcFacts, Assigned

(* A Range visits a key: an entry that is there is taken in hand.          *)
LEMMA VisitMoves ==
    ASSUME ProcType, RestType, NEW p \in Procs, Visit(p)
    PROVE  /\ ProcType'
           /\ \E key \in proc[p].todo, x \in Items :
                /\ x = <<proc[p].kind, key>>
                /\ \/ /\ store[x] = None /\ raced' = raced
                      /\ Becomes(p, "list", proc[p].item, proc[p].seen, proc[p].todo \ {key},
                                 proc[p].doomed, proc[p].kind, proc[p].plan)
                   \/ /\ store[x] # None /\ Begin(p, x)
                      /\ Becomes(p, "check", x, store[x], proc[p].todo \ {key},
                                 proc[p].doomed, proc[p].kind, proc[p].plan)
  <1>1. PICK key \in proc[p].todo :
            LET x == <<proc[p].kind, key>>
                rest == [proc[p] EXCEPT !.todo = @ \ {key}]
            IN  /\ At(p, "list")
                /\ IF store[x] = None
                   THEN /\ proc' = [proc EXCEPT ![p] = rest]
                        /\ raced' = raced
                   ELSE /\ proc' = [proc EXCEPT ![p] =
                               [rest EXCEPT !.pc = "check", !.item = x, !.seen = store[x]]]
                        /\ Begin(p, x)
    BY DEF Visit
  <1> DEFINE x == <<proc[p].kind, key>>
             rest == [proc[p] EXCEPT !.todo = proc[p].todo \ {key}]
             hit == [rest EXCEPT !.pc = "check", !.item = x, !.seen = store[x]]
  <1>2. proc[p] \in ProcStates /\ proc[p].pc = "list" /\ key \in Keys
    BY <1>1 DEF ProcType, ProcStates, At
  <1>3. x \in Items /\ store[x] \in Lives \cup {None}
    BY <1>2 DEF Items, RestType, ProcStates
  <1>4. rest \in ProcStates
    BY <1>2 DEF ProcStates
  <1>5. hit \in ProcStates
    <2> HIDE DEF rest, x
    <2> QED BY <1>3, <1>4, RecordTyped DEF Steps
  <1>6. /\ rest.pc = "list" /\ rest.item = proc[p].item /\ rest.seen = proc[p].seen
        /\ rest.todo = proc[p].todo \ {key} /\ rest.doomed = proc[p].doomed
        /\ rest.kind = proc[p].kind /\ rest.plan = proc[p].plan
    BY <1>2 DEF ProcStates
  <1>7. /\ hit.pc = "check" /\ hit.item = x /\ hit.seen = store[x]
        /\ hit.todo = proc[p].todo \ {key} /\ hit.doomed = proc[p].doomed
        /\ hit.kind = proc[p].kind /\ hit.plan = proc[p].plan
    <2> HIDE DEF rest, x
    <2> QED BY <1>4, <1>6 DEF ProcStates
  <1>8. \/ store[x] = None /\ raced' = raced /\ proc' = [proc EXCEPT ![p] = rest]
        \/ store[x] # None /\ Begin(p, x) /\ proc' = [proc EXCEPT ![p] = hit]
    BY <1>1
  <1> HIDE DEF rest, hit
  <1>9. CASE store[x] = None /\ raced' = raced /\ proc' = [proc EXCEPT ![p] = rest]
    BY <1>3, <1>4, <1>6, <1>9, Assigned
  <1>10. CASE store[x] # None /\ Begin(p, x) /\ proc' = [proc EXCEPT ![p] = hit]
    BY <1>3, <1>5, <1>7, <1>10, Assigned
  <1> QED BY <1>8, <1>9, <1>10

(* A Range is over.                                                        *)
LEMMA ListDoneMoves ==
    ASSUME ProcType, NEW p \in Procs, ListDone(p)
    PROVE  /\ ProcType'
           /\ \/ /\ proc[p].plan # <<>>
                 /\ Becomes(p, "list", proc[p].item, proc[p].seen, Keys, proc[p].doomed,
                            Head(proc[p].plan), Tail(proc[p].plan))
              \/ proc[p].plan = <<>> /\ p = "closer" /\ Enters(p, "rename")
              \/ proc[p].plan = <<>> /\ p # "closer" /\ Enters(p, "idle")
  <1>0. proc[p] \in ProcStates /\ proc[p].pc = "list"
    BY DEF ProcType, ListDone, At
  <1>1. CASE proc[p].plan # <<>>
    <2> DEFINE r == [proc[p] EXCEPT !.kind = Head(proc[p].plan), !.plan = Tail(proc[p].plan),
                                    !.todo = Keys]
    <2>1. proc' = [proc EXCEPT ![p] = r]
      BY <1>1 DEF ListDone, ProcType
    <2>2. Head(proc[p].plan) \in Kinds /\ Tail(proc[p].plan) \in Seq(Kinds)
      BY <1>0, <1>1 DEF ProcStates
    <2>3. r \in ProcStates
      BY <1>0, <2>2 DEF ProcStates
    <2>4. /\ r.pc = "list" /\ r.item = proc[p].item /\ r.seen = proc[p].seen /\ r.todo = Keys
          /\ r.doomed = proc[p].doomed /\ r.kind = Head(proc[p].plan)
          /\ r.plan = Tail(proc[p].plan)
      BY <1>0 DEF ProcStates
    <2> HIDE DEF r
    <2> QED BY <1>1, <2>1, <2>3, <2>4, Assigned
  <1>2. CASE proc[p].plan = <<>> /\ p = "closer"
    <2>1. proc' = [proc EXCEPT ![p] = [Idle EXCEPT !.pc = "rename"]]
      BY <1>2 DEF ListDone, ProcType
    <2> QED BY <1>2, <2>1, EnterMoves DEF Steps
  <1>3. CASE proc[p].plan = <<>> /\ p # "closer"
    <2>1. proc' = [proc EXCEPT ![p] = Idle]
      BY <1>3 DEF ListDone, ProcType
    <2> QED BY <1>3, <2>1, IdleMoves
  <1> QED BY <1>1, <1>2, <1>3

(* The cleaner looks at a key of the shard, and has deleted one.           *)
LEMMA CollectMoves ==
    ASSUME ProcType, RestType, Collect
    PROVE  /\ ProcType'
           /\ \E key \in proc["cleaner"].todo, d \in SUBSET Keys :
                 /\ \/ d = proc["cleaner"].doomed /\ raced' = raced
                    \/ /\ d = proc["cleaner"].doomed \cup {key}
                       /\ store[<<"kv", key>>] = 0 /\ Begin("cleaner", <<"kv", key>>)
                 /\ Becomes("cleaner", "collect", proc["cleaner"].item, proc["cleaner"].seen,
                            proc["cleaner"].todo \ {key}, d, proc["cleaner"].kind,
                            proc["cleaner"].plan)
  <1> DEFINE c == proc["cleaner"]
  <1>0. c \in ProcStates /\ c.pc = "collect" /\ "cleaner" \in Procs
    BY ProcFacts DEF ProcType, Collect, At
  <1>1. PICK key \in c.todo :
           LET hit == store[<<"kv", key>>] # None /\ Expired(store[<<"kv", key>>])
           IN  /\ proc' = [proc EXCEPT !["cleaner"].todo = @ \ {key},
                                       !["cleaner"].doomed = IF hit THEN @ \cup {key} ELSE @]
               /\ IF hit THEN Begin("cleaner", <<"kv", key>>) ELSE raced' = raced
    BY DEF Collect
  <1> DEFINE d == IF store[<<"kv", key>>] # None /\ Expired(store[<<"kv", key>>])
                  THEN c.doomed \cup {key} ELSE c.doomed
             r == [c EXCEPT !.todo = c.todo \ {key}, !.doomed = d]
  <1>2. d \in SUBSET Keys
    BY <1>0 DEF ProcStates
  <1>3. \/ d = c.doomed /\ raced' = raced
        \/ /\ d = c.doomed \cup {key}
           /\ store[<<"kv", key>>] = 0 /\ Begin("cleaner", <<"kv", key>>)
    BY <1>1 DEF Expired
  <1>4. proc' = [proc EXCEPT !["cleaner"] = r]
    BY <1>0, <1>1 DEF ProcType, ProcStates
  <1> HIDE DEF d
  <1>5. r \in ProcStates
    BY <1>0, <1>2 DEF ProcStates
  <1>6. /\ r.pc = "collect" /\ r.item = c.item /\ r.seen = c.seen /\ r.todo = c.todo \ {key}
        /\ r.doomed = d /\ r.kind = c.kind /\ r.plan = c.plan
    BY <1>0 DEF ProcStates
  <1> HIDE DEF r
  <1>7. ProcType' /\ Becomes("cleaner", r.pc, r.item, r.seen, r.todo, r.doomed, r.kind, r.plan)
    BY <1>0, <1>4, <1>5, Assigned
  <1> QED BY <1>2, <1>3, <1>6, <1>7

(* The cleaner has deleted a key and counts it.                            *)
LEMMA PurgeCountMoves ==
    ASSUME ProcType, PurgeCount
    PROVE  /\ ProcType'
           /\ Becomes("cleaner", "purge", NoItem, proc["cleaner"].seen, proc["cleaner"].todo,
                      proc["cleaner"].doomed \ {proc["cleaner"].item[2]},
                      proc["cleaner"].kind, proc["cleaner"].plan)
  <1> DEFINE c == proc["cleaner"]
             d == c.doomed \ {c.item[2]}
             r == [c EXCEPT !.item = NoItem, !.doomed = d]
  <1>0. c \in ProcStates /\ c.pc = "purge" /\ "cleaner" \in Procs
    BY ProcFacts DEF ProcType, PurgeCount, At
  <1>1. proc' = [proc EXCEPT !["cleaner"] = r]
    BY <1>0 DEF PurgeCount, ProcType, ProcStates
  <1>2. d \in SUBSET c.doomed
    OBVIOUS
  <1> HIDE DEF d
  <1>3. r \in ProcStates
    BY <1>0, <1>2 DEF ProcStates
  <1>4. /\ r.pc = "purge" /\ r.item = NoItem /\ r.seen = c.seen /\ r.todo = c.todo
        /\ r.doomed = d /\ r.kind = c.kind /\ r.plan = c.plan
    BY <1>0 DEF ProcStates
  <1> HIDE DEF r
  <1>5. ProcType' /\ Becomes("cleaner", r.pc, r.item, r.seen, r.todo, r.doomed, r.kind, r.plan)
    BY <1>0, <1>1, <1>3, Assigned
  <1>6. /\ ProcType'
        /\ Becomes("cleaner", "purge", NoItem, c.seen, c.todo, d, c.kind, c.plan)
    BY <1>4, <1>5
  <1> QED BY <1>6 DEF d

(* A tick ages the entries that goroutines have in hand.                   *)
LEMMA TickMoves ==
    ASSUME ProcType, Tick
    PROVE  /\ ProcType'
           /\ \A p \in Procs :
                /\ proc'[p].pc = proc[p].pc /\ proc'[p].item = proc[p].item
                /\ proc'[p].seen = Aged(proc[p].seen) /\ proc'[p].todo = proc[p].todo
                /\ proc'[p].doomed = proc[p].doomed /\ proc'[p].kind = proc[p].kind
                /\ proc'[p].plan = proc[p].plan
  <1>1. proc' = [p \in Procs |-> [proc[p] EXCEPT !.seen = Aged(proc[p].seen)]]
    BY DEF Tick
  <1>2. ASSUME NEW p \in Procs
        PROVE  /\ proc'[p] \in ProcStates
               /\ proc'[p].pc = proc[p].pc /\ proc'[p].item = proc[p].item
               /\ proc'[p].seen = Aged(proc[p].seen) /\ proc'[p].todo = proc[p].todo
               /\ proc'[p].doomed = proc[p].doomed /\ proc'[p].kind = proc[p].kind
               /\ proc'[p].plan = proc[p].plan
    <2> DEFINE r == proc[p]
    <2>1. r \in ProcStates
      BY DEF ProcType
    <2>2. Aged(r.seen) \in Lives \cup {None}
      BY <2>1, LifeFacts DEF ProcStates
    <2>3. proc'[p] = [r EXCEPT !.seen = Aged(r.seen)]
      BY <1>1
    <2> HIDE DEF r
    <2>4. /\ proc'[p] \in ProcStates
          /\ proc'[p].pc = r.pc /\ proc'[p].item = r.item /\ proc'[p].seen = Aged(r.seen)
          /\ proc'[p].todo = r.todo /\ proc'[p].doomed = r.doomed /\ proc'[p].kind = r.kind
          /\ proc'[p].plan = r.plan
      BY <2>1, <2>2, <2>3 DEF ProcStates
    <2> QED BY <2>4 DEF r
  <1> QED BY <1>1, <1>2 DEF ProcType

(* The calls and the steps after them.                                     *)
LEMMA GetFromMoves ==
    ASSUME ProcType, RestType, NEW p \in Clients, NEW k \in Kinds, GetFrom(p, k)
    PROVE  /\ ProcType' /\ proc[p].pc = "idle" /\ k \in inUse
           /\ \E x \in ItemsOf(k) : /\ store[x] # None /\ Begin(p, x)
                                   /\ Holds(p, "check", x, store[x])
  <1>1. PICK x \in ItemsOf(k) : store[x] # None /\ Begin(p, x) /\ Hold(p, "check", x, store[x])
    BY DEF GetFrom
  <1>2. p \in Procs /\ x \in Items /\ store[x] \in Lives \cup {None} /\ "check" \in Steps
    BY ProcFacts DEF RestType, Steps
  <1>3. proc[p].pc = "idle" /\ k \in inUse
    BY DEF GetFrom, Calls, At
  <1> QED BY <1>1, <1>2, <1>3, HoldMoves

(* Delete finds the entry it is to erase.                                  *)
LEMMA DeleteFromMoves ==
    ASSUME ProcType, RestType, NEW p \in Clients, NEW k \in Kinds, DeleteFrom(p, k)
    PROVE  /\ ProcType' /\ proc[p].pc = "idle" /\ k \in inUse
           /\ \E x \in ItemsOf(k) : /\ store[x] # None /\ Begin(p, x)
                                   /\ Holds(p, "erase", x, None)
  <1>1. PICK x \in ItemsOf(k) : store[x] # None /\ Begin(p, x) /\ Hold(p, "erase", x, None)
    BY DEF DeleteFrom
  <1>2. p \in Procs /\ x \in Items /\ "erase" \in Steps
    BY ProcFacts DEF Steps
  <1>3. proc[p].pc = "idle" /\ k \in inUse
    BY DEF DeleteFrom, Calls, At
  <1> QED BY <1>1, <1>2, <1>3, HoldMoves

(* Store has looked whether the item is new.                               *)
LEMMA StoreToMoves ==
    ASSUME ProcType, RestType, NEW p \in Clients, NEW k \in Typed, StoreTo(p, k)
    PROVE  /\ ProcType' /\ proc[p].pc = "idle" /\ k \in inUse
           /\ \E x \in ItemsOf(k), l \in 0..MaxLife :
                /\ Begin(p, x)
                /\ \/ store[x] = None /\ Holds(p, "writeNew", x, l)
                   \/ store[x] # None /\ Holds(p, "writeOver", x, l)
  <1>1. PICK x \in ItemsOf(k), l \in 0..MaxLife :
            /\ Begin(p, x)
            /\ Hold(p, IF store[x] = None THEN "writeNew" ELSE "writeOver", x, l)
    BY DEF StoreTo
  <1>2. /\ p \in Procs /\ x \in Items /\ l \in Lives \cup {None}
        /\ "writeNew" \in Steps /\ "writeOver" \in Steps
    BY ProcFacts, LifeFacts DEF Steps
  <1>3. proc[p].pc = "idle" /\ k \in inUse
    BY DEF StoreTo, Calls, At
  <1>4. CASE store[x] = None
    <2>1. Hold(p, "writeNew", x, l)
      BY <1>1, <1>4
    <2> QED BY <1>1, <1>2, <1>3, <1>4, <2>1, HoldMoves
  <1>5. CASE store[x] # None
    <2>1. Hold(p, "writeOver", x, l)
      BY <1>1, <1>5
    <2> QED BY <1>1, <1>2, <1>3, <1>5, <2>1, HoldMoves
  <1> QED BY <1>4, <1>5

(* Set puts an entry and has to count it.                                  *)
LEMMA SetMoves ==
    ASSUME ProcType, RestType, NEW p \in Clients, Set(p)
    PROVE  /\ ProcType' /\ proc[p].pc = "idle" /\ "kv" \in inUse
           /\ \E x \in ItemsOf("kv"), l \in 1..Never :
                Put(x, l) /\ Begin(p, x) /\ Holds(p, "count", x, None)
  <1>1. PICK x \in ItemsOf("kv"), l \in 1..Never :
            Put(x, l) /\ Begin(p, x) /\ Hold(p, "count", x, None)
    BY DEF Set
  <1>2. p \in Procs /\ x \in Items /\ "count" \in Steps
    BY ProcFacts DEF Steps
  <1>3. proc[p].pc = "idle" /\ "kv" \in inUse
    BY DEF Set, Calls, At
  <1> QED BY <1>1, <1>2, <1>3, HoldMoves

(* The clock is read for the entry in hand.                                *)
LEMMA CheckMoves ==
    ASSUME ProcType, InHand, NEW p \in Procs, CheckExpired(p)
    PROVE  /\ ProcType' /\ proc[p].pc = "check"
           /\ proc[p].item \in Items /\ proc[p].seen \in Lives
           /\ \/ proc[p].seen = 0 /\ Holds(p, "remove", proc[p].item, None)
              \/ /\ proc[p].seen # 0 \/ (p = "closer" /\ proc[p].item[1] = "ami")
                 /\ \/ Holds(p, "list", NoItem, None)
                    \/ Enters(p, "idle") /\ p # "closer"
  <1>1. proc[p].pc = "check" /\ proc[p].item \in Items /\ proc[p].seen \in Lives
    BY DEF CheckExpired, At, InHand, WithItem, WithEntry
  <1>2. \/ proc[p].seen = 0 /\ Hold(p, "remove", proc[p].item, None)
        \/ /\ proc[p].seen # 0 \/ (p = "closer" /\ proc[p].item[1] = "ami")
           /\ Resume(p)
    BY DEF CheckExpired, Expired
  <1>3. CASE proc[p].seen = 0 /\ Hold(p, "remove", proc[p].item, None)
    <2>1. "remove" \in Steps
      BY DEF Steps
    <2> QED BY <1>1, <1>3, <2>1, HoldMoves
  <1>4. CASE /\ proc[p].seen # 0 \/ (p = "closer" /\ proc[p].item[1] = "ami")
             /\ Resume(p)
    BY <1>1, <1>4, ResumeMoves
  <1> QED BY <1>2, <1>3, <1>4

(* An expired entry is removed.                                            *)
LEMMA RemoveMoves ==
    ASSUME ProcType, InHand, NEW p \in Procs, RemoveExpired(p)
    PROVE  /\ ProcType' /\ proc[p].pc = "remove" /\ proc[p].item \in Items
           /\ \/ proc[p].item[1] # "kv" /\ Holds(p, "uncount", proc[p].item, None)
              \/ /\ proc[p].item[1] = "kv"
                 /\ \/ Holds(p, "list", NoItem, None)
                    \/ Enters(p, "idle") /\ p # "closer"
  <1>1. proc[p].pc = "remove" /\ proc[p].item \in Items
    BY DEF RemoveExpired, At, InHand, WithItem
  <1>2. CASE proc[p].item[1] # "kv"
    <2>1. Hold(p, "uncount", proc[p].item, None) /\ "uncount" \in Steps
      BY <1>2 DEF RemoveExpired, Steps
    <2> QED BY <1>1, <1>2, <2>1, HoldMoves
  <1>3. CASE proc[p].item[1] = "kv"
    <2>1. Resume(p)
      BY <1>3 DEF RemoveExpired
    <2> QED BY <1>1, <1>3, <2>1, ResumeMoves
  <1> QED BY <1>2, <1>3

(* A removal is counted.                                                   *)
LEMMA CountDownMoves ==
    ASSUME ProcType, InHand, NEW p \in Procs, CountDown(p)
    PROVE  /\ ProcType' /\ proc[p].pc = "uncount" /\ proc[p].item \in Items
           /\ \/ Holds(p, "list", NoItem, None)
              \/ Enters(p, "idle") /\ p # "closer"
  <1>1. proc[p].pc = "uncount" /\ proc[p].item \in Items /\ Resume(p)
    BY DEF CountDown, At, InHand, WithItem
  <1> QED BY <1>1, ResumeMoves

(* Store writes an item that was new when it looked.                       *)
LEMMA WriteNewMoves ==
    ASSUME ProcType, InHand, NEW p \in Procs, WriteNew(p)
    PROVE  /\ ProcType' /\ proc[p].pc = "writeNew"
           /\ proc[p].item \in Items /\ proc[p].item[1] # "kv"
           /\ proc[p].seen \in Lives /\ proc[p].seen <= MaxLife
           /\ Holds(p, "count", proc[p].item, None)
  <1>1. /\ proc[p].pc = "writeNew" /\ proc[p].item \in Items /\ proc[p].item[1] # "kv"
        /\ proc[p].seen \in Lives /\ proc[p].seen <= MaxLife
    BY DEF WriteNew, At, InHand, WithItem, WithEntry, Writing
  <1>2. Hold(p, "count", proc[p].item, None) /\ "count" \in Steps
    BY DEF WriteNew, Steps
  <1> QED BY <1>1, <1>2, HoldMoves

(* Store writes an item that was there when it looked.                     *)
LEMMA WriteOverMoves ==
    ASSUME ProcType, InHand, NEW p \in Procs, WriteOver(p)
    PROVE  /\ ProcType' /\ proc[p].pc = "writeOver"
           /\ proc[p].item \in Items /\ proc[p].item[1] # "kv"
           /\ proc[p].seen \in Lives /\ proc[p].seen <= MaxLife
           /\ Enters(p, "idle")
  <1>1. /\ proc[p].pc = "writeOver" /\ proc[p].item \in Items /\ proc[p].item[1] # "kv"
        /\ proc[p].seen \in Lives /\ proc[p].seen <= MaxLife
    BY DEF WriteOver, At, InHand, WithItem, WithEntry, Writing
  <1>2. proc' = [proc EXCEPT ![p] = Idle]
    BY DEF WriteOver
  <1> QED BY <1>1, <1>2, IdleMoves

(* A new item is counted.                                                  *)
LEMMA CountUpMoves ==
    ASSUME ProcType, InHand, NEW p \in Procs, CountUp(p)
    PROVE  ProcType' /\ proc[p].pc = "count" /\ proc[p].item \in Items /\ Enters(p, "idle")
  <1>1. proc[p].pc = "count" /\ proc[p].item \in Items
    BY DEF CountUp, At, InHand, WithItem
  <1>2. proc' = [proc EXCEPT ![p] = Idle]
    BY DEF CountUp
  <1> QED BY <1>1, <1>2, IdleMoves

(* Delete removes what is there by now.                                    *)
LEMMA EraseMoves ==
    ASSUME ProcType, InHand, NEW p \in Procs, Erase(p)
    PROVE  /\ ProcType' /\ proc[p].pc = "erase" /\ proc[p].item \in Items
           /\ Holds(p, "uncount", proc[p].item, None)
  <1>1. proc[p].pc = "erase" /\ proc[p].item \in Items
    BY DEF Erase, At, InHand, WithItem
  <1>2. Hold(p, "uncount", proc[p].item, None) /\ "uncount" \in Steps
    BY DEF Erase, Steps
  <1> QED BY <1>1, <1>2, HoldMoves

(* Cleanup deletes a key that it has collected.                            *)
LEMMA PurgeMoves ==
    ASSUME ProcType, Purge
    PROVE  /\ ProcType' /\ proc["cleaner"].pc = "purge"
           /\ \E key \in proc["cleaner"].doomed :
                /\ <<"kv", key>> \in Items /\ Take(<<"kv", key>>)
                /\ Holds("cleaner", "purge", <<"kv", key>>, None)
  <1>1. PICK key \in proc["cleaner"].doomed :
            Take(<<"kv", key>>) /\ Hold("cleaner", "purge", <<"kv", key>>, None)
    BY DEF Purge
  <1>2. proc["cleaner"].pc = "purge" /\ "purge" \in Steps /\ "cleaner" \in Procs
    BY ProcFacts DEF Purge, At, Steps
  <1>3. <<"kv", key>> \in Items
    BY <1>2, ProcFacts DEF ProcType, ProcStates, Items
  <1> QED BY <1>1, <1>2, <1>3, HoldMoves

(* The steps of the cleaner and the closer that only change their step.    *)
LEMMA RoleMoves ==
    ASSUME ProcType
    PROVE  /\ CollectDone => /\ ProcType' /\ proc["cleaner"].pc = "collect"
                             /\ Holds("cleaner", "purge", proc["cleaner"].item, proc["cleaner"].seen)
           /\ PurgeDone => /\ ProcType' /\ proc["cleaner"].pc = "purge"
                           /\ Holds("cleaner", "list", proc["cleaner"].item, proc["cleaner"].seen)
           /\ CleanerExit => /\ ProcType' /\ proc["cleaner"].pc = "idle"
                             /\ Holds("cleaner", "exited", proc["cleaner"].item,
                                      proc["cleaner"].seen)
           /\ Close => /\ ProcType' /\ proc["closer"].pc = "idle"
                       /\ Holds("closer", "waitCleaner", proc["closer"].item, proc["closer"].seen)
           /\ PersistRename => /\ ProcType' /\ proc["closer"].pc = "rename"
                               /\ Holds("closer", "closed", proc["closer"].item,
                                        proc["closer"].seen)
           /\ CloseUnsaved => /\ ProcType' /\ proc["closer"].pc = "waitCleaner"
                              /\ Holds("closer", "closed", proc["closer"].item,
                                       proc["closer"].seen)
           /\ PersistFails => /\ ProcType' /\ proc["closer"].pc \in {"list", "rename"}
                              /\ Enters("closer", "exited")
           /\ Down => ProcType' /\ \A p \in Procs : proc'[p] = Idle
  <1>1. /\ "cleaner" \in Procs /\ "closer" \in Procs
        /\ {"purge", "list", "exited", "waitCleaner", "closed"} \subseteq Steps
    BY ProcFacts DEF Steps
  <1>2. CollectDone => /\ ProcType' /\ proc["cleaner"].pc = "collect"
                       /\ Holds("cleaner", "purge", proc["cleaner"].item, proc["cleaner"].seen)
    BY <1>1, StepMoves DEF CollectDone, At
  <1>3. PurgeDone => /\ ProcType' /\ proc["cleaner"].pc = "purge"
                     /\ Holds("cleaner", "list", proc["cleaner"].item, proc["cleaner"].seen)
    BY <1>1, StepMoves DEF PurgeDone, At
  <1>4. CleanerExit => /\ ProcType' /\ proc["cleaner"].pc = "idle"
                       /\ Holds("cleaner", "exited", proc["cleaner"].item, proc["cleaner"].seen)
    BY <1>1, StepMoves DEF CleanerExit, At
  <1>5. Close => /\ ProcType' /\ proc["closer"].pc = "idle"
                 /\ Holds("closer", "waitCleaner", proc["closer"].item, proc["closer"].seen)
    BY <1>1, StepMoves DEF Close, At
  <1>6. PersistRename => /\ ProcType' /\ proc["closer"].pc = "rename"
                         /\ Holds("closer", "closed", proc["closer"].item, proc["closer"].seen)
    BY <1>1, StepMoves DEF PersistRename, At
  <1>7. PersistFails => /\ ProcType' /\ proc["closer"].pc \in {"list", "rename"}
                        /\ Enters("closer", "exited")
    BY <1>1, EnterMoves DEF PersistFails
  <1>8. Down => ProcType' /\ \A p \in Procs : proc'[p] = Idle
    BY IdleTyped DEF Down, ProcType
  <1>9. CloseUnsaved => /\ ProcType' /\ proc["closer"].pc = "waitCleaner"
                        /\ Holds("closer", "closed", proc["closer"].item, proc["closer"].seen)
    BY <1>1, StepMoves DEF CloseUnsaved, At
  <1> QED BY <1>2, <1>3, <1>4, <1>5, <1>6, <1>7, <1>8, <1>9

-----------------------------------------------------------------------------
(* The invariants                                                          *)

(* Every step leaves the goroutines' records in their types.               *)
LEMMA ProcTypeInductive == ProcType /\ RestType /\ InHand /\ [Next]_vars => ProcType'
  <1> SUFFICES ASSUME ProcType, RestType, InHand, [Next]_vars
               PROVE  ProcType'
    OBVIOUS
  <1> USE ProcFacts
  <1>1. ASSUME NEW p \in Clients, NEW k \in Kinds, GetFrom(p, k) PROVE ProcType'
    BY <1>1, GetFromMoves
  <1>2. ASSUME NEW p \in Clients, NEW k \in Kinds, DeleteFrom(p, k) PROVE ProcType'
    BY <1>2, DeleteFromMoves
  <1>3. ASSUME NEW p \in Clients, NEW k \in Kinds, ListOf(p, k) PROVE ProcType'
    BY <1>3, ListOfMoves
  <1>4. ASSUME NEW p \in Clients, NEW k \in Typed, StoreTo(p, k) PROVE ProcType'
    BY <1>4, StoreToMoves
  <1>5. ASSUME NEW p \in Clients, Set(p) PROVE ProcType'
    BY <1>5, SetMoves
  <1>6. ASSUME NEW p \in Procs, CheckExpired(p) PROVE ProcType'
    BY <1>6, CheckMoves
  <1>7. ASSUME NEW p \in Procs, RemoveExpired(p) PROVE ProcType'
    BY <1>7, RemoveMoves
  <1>8. ASSUME NEW p \in Procs, CountDown(p) PROVE ProcType'
    BY <1>8, CountDownMoves
  <1>9. ASSUME NEW p \in Procs, WriteNew(p) PROVE ProcType'
    BY <1>9, WriteNewMoves
  <1>10. ASSUME NEW p \in Procs, WriteOver(p) PROVE ProcType'
    BY <1>10, WriteOverMoves
  <1>11. ASSUME NEW p \in Procs, CountUp(p) PROVE ProcType'
    BY <1>11, CountUpMoves
  <1>12. ASSUME NEW p \in Procs, Erase(p) PROVE ProcType'
    BY <1>12, EraseMoves
  <1>13. ASSUME NEW p \in Procs, Visit(p) PROVE ProcType'
    BY <1>13, VisitMoves
  <1>14. ASSUME NEW p \in Procs, ListDone(p) PROVE ProcType'
    BY <1>14, ListDoneMoves
  <1>15. CASE Cleanup
    BY <1>15, CleanupMoves
  <1>16. CASE Collect
    BY <1>16, CollectMoves
  <1>17. CASE CollectDone
    BY <1>17, RoleMoves
  <1>18. CASE Purge
    BY <1>18, PurgeMoves
  <1>19. CASE PurgeCount
    BY <1>19, PurgeCountMoves
  <1>20. CASE PurgeDone
    BY <1>20, RoleMoves
  <1>21. CASE CleanerExit
    BY <1>21, RoleMoves
  <1>22. CASE Close
    BY <1>22, RoleMoves
  <1>23. CASE PersistBegin
    BY <1>23, PersistMoves
  <1>24. CASE PersistFails
    BY <1>24, RoleMoves
  <1>25. CASE PersistRename
    BY <1>25, RoleMoves
  <1>26. CASE Down
    BY <1>26, RoleMoves
  <1>27. CASE NewMemoryStorage
    BY <1>27 DEF NewMemoryStorage, ProcType
  <1>28. CASE Tick
    BY <1>28, TickMoves
  <1>29. CASE UNCHANGED vars
    BY <1>29 DEF ProcType, vars
  <1>30. CASE CloseUnsaved
    BY <1>30, RoleMoves
  <1> QED
    BY StepCases, <1>1, <1>2, <1>3, <1>4, <1>5, <1>6, <1>7, <1>8, <1>9, <1>10, <1>11,
       <1>12, <1>13, <1>14, <1>15, <1>16, <1>17, <1>18, <1>19, <1>20, <1>21, <1>22, <1>23,
       <1>24, <1>25, <1>26, <1>27, <1>28, <1>29, <1>30
    DEF Continue

(* A goroutine has the item and the entry in hand that its next step uses. *)
LEMMA InHandInductive == ProcType /\ RestType /\ InHand /\ [Next]_vars => InHand'
  <1> SUFFICES ASSUME ProcType, RestType, InHand, [Next]_vars
               PROVE  InHand'
    OBVIOUS
  <1> USE ProcFacts, LifeFacts
      DEF InHand, WithItem, WithEntry, Writing, Holds, Enters, Becomes
  <1>1. ASSUME NEW p \in Clients, NEW k \in Kinds, GetFrom(p, k) PROVE InHand'
    BY <1>1, GetFromMoves DEF RestType
  <1>2. ASSUME NEW p \in Clients, NEW k \in Kinds, DeleteFrom(p, k) PROVE InHand'
    BY <1>2, DeleteFromMoves
  <1>3. ASSUME NEW p \in Clients, NEW k \in Kinds, ListOf(p, k) PROVE InHand'
    BY <1>3, ListOfMoves
  <1>4. ASSUME NEW p \in Clients, NEW k \in Typed, StoreTo(p, k) PROVE InHand'
    <2>1. \A x \in ItemsOf(k) : x[1] = k /\ x[1] # "kv" /\ x \in Items
      BY DEF ItemsOf, Typed
    <2>2. \A l \in 0..MaxLife : l \in Lives /\ l <= MaxLife
      OBVIOUS
    <2> QED BY <1>4, <2>1, <2>2, StoreToMoves
  <1>5. ASSUME NEW p \in Clients, Set(p) PROVE InHand'
    BY <1>5, SetMoves
  <1>6. ASSUME NEW p \in Procs, CheckExpired(p) PROVE InHand'
    BY <1>6, CheckMoves
  <1>7. ASSUME NEW p \in Procs, RemoveExpired(p) PROVE InHand'
    BY <1>7, RemoveMoves
  <1>8. ASSUME NEW p \in Procs, CountDown(p) PROVE InHand'
    BY <1>8, CountDownMoves
  <1>9. ASSUME NEW p \in Procs, WriteNew(p) PROVE InHand'
    BY <1>9, WriteNewMoves
  <1>10. ASSUME NEW p \in Procs, WriteOver(p) PROVE InHand'
    BY <1>10, WriteOverMoves
  <1>11. ASSUME NEW p \in Procs, CountUp(p) PROVE InHand'
    BY <1>11, CountUpMoves
  <1>12. ASSUME NEW p \in Procs, Erase(p) PROVE InHand'
    BY <1>12, EraseMoves
  <1>13. ASSUME NEW p \in Procs, Visit(p) PROVE InHand'
    <2>1. \A x \in Items : store[x] # None => store[x] \in Lives
      BY DEF RestType
    <2>2. /\ \A q \in Procs \ {p} : proc'[q] = proc[q]
          /\ \/ proc'[p].pc = "list"
             \/ /\ proc'[p].pc = "check" /\ proc'[p].item \in Items
                /\ store[proc'[p].item] # None /\ proc'[p].seen = store[proc'[p].item]
      BY <1>13, VisitMoves
    <2> QED BY <2>1, <2>2
  <1>14. ASSUME NEW p \in Procs, ListDone(p) PROVE InHand'
    BY <1>14, ListDoneMoves
  <1>15. CASE Cleanup
    BY <1>15, CleanupMoves
  <1>16. CASE Collect
    BY <1>16, CollectMoves
  <1>17. CASE CollectDone
    BY <1>17, RoleMoves
  <1>18. CASE Purge
    BY <1>18, PurgeMoves
  <1>19. CASE PurgeCount
    BY <1>19, PurgeCountMoves
  <1>20. CASE PurgeDone
    BY <1>20, RoleMoves
  <1>21. CASE CleanerExit
    BY <1>21, RoleMoves
  <1>22. CASE Close
    BY <1>22, RoleMoves
  <1>23. CASE PersistBegin
    BY <1>23, PersistMoves
  <1>24. CASE PersistFails
    BY <1>24, RoleMoves
  <1>25. CASE PersistRename
    BY <1>25, RoleMoves
  <1>26. CASE Down
    BY <1>26, RoleMoves DEF Idle
  <1>27. CASE NewMemoryStorage
    BY <1>27 DEF NewMemoryStorage
  <1>28. CASE Tick
    BY <1>28, TickMoves
  <1>29. CASE UNCHANGED vars
    BY <1>29 DEF vars
  <1>30. CASE CloseUnsaved
    BY <1>30, RoleMoves
  <1> QED
    BY StepCases, <1>1, <1>2, <1>3, <1>4, <1>5, <1>6, <1>7, <1>8, <1>9, <1>10, <1>11,
       <1>12, <1>13, <1>14, <1>15, <1>16, <1>17, <1>18, <1>19, <1>20, <1>21, <1>22, <1>23,
       <1>24, <1>25, <1>26, <1>27, <1>28, <1>29, <1>30
    DEF Continue

(* Every step leaves the stores, the counters and the files in their       *)
(* types.                                                                  *)
LEMMA RestTypeInductive ==
    ProcType /\ RestType /\ InHand /\ DownBriefly /\ [Next]_vars => RestType'
  <1> SUFFICES ASSUME ProcType, RestType, InHand, DownBriefly, [Next]_vars
               PROVE  RestType'
    OBVIOUS
  <1> USE ProcFacts, LifeFacts
      DEF RestType, Begin, diskVars
  <1>1. ASSUME NEW p \in Clients, NEW k \in Kinds, GetFrom(p, k) PROVE RestType'
    BY <1>1, GetFromMoves DEF GetFrom, Calls
  <1>2. ASSUME NEW p \in Clients, NEW k \in Kinds, DeleteFrom(p, k) PROVE RestType'
    BY <1>2, DeleteFromMoves DEF DeleteFrom, Calls
  <1>3. ASSUME NEW p \in Clients, NEW k \in Kinds, ListOf(p, k) PROVE RestType'
    BY <1>3, ListOfMoves DEF ListOf
  <1>4. ASSUME NEW p \in Clients, NEW k \in Typed, StoreTo(p, k) PROVE RestType'
    BY <1>4, StoreToMoves DEF StoreTo, Calls
  <1>5. ASSUME NEW p \in Clients, Set(p) PROVE RestType'
    BY <1>5, SetMoves DEF Set, Put, Calls
  <1>6. ASSUME NEW p \in Procs, CheckExpired(p) PROVE RestType'
    BY <1>6, CheckMoves DEF CheckExpired
  <1>7. ASSUME NEW p \in Procs, RemoveExpired(p) PROVE RestType'
    BY <1>7, RemoveMoves DEF RemoveExpired, Take
  <1>8. ASSUME NEW p \in Procs, CountDown(p) PROVE RestType'
    <2>1. proc[p].item[1] \in Kinds
      BY <1>8, CountDownMoves, ItemFacts
    <2> QED BY <1>8, <2>1 DEF CountDown
  <1>9. ASSUME NEW p \in Procs, WriteNew(p) PROVE RestType'
    BY <1>9, WriteNewMoves DEF WriteNew, Put
  <1>10. ASSUME NEW p \in Procs, WriteOver(p) PROVE RestType'
    BY <1>10, WriteOverMoves DEF WriteOver, Put
  <1>11. ASSUME NEW p \in Procs, CountUp(p) PROVE RestType'
    <2>1. proc[p].item[1] \in Kinds
      BY <1>11, CountUpMoves, ItemFacts
    <2> QED BY <1>11, <2>1 DEF CountUp
  <1>12. ASSUME NEW p \in Procs, Erase(p) PROVE RestType'
    BY <1>12, EraseMoves DEF Erase, Take
  <1>13. ASSUME NEW p \in Procs, Visit(p) PROVE RestType'
    <2>1. \A key \in proc[p].todo : <<proc[p].kind, key>> \in Items
      BY ItemFacts DEF ProcType, ProcStates
    <2>2. raced' \in SUBSET Items
      BY <1>13, <2>1 DEF Visit
    <2> QED BY <1>13, <2>2 DEF Visit
  <1>14. ASSUME NEW p \in Procs, ListDone(p) PROVE RestType'
    <2>1. {proc[p].kind} \cap Sections \subseteq Kinds
      BY DEF Sections
    <2>2. tmp' \in [lists : SUBSET Kinds, entry : [Items -> Lives \cup {None}]]
      BY <1>14, <2>1 DEF ListDone
    <2> QED BY <1>14, <2>2 DEF ListDone
  <1>15. CASE Cleanup
    BY <1>15, CleanupMoves DEF Cleanup
  <1>16. CASE Collect
    BY <1>16, ProcFacts DEF Collect, ProcType, ProcStates, Items
  <1>17. CASE CollectDone
    BY <1>17, RoleMoves DEF CollectDone
  <1>18. CASE Purge
    BY <1>18, PurgeMoves DEF Purge, Take
  <1>19. CASE PurgeCount
    BY <1>19, PurgeCountMoves DEF PurgeCount
  <1>20. CASE PurgeDone
    BY <1>20, RoleMoves DEF PurgeDone
  <1>21. CASE CleanerExit
    BY <1>21, RoleMoves DEF CleanerExit
  <1>22. CASE Close
    BY <1>22, ItemFacts DEF Close
  <1>23. CASE PersistBegin
    BY <1>23, EmptyTyped DEF PersistBegin
  <1>24. CASE PersistFails
    BY <1>24, RoleMoves DEF PersistFails
  <1>25. CASE PersistRename
    BY <1>25, EmptyTyped DEF PersistRename
  <1>26. CASE Down
    <2>1. count' \in [Kinds -> Int]
      BY <1>26 DEF Down
    <2> QED BY <1>26, <2>1, EmptyTyped DEF Down
  <1>27. CASE NewMemoryStorage
    <2>1. loadFromFile \in [Items -> Lives \cup {None}]
      BY DEF loadFromFile
    <2>3. count' \in [Kinds -> Int]
      <3>1. ASSUME NEW k \in Kinds
            PROVE  Cardinality({x \in ItemsOf(k) : loadFromFile[x] # None}) \in Int
        <4> DEFINE S == {x \in ItemsOf(k) : loadFromFile[x] # None}
        <4>1. S \in SUBSET ItemsOf(k)
          OBVIOUS
        <4> HIDE DEF S
        <4>2. Cardinality(S) \in Nat
          BY <4>1, ItemsFinite
        <4> QED BY <4>2 DEF S
      <3> QED BY <1>27, <3>1 DEF NewMemoryStorage
    <2>4. restarts' \in 0..MaxRestarts
      BY <1>27, StorageAssumption DEF NewMemoryStorage, DownBriefly
    <2> QED BY <1>27, <2>1, <2>3, <2>4 DEF NewMemoryStorage
  <1>28. CASE Tick
    BY <1>28, TickMoves DEF Tick
  <1>29. CASE UNCHANGED vars
    BY <1>29 DEF vars
  <1>30. CASE CloseUnsaved
    BY <1>30, EmptyTyped DEF CloseUnsaved
  <1> QED
    BY StepCases, <1>1, <1>2, <1>3, <1>4, <1>5, <1>6, <1>7, <1>8, <1>9, <1>10, <1>11,
       <1>12, <1>13, <1>14, <1>15, <1>16, <1>17, <1>18, <1>19, <1>20, <1>21, <1>22, <1>23,
       <1>24, <1>25, <1>26, <1>27, <1>28, <1>29, <1>30
    DEF Continue

(* While the process is down it only ages.                                 *)
LEMMA DownInductive == ProcType /\ DownBriefly /\ [Next]_vars => DownBriefly'
  <1> SUFFICES ASSUME ProcType, DownBriefly, [Next]_vars
               PROVE  DownBriefly'
    OBVIOUS
  <1> USE StorageAssumption
      DEF DownBriefly, At
  <1>1. ASSUME NEW p \in Clients, NEW k \in Kinds, GetFrom(p, k) PROVE DownBriefly'
    BY <1>1 DEF GetFrom, Calls
  <1>2. ASSUME NEW p \in Clients, NEW k \in Kinds, DeleteFrom(p, k) PROVE DownBriefly'
    BY <1>2 DEF DeleteFrom, Calls
  <1>3. ASSUME NEW p \in Clients, NEW k \in Kinds, ListOf(p, k) PROVE DownBriefly'
    BY <1>3 DEF ListOf
  <1>4. ASSUME NEW p \in Clients, NEW k \in Typed, StoreTo(p, k) PROVE DownBriefly'
    BY <1>4 DEF StoreTo, Calls
  <1>5. ASSUME NEW p \in Clients, Set(p) PROVE DownBriefly'
    BY <1>5 DEF Set, Put, Calls
  <1>6. ASSUME NEW p \in Procs, CheckExpired(p) PROVE DownBriefly'
    BY <1>6 DEF CheckExpired
  <1>7. ASSUME NEW p \in Procs, RemoveExpired(p) PROVE DownBriefly'
    BY <1>7 DEF RemoveExpired, Take
  <1>8. ASSUME NEW p \in Procs, CountDown(p) PROVE DownBriefly'
    BY <1>8 DEF CountDown
  <1>9. ASSUME NEW p \in Procs, WriteNew(p) PROVE DownBriefly'
    BY <1>9 DEF WriteNew, Put
  <1>10. ASSUME NEW p \in Procs, WriteOver(p) PROVE DownBriefly'
    BY <1>10 DEF WriteOver, Put
  <1>11. ASSUME NEW p \in Procs, CountUp(p) PROVE DownBriefly'
    BY <1>11 DEF CountUp
  <1>12. ASSUME NEW p \in Procs, Erase(p) PROVE DownBriefly'
    BY <1>12 DEF Erase, Take
  <1>13. ASSUME NEW p \in Procs, Visit(p) PROVE DownBriefly'
    BY <1>13 DEF Visit
  <1>14. ASSUME NEW p \in Procs, ListDone(p) PROVE DownBriefly'
    BY <1>14 DEF ListDone
  <1>15. CASE Cleanup
    BY <1>15 DEF Cleanup
  <1>16. CASE Collect
    BY <1>16 DEF Collect
  <1>17. CASE CollectDone
    BY <1>17 DEF CollectDone
  <1>18. CASE Purge
    BY <1>18 DEF Purge, Take
  <1>19. CASE PurgeCount
    BY <1>19 DEF PurgeCount
  <1>20. CASE PurgeDone
    BY <1>20 DEF PurgeDone
  <1>21. CASE CleanerExit
    BY <1>21 DEF CleanerExit
  <1>22. CASE Close
    BY <1>22 DEF Close
  <1>23. CASE PersistBegin
    BY <1>23 DEF PersistBegin
  <1>24. CASE PersistFails
    BY <1>24 DEF PersistFails
  <1>25. CASE PersistRename
    BY <1>25 DEF PersistRename
  <1>26. CASE Down
    BY <1>26, RoleMoves DEF Down, Idle
  <1>27. CASE NewMemoryStorage
    BY <1>27 DEF NewMemoryStorage
  <1>28. CASE Tick
    BY <1>28, TickMoves DEF Tick
  <1>29. CASE UNCHANGED vars
    BY <1>29 DEF vars
  <1>30. CASE CloseUnsaved
    BY <1>30 DEF CloseUnsaved
  <1> QED
    BY StepCases, <1>1, <1>2, <1>3, <1>4, <1>5, <1>6, <1>7, <1>8, <1>9, <1>10, <1>11,
       <1>12, <1>13, <1>14, <1>15, <1>16, <1>17, <1>18, <1>19, <1>20, <1>21, <1>22, <1>23,
       <1>24, <1>25, <1>26, <1>27, <1>28, <1>29, <1>30
    DEF Continue

-----------------------------------------------------------------------------
(* What the actions do to the stores, item by item.                        *)

Keeps == inUse' = inUse /\ store' = store

Puts(x, l) ==
    /\ inUse' = inUse
    /\ \A y \in Items : store'[y] = IF y = x THEN l ELSE store[y]
    /\ owed' = owed \ {x}

Takes(x) ==
    /\ inUse' = inUse
    /\ \A y \in Items : store'[y] = IF y = x THEN None ELSE store[y]
    /\ owed' = owed \ {x}

StoreStep ==
    \/ Keeps
    \/ \E x \in Items, l \in Lives :
          Puts(x, l) /\ x[1] \in inUse /\ (x[1] = "kv" \/ l <= MaxLife)
    \/ \E x \in Items : Takes(x)
    \/ Down \/ NewMemoryStorage \/ Tick

(* Put, item by item.                                                      *)
LEMMA Putting ==
    ASSUME RestType, NEW x \in Items, NEW l \in Lives, Put(x, l), inUse' = inUse
    PROVE  Puts(x, l)
  BY DEF Put, Puts, RestType

(* Take, item by item.                                                     *)
LEMMA Taking ==
    ASSUME RestType, NEW x \in Items, Take(x), inUse' = inUse
    PROVE  Takes(x)
  BY DEF Take, Takes, RestType

(* What a step does to the stores: nothing, or it puts or takes one entry, *)
(* or the process goes down, comes up, or time passes.                     *)
LEMMA StoreCases == ProcType /\ RestType /\ InHand /\ WritersInUse /\ [Next]_vars => StoreStep
  <1> SUFFICES ASSUME ProcType, RestType, InHand, WritersInUse, [Next]_vars
               PROVE  StoreStep
    OBVIOUS
  <1> USE DEF StoreStep, Keeps, diskVars
  <1>1. ASSUME NEW p \in Clients, NEW k \in Kinds, GetFrom(p, k) PROVE StoreStep
    BY <1>1 DEF GetFrom, Calls
  <1>2. ASSUME NEW p \in Clients, NEW k \in Kinds, DeleteFrom(p, k) PROVE StoreStep
    BY <1>2 DEF DeleteFrom, Calls
  <1>3. ASSUME NEW p \in Clients, NEW k \in Kinds, ListOf(p, k) PROVE StoreStep
    BY <1>3 DEF ListOf
  <1>4. ASSUME NEW p \in Clients, NEW k \in Typed, StoreTo(p, k) PROVE StoreStep
    BY <1>4 DEF StoreTo, Calls
  <1>5. ASSUME NEW p \in Clients, Set(p) PROVE StoreStep
    <2>1. PICK x \in ItemsOf("kv"), l \in 1..Never : Put(x, l)
      BY <1>5 DEF Set
    <2>2. "kv" \in inUse /\ inUse' = inUse
      BY <1>5 DEF Set, Calls
    <2>3. x \in Items /\ x[1] = "kv" /\ l \in Lives
      BY ItemFacts, LifeFacts, ProcFacts
    <2> QED BY <2>1, <2>2, <2>3, Putting
  <1>6. ASSUME NEW p \in Procs, CheckExpired(p) PROVE StoreStep
    BY <1>6 DEF CheckExpired
  <1>7. ASSUME NEW p \in Procs, RemoveExpired(p) PROVE StoreStep
    <2>1. proc[p].item \in Items
      BY <1>7, RemoveMoves
    <2>2. Take(proc[p].item) /\ inUse' = inUse
      BY <1>7 DEF RemoveExpired
    <2> QED BY <2>1, <2>2, Taking
  <1>8. ASSUME NEW p \in Procs, CountDown(p) PROVE StoreStep
    BY <1>8 DEF CountDown
  <1>9. ASSUME NEW p \in Procs, WriteNew(p) PROVE StoreStep
    <2>1. /\ proc[p].item \in Items /\ proc[p].seen \in Lives /\ proc[p].seen <= MaxLife
          /\ proc[p].pc \in Writing
      BY <1>9, WriteNewMoves DEF Writing
    <2>2. Put(proc[p].item, proc[p].seen) /\ proc[p].item[1] \in inUse /\ inUse' = inUse
      BY <1>9, <2>1 DEF WriteNew, WritersInUse
    <2> QED BY <2>1, <2>2, Putting
  <1>10. ASSUME NEW p \in Procs, WriteOver(p) PROVE StoreStep
    <2>1. /\ proc[p].item \in Items /\ proc[p].seen \in Lives /\ proc[p].seen <= MaxLife
          /\ proc[p].pc \in Writing
      BY <1>10, WriteOverMoves DEF Writing
    <2>2. Put(proc[p].item, proc[p].seen) /\ proc[p].item[1] \in inUse /\ inUse' = inUse
      BY <1>10, <2>1 DEF WriteOver, WritersInUse
    <2> QED BY <2>1, <2>2, Putting
  <1>11. ASSUME NEW p \in Procs, CountUp(p) PROVE StoreStep
    BY <1>11 DEF CountUp
  <1>12. ASSUME NEW p \in Procs, Erase(p) PROVE StoreStep
    <2>1. proc[p].item \in Items
      BY <1>12, EraseMoves
    <2>2. Take(proc[p].item) /\ inUse' = inUse
      BY <1>12 DEF Erase
    <2> QED BY <2>1, <2>2, Taking
  <1>13. ASSUME NEW p \in Procs, Visit(p) PROVE StoreStep
    BY <1>13 DEF Visit
  <1>14. ASSUME NEW p \in Procs, ListDone(p) PROVE StoreStep
    BY <1>14 DEF ListDone
  <1>15. CASE Cleanup
    BY <1>15 DEF Cleanup
  <1>16. CASE Collect
    BY <1>16 DEF Collect
  <1>17. CASE CollectDone
    BY <1>17 DEF CollectDone
  <1>18. CASE Purge
    <2>1. PICK key \in proc["cleaner"].doomed : <<"kv", key>> \in Items /\ Take(<<"kv", key>>)
      BY <1>18, PurgeMoves
    <2>2. inUse' = inUse
      BY <1>18 DEF Purge
    <2> QED BY <2>1, <2>2, Taking
  <1>19. CASE PurgeCount
    BY <1>19 DEF PurgeCount
  <1>20. CASE PurgeDone
    BY <1>20 DEF PurgeDone
  <1>21. CASE CleanerExit
    BY <1>21 DEF CleanerExit
  <1>22. CASE Close
    BY <1>22 DEF Close
  <1>23. CASE PersistBegin
    BY <1>23 DEF PersistBegin
  <1>24. CASE PersistFails
    BY <1>24 DEF PersistFails
  <1>25. CASE PersistRename
    BY <1>25 DEF PersistRename
  <1>26. CASE Down
    BY <1>26 DEF Down
  <1>27. CASE NewMemoryStorage
    BY <1>27 DEF NewMemoryStorage
  <1>28. CASE Tick
    BY <1>28 DEF Tick
  <1>29. CASE UNCHANGED vars
    BY <1>29 DEF vars
  <1>30. CASE CloseUnsaved
    BY <1>30 DEF CloseUnsaved
  <1> QED
    BY StepCases, <1>1, <1>2, <1>3, <1>4, <1>5, <1>6, <1>7, <1>8, <1>9, <1>10, <1>11,
       <1>12, <1>13, <1>14, <1>15, <1>16, <1>17, <1>18, <1>19, <1>20, <1>21, <1>22, <1>23,
       <1>24, <1>25, <1>26, <1>27, <1>28, <1>29, <1>30
    DEF Continue

(* The types of the entries, item by item.                                 *)
LEMMA EntryTypes ==
    ASSUME RestType
    PROVE  \A x \in Items :
              /\ store[x] \in Lives \cup {None}
              /\ tmp.entry[x] \in Lives \cup {None} /\ file.entry[x] \in Lives \cup {None}
  BY DEF RestType

(* What Down, NewMemoryStorage and Tick do to the entries.                 *)
LEMMA WholeSteps ==
    ASSUME RestType
    PROVE  /\ Down => /\ inUse' = inUse
                      /\ \A x \in Items : store'[x] = None
           /\ NewMemoryStorage =>
                /\ inUse' = inUse
                /\ \A x \in Items :
                     \/ store'[x] = None
                     \/ /\ file.entry[x] > 0
                        /\ store'[x] = file.entry[x]
           /\ Tick =>
                /\ inUse' = inUse
                /\ \A x \in Items :
                     /\ store'[x] = Aged(store[x])
                     /\ tmp'.entry[x] = Aged(tmp.entry[x]) /\ file'.entry[x] = Aged(file.entry[x])
                /\ tmp'.lists = tmp.lists /\ file'.lists = file.lists
  <1>1. Down => inUse' = inUse /\ \A x \in Items : store'[x] = None
    BY EmptyTyped DEF Down
  <1>2. ASSUME NewMemoryStorage
        PROVE  /\ inUse' = inUse
               /\ \A x \in Items :
                     \/ store'[x] = None
                     \/ /\ file.entry[x] > 0
                        /\ store'[x] = file.entry[x]
    <2>1. \A x \in Items : \/ loadFromFile[x] = None
                           \/ loadFromFile[x] = file.entry[x] /\ file.entry[x] > 0
      BY EntryTypes DEF loadFromFile, Expired, Lives, Never, None
    <2>2. \A x \in Items : store'[x] = loadFromFile[x]
      BY <1>2 DEF NewMemoryStorage
    <2>4. inUse' = inUse
      BY <1>2 DEF NewMemoryStorage
    <2>5. \A x \in Items : file.entry[x] > 0 => file.entry[x] # None
      BY DEF None
    <2> HIDE DEF loadFromFile
    <2> QED BY <2>1, <2>2, <2>4, <2>5
  <1>3. ASSUME Tick
        PROVE  /\ inUse' = inUse
               /\ \A x \in Items :
                     /\ store'[x] = Aged(store[x])
                     /\ tmp'.entry[x] = Aged(tmp.entry[x]) /\ file'.entry[x] = Aged(file.entry[x])
               /\ tmp'.lists = tmp.lists /\ file'.lists = file.lists
    <2> HIDE DEF Aged
    <2>1. /\ inUse' = inUse
          /\ \A x \in Items : store'[x] = Aged(store[x])
      BY <1>3 DEF Tick
    <2>2. tmp'.lists = tmp.lists /\ \A x \in Items : tmp'.entry[x] = Aged(tmp.entry[x])
      BY <1>3 DEF Tick, RestType
    <2>3. file'.lists = file.lists /\ \A x \in Items : file'.entry[x] = Aged(file.entry[x])
      BY <1>3 DEF Tick, RestType
    <2> QED BY <2>1, <2>2, <2>3
  <1> QED BY <1>1, <1>2, <1>3

(* Only stores in use get entries, and only Set stores entries without an  *)
(* end.                                                                    *)
LEMMA StoreBoundedInductive ==
    RestType /\ StoreStep /\ FilesSaveable /\ StoreBounded => StoreBounded'
  <1> SUFFICES ASSUME RestType, StoreStep, FilesSaveable, StoreBounded,
                      NEW x \in Items, store'[x] # None
               PROVE  x[1] \in inUse' /\ (x[1] = "kv" \/ store'[x] <= MaxLife)
    BY DEF StoreBounded
  <1> DEFINE Goal == x[1] \in inUse' /\ (x[1] = "kv" \/ store'[x] <= MaxLife)
  <1>0. /\ store[x] \in Lives \cup {None}
        /\ store[x] # None => x[1] \in inUse /\ (x[1] = "kv" \/ store[x] <= MaxLife)
    BY EntryTypes DEF StoreBounded
  <1>1. CASE Keeps
    BY <1>0, <1>1 DEF Keeps
  <1>2. ASSUME NEW y \in Items, NEW l \in Lives, Puts(y, l), y[1] \in inUse,
               y[1] = "kv" \/ l <= MaxLife
        PROVE  Goal
    BY <1>0, <1>2 DEF Puts
  <1>3. ASSUME NEW y \in Items, Takes(y) PROVE Goal
    BY <1>0, <1>3 DEF Takes
  <1>4. CASE Down
    BY <1>4, WholeSteps
  <1>5. CASE NewMemoryStorage
    <2>1. store'[x] = file.entry[x] /\ inUse' = inUse
      BY <1>5, WholeSteps
    <2> QED BY <2>1 DEF FilesSaveable, Saveable
  <1>6. CASE Tick
    <2>1. store'[x] = Aged(store[x]) /\ inUse' = inUse
      BY <1>6, WholeSteps
    <2>2. store[x] # None
      BY <2>1, <1>0, LifeFacts
    <2> QED BY <2>1, <2>2, <1>0, LifeFacts
  <1> QED BY <1>1, <1>2, <1>3, <1>4, <1>5, <1>6 DEF StoreStep

(* What a step does to an item that a goroutine has in hand: nothing, it   *)
(* is taken from the store, it is found expired, or it is one to be        *)
(* written to a store in use.                                              *)
HandStep(q) ==
    \/ proc'[q].pc \notin {"check", "remove"} \cup Writing
    \/ /\ proc'[q].pc = proc[q].pc /\ proc'[q].item = proc[q].item
       /\ proc'[q].seen = proc[q].seen
    \/ /\ proc'[q].pc = "check" /\ Keeps /\ proc'[q].item \in Items
       /\ store[proc'[q].item] # None /\ proc'[q].seen = store[proc'[q].item]
    \/ /\ proc'[q].pc = "remove" /\ Keeps /\ proc[q].pc = "check"
       /\ proc'[q].item = proc[q].item /\ proc[q].seen = 0
    \/ proc'[q].pc \in Writing /\ proc'[q].item[1] \in inUse

HandSteps == Down \/ Tick \/ \A q \in Procs : HandStep(q)

(* Every step treats the items in hand in one of these ways.               *)
LEMMA HandCases == ProcType /\ RestType /\ InHand /\ WritersInUse /\ [Next]_vars => HandSteps
  <1> SUFFICES ASSUME ProcType, RestType, InHand, WritersInUse, [Next]_vars
               PROVE  HandSteps
    OBVIOUS
  <1> USE ProcFacts
      DEF HandSteps, HandStep, Holds, Enters, Becomes, Writing
  <1>1. ASSUME NEW p \in Clients, NEW k \in Kinds, GetFrom(p, k) PROVE HandSteps
    <2>1. Keeps
      BY <1>1 DEF GetFrom, Keeps
    <2> QED BY <1>1, <2>1, GetFromMoves, ItemFacts
  <1>2. ASSUME NEW p \in Clients, NEW k \in Kinds, DeleteFrom(p, k) PROVE HandSteps
    BY <1>2, DeleteFromMoves
  <1>3. ASSUME NEW p \in Clients, NEW k \in Kinds, ListOf(p, k) PROVE HandSteps
    BY <1>3, ListOfMoves
  <1>4. ASSUME NEW p \in Clients, NEW k \in Typed, StoreTo(p, k) PROVE HandSteps
    BY <1>4, StoreToMoves, ItemFacts
  <1>5. ASSUME NEW p \in Clients, Set(p) PROVE HandSteps
    BY <1>5, SetMoves
  <1>6. ASSUME NEW p \in Procs, CheckExpired(p) PROVE HandSteps
    <2>1. Keeps
      BY <1>6 DEF CheckExpired, Keeps
    <2> QED BY <1>6, <2>1, CheckMoves
  <1>7. ASSUME NEW p \in Procs, RemoveExpired(p) PROVE HandSteps
    BY <1>7, RemoveMoves
  <1>8. ASSUME NEW p \in Procs, CountDown(p) PROVE HandSteps
    BY <1>8, CountDownMoves
  <1>9. ASSUME NEW p \in Procs, WriteNew(p) PROVE HandSteps
    BY <1>9, WriteNewMoves
  <1>10. ASSUME NEW p \in Procs, WriteOver(p) PROVE HandSteps
    BY <1>10, WriteOverMoves
  <1>11. ASSUME NEW p \in Procs, CountUp(p) PROVE HandSteps
    BY <1>11, CountUpMoves
  <1>12. ASSUME NEW p \in Procs, Erase(p) PROVE HandSteps
    BY <1>12, EraseMoves
  <1>13. ASSUME NEW p \in Procs, Visit(p) PROVE HandSteps
    <2>1. Keeps
      BY <1>13 DEF Visit, Keeps
    <2> QED BY <1>13, <2>1, VisitMoves
  <1>14. ASSUME NEW p \in Procs, ListDone(p) PROVE HandSteps
    BY <1>14, ListDoneMoves
  <1>15. CASE Cleanup
    BY <1>15, CleanupMoves
  <1>16. CASE Collect
    BY <1>16, CollectMoves
  <1>17. CASE CollectDone
    BY <1>17, RoleMoves
  <1>18. CASE Purge
    BY <1>18, PurgeMoves
  <1>19. CASE PurgeCount
    BY <1>19, PurgeCountMoves
  <1>20. CASE PurgeDone
    BY <1>20, RoleMoves
  <1>21. CASE CleanerExit
    BY <1>21, RoleMoves
  <1>22. CASE Close
    BY <1>22, RoleMoves
  <1>23. CASE PersistBegin
    BY <1>23, PersistMoves
  <1>24. CASE PersistFails
    BY <1>24, RoleMoves
  <1>25. CASE PersistRename
    BY <1>25, RoleMoves
  <1>26. CASE Down
    BY <1>26
  <1>27. CASE NewMemoryStorage
    BY <1>27 DEF NewMemoryStorage
  <1>28. CASE Tick
    BY <1>28
  <1>29. CASE UNCHANGED vars
    BY <1>29 DEF vars
  <1>30. CASE CloseUnsaved
    BY <1>30, RoleMoves
  <1> QED
    BY StepCases, <1>1, <1>2, <1>3, <1>4, <1>5, <1>6, <1>7, <1>8, <1>9, <1>10, <1>11,
       <1>12, <1>13, <1>14, <1>15, <1>16, <1>17, <1>18, <1>19, <1>20, <1>21, <1>22, <1>23,
       <1>24, <1>25, <1>26, <1>27, <1>28, <1>29, <1>30
    DEF Continue

(* A Store call writes to a store in use.                                  *)
LEMMA WritersInductive ==
    ASSUME ProcType, RestType, WritersInUse, StoreStep, HandSteps
    PROVE  WritersInUse'
  <1> SUFFICES ASSUME NEW q \in Procs, proc'[q].pc \in Writing
               PROVE  proc'[q].item[1] \in inUse'
    BY DEF WritersInUse
  <1>0. inUse' = inUse
    BY WholeSteps DEF StoreStep, Keeps, Puts, Takes
  <1>1. CASE Down
    BY <1>1, RoleMoves DEF Idle, Writing
  <1>2. CASE Tick
    BY <1>0, <1>2, TickMoves DEF WritersInUse
  <1>3. CASE HandStep(q)
    BY <1>0, <1>3 DEF HandStep, Writing, WritersInUse
  <1> QED BY <1>1, <1>2, <1>3 DEF HandSteps

(* Only Cleanup collects keys.                                             *)
LEMMA CollectorInductive ==
    ProcType /\ RestType /\ InHand /\ CollectorOnly /\ [Next]_vars => CollectorOnly'
  <1> SUFFICES ASSUME ProcType, RestType, InHand, CollectorOnly, [Next]_vars
               PROVE  CollectorOnly'
    OBVIOUS
  <1> USE ProcFacts
      DEF CollectorOnly, Holds, Enters, Becomes
  <1>1. ASSUME NEW p \in Clients, NEW k \in Kinds, GetFrom(p, k) PROVE CollectorOnly'
    BY <1>1, GetFromMoves
  <1>2. ASSUME NEW p \in Clients, NEW k \in Kinds, DeleteFrom(p, k) PROVE CollectorOnly'
    BY <1>2, DeleteFromMoves
  <1>3. ASSUME NEW p \in Clients, NEW k \in Kinds, ListOf(p, k) PROVE CollectorOnly'
    BY <1>3, ListOfMoves
  <1>4. ASSUME NEW p \in Clients, NEW k \in Typed, StoreTo(p, k) PROVE CollectorOnly'
    BY <1>4, StoreToMoves
  <1>5. ASSUME NEW p \in Clients, Set(p) PROVE CollectorOnly'
    BY <1>5, SetMoves
  <1>6. ASSUME NEW p \in Procs, CheckExpired(p) PROVE CollectorOnly'
    BY <1>6, CheckMoves
  <1>7. ASSUME NEW p \in Procs, RemoveExpired(p) PROVE CollectorOnly'
    BY <1>7, RemoveMoves
  <1>8. ASSUME NEW p \in Procs, CountDown(p) PROVE CollectorOnly'
    BY <1>8, CountDownMoves
  <1>9. ASSUME NEW p \in Procs, WriteNew(p) PROVE CollectorOnly'
    BY <1>9, WriteNewMoves
  <1>10. ASSUME NEW p \in Procs, WriteOver(p) PROVE CollectorOnly'
    BY <1>10, WriteOverMoves
  <1>11. ASSUME NEW p \in Procs, CountUp(p) PROVE CollectorOnly'
    BY <1>11, CountUpMoves
  <1>12. ASSUME NEW p \in Procs, Erase(p) PROVE CollectorOnly'
    BY <1>12, EraseMoves
  <1>13. ASSUME NEW p \in Procs, Visit(p) PROVE CollectorOnly'
    <2>1. proc[p].pc = "list"
      BY <1>13 DEF Visit, At
    <2> QED BY <1>13, <2>1, VisitMoves
  <1>14. ASSUME NEW p \in Procs, ListDone(p) PROVE CollectorOnly'
    <2>1. proc[p].pc = "list"
      BY <1>14 DEF ListDone, At
    <2> QED BY <1>14, <2>1, ListDoneMoves
  <1>15. CASE Cleanup
    BY <1>15, CleanupMoves
  <1>16. CASE Collect
    <2>1. proc["cleaner"].pc = "collect"
      BY <1>16 DEF Collect, At
    <2>2. /\ proc'["cleaner"].pc = "collect" /\ proc'["cleaner"].item = proc["cleaner"].item
          /\ \A q \in Procs \ {"cleaner"} : proc'[q] = proc[q]
      BY <1>16, CollectMoves
    <2> HIDE DEF Holds, Enters, Becomes
    <2> QED BY <2>1, <2>2
  <1>17. CASE CollectDone
    BY <1>17, RoleMoves
  <1>18. CASE Purge
    <2>1. /\ proc["cleaner"].pc = "purge" /\ proc'["cleaner"].pc = "purge"
          /\ proc'["cleaner"].item[1] = "kv"
          /\ \A q \in Procs \ {"cleaner"} : proc'[q] = proc[q]
      <3>1. PICK key \in proc["cleaner"].doomed :
               Holds("cleaner", "purge", <<"kv", key>>, None)
        BY <1>18, PurgeMoves
      <3>2. proc["cleaner"].pc = "purge"
        BY <1>18, PurgeMoves
      <3> HIDE DEF CollectorOnly
      <3> QED BY <3>1, <3>2
    <2> HIDE DEF Holds, Enters, Becomes
    <2> QED BY <2>1
  <1>19. CASE PurgeCount
    BY <1>19, PurgeCountMoves
  <1>20. CASE PurgeDone
    BY <1>20, RoleMoves DEF PurgeDone
  <1>21. CASE CleanerExit
    BY <1>21, RoleMoves
  <1>22. CASE Close
    BY <1>22, RoleMoves
  <1>23. CASE PersistBegin
    BY <1>23, PersistMoves
  <1>24. CASE PersistFails
    BY <1>24, RoleMoves
  <1>25. CASE PersistRename
    BY <1>25, RoleMoves
  <1>26. CASE Down
    BY <1>26, RoleMoves DEF Idle
  <1>27. CASE NewMemoryStorage
    BY <1>27 DEF NewMemoryStorage
  <1>28. CASE Tick
    BY <1>28, TickMoves
  <1>29. CASE UNCHANGED vars
    BY <1>29 DEF vars
  <1>30. CASE CloseUnsaved
    BY <1>30, RoleMoves
  <1> QED
    BY StepCases, <1>1, <1>2, <1>3, <1>4, <1>5, <1>6, <1>7, <1>8, <1>9, <1>10, <1>11,
       <1>12, <1>13, <1>14, <1>15, <1>16, <1>17, <1>18, <1>19, <1>20, <1>21, <1>22, <1>23,
       <1>24, <1>25, <1>26, <1>27, <1>28, <1>29, <1>30
    DEF Continue

(* Nothing changes the configuration.                                      *)
LEMMA PersistsConstant == [Next]_vars => persists' = persists
  <1> SUFFICES ASSUME [Next]_vars PROVE persists' = persists
    OBVIOUS
  <1>1. ASSUME NEW p \in Clients, NEW k \in Kinds,
               GetFrom(p, k) \/ DeleteFrom(p, k) \/ ListOf(p, k) \/ StoreTo(p, k) \/ Set(p)
        PROVE  persists' = persists
    BY <1>1 DEF GetFrom, DeleteFrom, ListOf, StoreTo, Set
  <1>2. ASSUME NEW p \in Procs, Continue(p) PROVE persists' = persists
    BY <1>2 DEF Continue, CheckExpired, RemoveExpired, CountDown, WriteNew, WriteOver,
                CountUp, Erase, Visit, ListDone
  <1>3. CASE Cleanup \/ Collect \/ CollectDone \/ Purge \/ PurgeCount \/ PurgeDone \/ CleanerExit
    BY <1>3 DEF Cleanup, Collect, CollectDone, Purge, PurgeCount, PurgeDone, CleanerExit
  <1>4. CASE Close \/ CloseUnsaved \/ PersistBegin \/ PersistFails \/ PersistRename
    BY <1>4 DEF Close, CloseUnsaved, PersistBegin, PersistFails, PersistRename
  <1>5. CASE Down \/ NewMemoryStorage \/ Tick \/ UNCHANGED vars
    BY <1>5 DEF Down, NewMemoryStorage, Tick, vars
  <1> QED BY StepCases, ProcFacts, <1>1, <1>2, <1>3, <1>4, <1>5

-----------------------------------------------------------------------------
(* The steps that concern the closer and the files.                        *)

(* Of what Close owes, a step touches at most one item.                    *)
Spares(x) == owed' = owed \ {x} /\ \A y \in Items \ {x} : store'[y] = store[y]

Untouched == (store' = store /\ owed' = owed) \/ \E x \in Items : Spares(x)

Away ==
    /\ proc'["closer"] = proc["closer"]
    /\ inUse' = inUse /\ tmp' = tmp /\ file' = file
    /\ Untouched

CloserStep ==
    \/ Away \/ NewMemoryStorage \/ Down \/ Tick
    \/ CheckExpired("closer") \/ RemoveExpired("closer") \/ CountDown("closer")
    \/ Visit("closer") \/ ListDone("closer")
    \/ Close \/ CloseUnsaved \/ PersistBegin \/ PersistFails \/ PersistRename

(* Put and Take spare all items but one.                                   *)
LEMMA Sparing ==
    ASSUME RestType, NEW x \in Items, NEW l, Put(x, l) \/ Take(x)
    PROVE  Spares(x)
  BY DEF Put, Take, Spares, RestType

(* Every step is the closer's own, or leaves it and the files alone.       *)
LEMMA CloserCases == ProcType /\ RestType /\ InHand /\ CloserRange /\ [Next]_vars => CloserStep
  <1> SUFFICES ASSUME ProcType, RestType, InHand, CloserRange, [Next]_vars
               PROVE  CloserStep
    OBVIOUS
  <1>1. ASSUME NEW p \in Clients, NEW k \in Kinds, GetFrom(p, k) PROVE CloserStep
    <2>1. proc'["closer"] = proc["closer"]
      BY <1>1, GetFromMoves, ProcFacts DEF Holds, Enters, Becomes
    <2>2. inUse' = inUse /\ tmp' = tmp /\ file' = file
      BY <1>1 DEF GetFrom, diskVars
    <2>3. store' = store /\ owed' = owed
      BY <1>1 DEF GetFrom
    <2> QED BY <2>1, <2>2, <2>3 DEF CloserStep, Away, Untouched
  <1>2. ASSUME NEW p \in Clients, NEW k \in Kinds, DeleteFrom(p, k) PROVE CloserStep
    <2>1. proc'["closer"] = proc["closer"]
      BY <1>2, DeleteFromMoves, ProcFacts DEF Holds, Enters, Becomes
    <2>2. inUse' = inUse /\ tmp' = tmp /\ file' = file
      BY <1>2 DEF DeleteFrom, diskVars
    <2>3. store' = store /\ owed' = owed
      BY <1>2 DEF DeleteFrom
    <2> QED BY <2>1, <2>2, <2>3 DEF CloserStep, Away, Untouched
  <1>3. ASSUME NEW p \in Clients, NEW k \in Kinds, ListOf(p, k) PROVE CloserStep
    <2>1. proc'["closer"] = proc["closer"]
      BY <1>3, ListOfMoves, ProcFacts DEF Holds, Enters, Becomes
    <2>2. inUse' = inUse /\ tmp' = tmp /\ file' = file
      BY <1>3 DEF ListOf, diskVars
    <2>3. store' = store /\ owed' = owed
      BY <1>3 DEF ListOf
    <2> QED BY <2>1, <2>2, <2>3 DEF CloserStep, Away, Untouched
  <1>4. ASSUME NEW p \in Clients, NEW k \in Typed, StoreTo(p, k) PROVE CloserStep
    <2>1. proc'["closer"] = proc["closer"]
      BY <1>4, StoreToMoves, ProcFacts DEF Holds, Enters, Becomes
    <2>2. inUse' = inUse /\ tmp' = tmp /\ file' = file
      BY <1>4 DEF StoreTo, diskVars
    <2>3. store' = store /\ owed' = owed
      BY <1>4 DEF StoreTo
    <2> QED BY <2>1, <2>2, <2>3 DEF CloserStep, Away, Untouched
  <1>5. ASSUME NEW p \in Clients, Set(p) PROVE CloserStep
    <2>1. proc'["closer"] = proc["closer"]
      BY <1>5, SetMoves, ProcFacts DEF Holds, Enters, Becomes
    <2>2. inUse' = inUse /\ tmp' = tmp /\ file' = file
      BY <1>5 DEF Set, diskVars
    <2>3. PICK x \in ItemsOf("kv"), l \in 1..Never : Put(x, l)
      BY <1>5 DEF Set
    <2>4. x \in Items /\ Spares(x)
      BY <2>3, Sparing, ItemFacts, ProcFacts
    <2> QED BY <2>1, <2>2, <2>4 DEF CloserStep, Away, Untouched
  <1>6. ASSUME NEW p \in Procs, CheckExpired(p) PROVE CloserStep
    <2>0. CASE p = "closer"
      BY <1>6, <2>0 DEF CloserStep
    <2>1. CASE p # "closer"
      <3>1. proc'["closer"] = proc["closer"]
        BY <1>6, <2>1, CheckMoves, ProcFacts DEF Holds, Enters, Becomes
      <3>2. inUse' = inUse /\ tmp' = tmp /\ file' = file
        BY <1>6, <2>1 DEF CheckExpired, diskVars
      <3>3. store' = store /\ owed' = owed
        BY <1>6 DEF CheckExpired
      <3> QED BY <3>1, <3>2, <3>3 DEF CloserStep, Away, Untouched
    <2> QED BY <2>0, <2>1
  <1>7. ASSUME NEW p \in Procs, RemoveExpired(p) PROVE CloserStep
    <2>0. CASE p = "closer"
      BY <1>7, <2>0 DEF CloserStep
    <2>1. CASE p # "closer"
      <3>1. proc'["closer"] = proc["closer"]
        BY <1>7, <2>1, RemoveMoves, ProcFacts DEF Holds, Enters, Becomes
      <3>2. inUse' = inUse /\ tmp' = tmp /\ file' = file
        BY <1>7, <2>1 DEF RemoveExpired, diskVars
      <3>3. proc[p].item \in Items
        BY <1>7, RemoveMoves
      <3>4. Spares(proc[p].item)
        BY <1>7, <3>3, Sparing DEF RemoveExpired
      <3> QED BY <3>1, <3>2, <3>3, <3>4 DEF CloserStep, Away, Untouched
    <2> QED BY <2>0, <2>1
  <1>8. ASSUME NEW p \in Procs, CountDown(p) PROVE CloserStep
    <2>0. CASE p = "closer"
      BY <1>8, <2>0 DEF CloserStep
    <2>1. CASE p # "closer"
      <3>1. proc'["closer"] = proc["closer"]
        BY <1>8, <2>1, CountDownMoves, ProcFacts DEF Holds, Enters, Becomes
      <3>2. inUse' = inUse /\ tmp' = tmp /\ file' = file
        BY <1>8, <2>1 DEF CountDown, diskVars
      <3>3. store' = store /\ owed' = owed
        BY <1>8 DEF CountDown
      <3> QED BY <3>1, <3>2, <3>3 DEF CloserStep, Away, Untouched
    <2> QED BY <2>0, <2>1
  <1>9. ASSUME NEW p \in Procs, WriteNew(p) PROVE CloserStep
    <2>0. p # "closer"
      BY <1>9, WriteNewMoves DEF CloserRange, Listing
    <2>1. proc'["closer"] = proc["closer"]
      BY <1>9, <2>0, WriteNewMoves, ProcFacts DEF Holds, Enters, Becomes
    <2>2. inUse' = inUse /\ tmp' = tmp /\ file' = file
      BY <1>9 DEF WriteNew, diskVars
    <2>3. proc[p].item \in Items
      BY <1>9, WriteNewMoves
    <2>4. Spares(proc[p].item)
      BY <1>9, <2>3, Sparing DEF WriteNew
    <2> QED BY <2>1, <2>2, <2>3, <2>4 DEF CloserStep, Away, Untouched
  <1>10. ASSUME NEW p \in Procs, WriteOver(p) PROVE CloserStep
    <2>0. p # "closer"
      BY <1>10, WriteOverMoves DEF CloserRange, Listing
    <2>1. proc'["closer"] = proc["closer"]
      BY <1>10, <2>0, WriteOverMoves, ProcFacts DEF Holds, Enters, Becomes
    <2>2. inUse' = inUse /\ tmp' = tmp /\ file' = file
      BY <1>10 DEF WriteOver, diskVars
    <2>3. proc[p].item \in Items
      BY <1>10, WriteOverMoves
    <2>4. Spares(proc[p].item)
      BY <1>10, <2>3, Sparing DEF WriteOver
    <2> QED BY <2>1, <2>2, <2>3, <2>4 DEF CloserStep, Away, Untouched
  <1>11. ASSUME NEW p \in Procs, CountUp(p) PROVE CloserStep
    <2>0. p # "closer"
      BY <1>11, CountUpMoves DEF CloserRange, Listing
    <2>1. proc'["closer"] = proc["closer"]
      BY <1>11, <2>0, CountUpMoves, ProcFacts DEF Holds, Enters, Becomes
    <2>2. inUse' = inUse /\ tmp' = tmp /\ file' = file
      BY <1>11 DEF CountUp, diskVars
    <2>3. store' = store /\ owed' = owed
      BY <1>11 DEF CountUp
    <2> QED BY <2>1, <2>2, <2>3 DEF CloserStep, Away, Untouched
  <1>12. ASSUME NEW p \in Procs, Erase(p) PROVE CloserStep
    <2>0. p # "closer"
      BY <1>12, EraseMoves DEF CloserRange, Listing
    <2>1. proc'["closer"] = proc["closer"]
      BY <1>12, <2>0, EraseMoves, ProcFacts DEF Holds, Enters, Becomes
    <2>2. inUse' = inUse /\ tmp' = tmp /\ file' = file
      BY <1>12 DEF Erase, diskVars
    <2>3. proc[p].item \in Items
      BY <1>12, EraseMoves
    <2>4. Spares(proc[p].item)
      BY <1>12, <2>3, Sparing DEF Erase
    <2> QED BY <2>1, <2>2, <2>3, <2>4 DEF CloserStep, Away, Untouched
  <1>13. ASSUME NEW p \in Procs, Visit(p) PROVE CloserStep
    <2>0. CASE p = "closer"
      BY <1>13, <2>0 DEF CloserStep
    <2>1. CASE p # "closer"
      <3>1. proc'["closer"] = proc["closer"]
        BY <1>13, <2>1, VisitMoves, ProcFacts DEF Holds, Enters, Becomes
      <3>2. inUse' = inUse /\ tmp' = tmp /\ file' = file
        BY <1>13, <2>1 DEF Visit, diskVars
      <3>3. store' = store /\ owed' = owed
        BY <1>13 DEF Visit
      <3> QED BY <3>1, <3>2, <3>3 DEF CloserStep, Away, Untouched
    <2> QED BY <2>0, <2>1
  <1>14. ASSUME NEW p \in Procs, ListDone(p) PROVE CloserStep
    <2>0. CASE p = "closer"
      BY <1>14, <2>0 DEF CloserStep
    <2>1. CASE p # "closer"
      <3>1. proc'["closer"] = proc["closer"]
        BY <1>14, <2>1, ListDoneMoves, ProcFacts DEF Holds, Enters, Becomes
      <3>2. inUse' = inUse /\ tmp' = tmp /\ file' = file
        BY <1>14, <2>1 DEF ListDone, diskVars
      <3>3. store' = store /\ owed' = owed
        BY <1>14 DEF ListDone
      <3> QED BY <3>1, <3>2, <3>3 DEF CloserStep, Away, Untouched
    <2> QED BY <2>0, <2>1
  <1>15. CASE Cleanup
    <2>1. proc'["closer"] = proc["closer"]
      BY <1>15, CleanupMoves, ProcFacts DEF Holds, Enters, Becomes
    <2>2. inUse' = inUse /\ tmp' = tmp /\ file' = file
      BY <1>15 DEF Cleanup, diskVars
    <2>3. store' = store /\ owed' = owed
      BY <1>15 DEF Cleanup
    <2> QED BY <2>1, <2>2, <2>3 DEF CloserStep, Away, Untouched
  <1>16. CASE Collect
    <2>1. proc'["closer"] = proc["closer"]
      BY <1>16, CollectMoves, ProcFacts DEF Holds, Enters, Becomes
    <2>2. inUse' = inUse /\ tmp' = tmp /\ file' = file
      BY <1>16 DEF Collect, diskVars
    <2>3. store' = store /\ owed' = owed
      BY <1>16 DEF Collect
    <2> QED BY <2>1, <2>2, <2>3 DEF CloserStep, Away, Untouched
  <1>17. CASE CollectDone
    <2>1. proc'["closer"] = proc["closer"]
      BY <1>17, RoleMoves, ProcFacts DEF Holds, Enters, Becomes
    <2>2. inUse' = inUse /\ tmp' = tmp /\ file' = file
      BY <1>17 DEF CollectDone, diskVars
    <2>3. store' = store /\ owed' = owed
      BY <1>17 DEF CollectDone
    <2> QED BY <2>1, <2>2, <2>3 DEF CloserStep, Away, Untouched
  <1>18. CASE Purge
    <2>1. proc'["closer"] = proc["closer"]
      BY <1>18, PurgeMoves, ProcFacts DEF Holds, Enters, Becomes
    <2>2. inUse' = inUse /\ tmp' = tmp /\ file' = file
      BY <1>18 DEF Purge, diskVars
    <2>3. PICK key \in proc["cleaner"].doomed : <<"kv", key>> \in Items /\ Take(<<"kv", key>>)
      BY <1>18, PurgeMoves
    <2>4. Spares(<<"kv", key>>)
      BY <2>3, Sparing
    <2> QED BY <2>1, <2>2, <2>3, <2>4 DEF CloserStep, Away, Untouched
  <1>19. CASE PurgeCount
    <2>1. proc'["closer"] = proc["closer"]
      BY <1>19, PurgeCountMoves, ProcFacts DEF Holds, Enters, Becomes
    <2>2. inUse' = inUse /\ tmp' = tmp /\ file' = file
      BY <1>19 DEF PurgeCount, diskVars
    <2>3. store' = store /\ owed' = owed
      BY <1>19 DEF PurgeCount
    <2> QED BY <2>1, <2>2, <2>3 DEF CloserStep, Away, Untouched
  <1>20. CASE PurgeDone
    <2>1. proc'["closer"] = proc["closer"]
      BY <1>20, RoleMoves, ProcFacts DEF Holds, Enters, Becomes
    <2>2. inUse' = inUse /\ tmp' = tmp /\ file' = file
      BY <1>20 DEF PurgeDone, diskVars
    <2>3. store' = store /\ owed' = owed
      BY <1>20 DEF PurgeDone
    <2> QED BY <2>1, <2>2, <2>3 DEF CloserStep, Away, Untouched
  <1>21. CASE CleanerExit
    <2>1. proc'["closer"] = proc["closer"]
      BY <1>21, RoleMoves, ProcFacts DEF Holds, Enters, Becomes
    <2>2. inUse' = inUse /\ tmp' = tmp /\ file' = file
      BY <1>21 DEF CleanerExit, diskVars
    <2>3. store' = store /\ owed' = owed
      BY <1>21 DEF CleanerExit
    <2> QED BY <2>1, <2>2, <2>3 DEF CloserStep, Away, Untouched
  <1>22. CASE Close
    BY <1>22 DEF CloserStep
  <1>23. CASE PersistBegin
    BY <1>23 DEF CloserStep
  <1>24. CASE PersistFails
    BY <1>24 DEF CloserStep
  <1>25. CASE PersistRename
    BY <1>25 DEF CloserStep
  <1>26. CASE Down
    BY <1>26 DEF CloserStep
  <1>27. CASE NewMemoryStorage
    BY <1>27 DEF CloserStep
  <1>28. CASE Tick
    BY <1>28 DEF CloserStep
  <1>29. CASE UNCHANGED vars
    BY <1>29 DEF CloserStep, Away, Untouched, vars
  <1>30. CASE CloseUnsaved
    BY <1>30 DEF CloserStep
  <1> QED
    BY StepCases, <1>1, <1>2, <1>3, <1>4, <1>5, <1>6, <1>7, <1>8, <1>9, <1>10, <1>11,
       <1>12, <1>13, <1>14, <1>15, <1>16, <1>17, <1>18, <1>19, <1>20, <1>21, <1>22, <1>23,
       <1>24, <1>25, <1>26, <1>27, <1>28, <1>29, <1>30
    DEF Continue

(* The closer's own steps, field by field.                                 *)
SameRange ==
    /\ proc'["closer"].todo = proc["closer"].todo /\ proc'["closer"].kind = proc["closer"].kind
    /\ proc'["closer"].plan = proc["closer"].plan

(* The closer writes the entry in hand unless it has expired.              *)
LEMMA CloserCheck ==
    ASSUME ProcType, RestType, InHand, CheckExpired("closer")
    PROVE  /\ proc["closer"].pc = "check" /\ SameRange
           /\ proc["closer"].item \in Items /\ proc["closer"].seen \in Lives
           /\ \/ proc'["closer"].pc = "remove" /\ proc["closer"].seen = 0
              \/ proc'["closer"].pc = "list"
           /\ inUse' = inUse /\ store' = store /\ owed' = owed /\ file' = file
           /\ tmp'.lists = tmp.lists
           /\ \A y \in Items :
                tmp'.entry[y] = IF y = proc["closer"].item /\ proc["closer"].seen # 0
                                THEN proc["closer"].seen ELSE tmp.entry[y]
  <1> DEFINE x == proc["closer"].item
             l == proc["closer"].seen
  <1>1. /\ proc["closer"].pc = "check" /\ x \in Items /\ l \in Lives
        /\ (l = 0 /\ Holds("closer", "remove", x, None)) \/ Holds("closer", "list", NoItem, None)
    BY CheckMoves, ProcFacts
  <1>2. /\ SameRange
        /\ (proc'["closer"].pc = "remove" /\ l = 0) \/ proc'["closer"].pc = "list"
    BY <1>1 DEF SameRange, Holds, Becomes
  <1>3. inUse' = inUse /\ store' = store /\ owed' = owed /\ file' = file
    BY DEF CheckExpired
  <1>4. tmp' = IF l # 0 THEN [tmp EXCEPT !.entry = [tmp.entry EXCEPT ![x] = l]] ELSE tmp
    BY DEF CheckExpired, Expired, RestType
  <1> HIDE DEF x, l
  <1>5. /\ tmp'.lists = tmp.lists
        /\ \A y \in Items : tmp'.entry[y] = IF y = x /\ l # 0 THEN l ELSE tmp.entry[y]
    <2> DEFINE e == [tmp.entry EXCEPT ![x] = l]
    <2>1. \A y \in Items : e[y] = IF y = x THEN l ELSE tmp.entry[y]
      BY <1>1 DEF RestType
    <2>2. tmp' = IF l # 0 THEN [tmp EXCEPT !.entry = e] ELSE tmp
      BY <1>4
    <2> HIDE DEF e
    <2>3. /\ l # 0 => tmp'.lists = tmp.lists /\ tmp'.entry = e
          /\ l = 0 => tmp' = tmp
      BY <2>2 DEF RestType
    <2> QED BY <2>1, <2>3
  <1> QED BY <1>1, <1>2, <1>3, <1>5 DEF x, l

(* The closer removes an expired entry that it lists, and counts it.       *)
LEMMA CloserRemove ==
    ASSUME ProcType, RestType, InHand, CloserRange,
           RemoveExpired("closer") \/ CountDown("closer")
    PROVE  /\ proc["closer"].pc \in {"remove", "uncount"} /\ SameRange
           /\ proc'["closer"].pc \in {"uncount", "list"}
           /\ inUse' = inUse /\ tmp' = tmp /\ file' = file /\ Untouched
  <1>1. CASE RemoveExpired("closer")
    <2>1. /\ proc["closer"].pc = "remove" /\ SameRange /\ proc["closer"].item \in Items
          /\ proc'["closer"].pc \in {"uncount", "list"}
      BY <1>1, RemoveMoves, ProcFacts DEF SameRange, Holds, Becomes
    <2>2. Take(proc["closer"].item) /\ inUse' = inUse /\ tmp' = tmp /\ file' = file
      BY <1>1 DEF RemoveExpired, diskVars
    <2> QED BY <2>1, <2>2, Sparing DEF Untouched
  <1>2. CASE CountDown("closer")
    <2>1. /\ proc["closer"].pc = "uncount" /\ SameRange
          /\ proc'["closer"].pc = "list"
      BY <1>2, CountDownMoves, ProcFacts DEF SameRange, Holds, Becomes
    <2>2. store' = store /\ owed' = owed /\ inUse' = inUse /\ tmp' = tmp /\ file' = file
      BY <1>2 DEF CountDown, diskVars
    <2> QED BY <2>1, <2>2 DEF Untouched
  <1> QED BY <1>1, <1>2

(* The closer visits a key.                                                *)
LEMMA CloserVisit ==
    ASSUME ProcType, RestType, Visit("closer")
    PROVE  /\ proc["closer"].pc = "list"
           /\ proc'["closer"].kind = proc["closer"].kind
           /\ proc'["closer"].plan = proc["closer"].plan
           /\ \E key \in proc["closer"].todo, x \in Items :
                /\ x = <<proc["closer"].kind, key>>
                /\ proc'["closer"].todo = proc["closer"].todo \ {key}
                /\ \/ store[x] = None /\ proc'["closer"].pc = "list"
                   \/ /\ store[x] # None /\ proc'["closer"].pc = "check"
                      /\ proc'["closer"].item = x /\ proc'["closer"].seen = store[x]
           /\ inUse' = inUse /\ store' = store /\ owed' = owed /\ tmp' = tmp /\ file' = file
  <1>1. proc["closer"].pc = "list"
    BY DEF Visit, At
  <1>2. inUse' = inUse /\ store' = store /\ owed' = owed /\ tmp' = tmp /\ file' = file
    BY DEF Visit, diskVars
  <1> QED BY <1>1, <1>2, VisitMoves, ProcFacts DEF Becomes

(* The closer has listed a store.                                          *)
LEMMA CloserListDone ==
    ASSUME ProcType, RestType, ListDone("closer")
    PROVE  /\ proc["closer"].pc = "list" /\ proc["closer"].todo = {}
           /\ \/ /\ proc["closer"].plan # <<>> /\ proc'["closer"].pc = "list"
                 /\ proc'["closer"].kind = Head(proc["closer"].plan)
                 /\ proc'["closer"].plan = Tail(proc["closer"].plan)
                 /\ proc'["closer"].todo = Keys
              \/ /\ proc["closer"].plan = <<>> /\ proc'["closer"].pc = "rename"
                 /\ proc'["closer"].plan = <<>> /\ proc'["closer"].todo = {}
           /\ inUse' = inUse /\ store' = store /\ owed' = owed /\ file' = file
           /\ tmp'.entry = tmp.entry
           /\ tmp'.lists = tmp.lists \cup ({proc["closer"].kind} \cap Sections)
  <1>1. proc["closer"].pc = "list" /\ proc["closer"].todo = {}
    BY DEF ListDone, At
  <1>2. inUse' = inUse /\ store' = store /\ owed' = owed /\ file' = file
    BY DEF ListDone
  <1>3. /\ tmp'.entry = tmp.entry
        /\ tmp'.lists = tmp.lists \cup ({proc["closer"].kind} \cap Sections)
    BY DEF ListDone, RestType
  <1> QED BY <1>1, <1>2, <1>3, ListDoneMoves, ProcFacts DEF Becomes, Enters

(* The start, the failure and the end of the saving, and the restart.      *)
LEMMA CloserRole ==
    ASSUME ProcType, RestType
    PROVE  /\ Close => /\ proc["closer"].pc = "idle" /\ proc'["closer"].pc = "waitCleaner"
                       /\ SameRange
                       /\ inUse' = inUse /\ store' = store /\ tmp' = tmp /\ file' = file
                       /\ owed' = {x \in Persistent : store[x] > 0}
           /\ PersistBegin => /\ proc'["closer"].pc = "list" /\ proc'["closer"].todo = {}
                              /\ proc'["closer"].plan = PersistLists
                              /\ inUse' = inUse /\ store' = store /\ owed' = owed
                              /\ tmp' = Created /\ file' = file
           /\ CloseUnsaved => /\ proc'["closer"].pc = "closed" /\ SameRange /\ ~ persists
                              /\ inUse' = inUse /\ store' = store /\ owed' = owed
                              /\ tmp' = tmp /\ file' = file
           /\ PersistFails => /\ proc'["closer"].pc = "exited" /\ proc'["closer"].todo = {}
                              /\ proc'["closer"].plan = <<>>
                              /\ inUse' = inUse /\ store' = store /\ owed' = owed
                              /\ tmp' = tmp /\ file' = file
           /\ PersistRename => /\ proc["closer"].pc = "rename"
                               /\ proc'["closer"].pc = "closed" /\ SameRange
                               /\ inUse' = inUse /\ store' = store /\ owed' = owed
                               /\ tmp' = Created /\ file' = tmp
           /\ Down => /\ proc'["closer"].pc = "idle" /\ proc'["closer"].todo = {}
                      /\ proc'["closer"].plan = <<>>
                      /\ inUse' = inUse /\ owed' = {} /\ tmp' = Created /\ file' = file
           /\ NewMemoryStorage => /\ ~ up /\ proc' = proc /\ inUse' = inUse /\ owed' = owed
                                  /\ tmp' = tmp /\ file' = file
           /\ Tick => /\ proc'["closer"].pc = proc["closer"].pc
                      /\ proc'["closer"].item = proc["closer"].item
                      /\ proc'["closer"].seen = Aged(proc["closer"].seen)
                      /\ SameRange
                      /\ owed' = owed \ {x \in Items : store[x] = 1}
  <1> USE ProcFacts DEF Holds, Enters, Becomes, SameRange
  <1>1. Close => /\ proc["closer"].pc = "idle" /\ proc'["closer"].pc = "waitCleaner"
                 /\ SameRange
    BY RoleMoves
  <1>2. PersistBegin => /\ proc'["closer"].pc = "list" /\ proc'["closer"].todo = {}
                        /\ proc'["closer"].plan = PersistLists
    BY PersistMoves
  <1>3. PersistFails => /\ proc'["closer"].pc = "exited" /\ proc'["closer"].todo = {}
                        /\ proc'["closer"].plan = <<>>
    BY RoleMoves
  <1>4. PersistRename => /\ proc["closer"].pc = "rename"
                         /\ proc'["closer"].pc = "closed" /\ SameRange
    BY RoleMoves
  <1>5. Down => /\ proc'["closer"].pc = "idle" /\ proc'["closer"].todo = {}
                /\ proc'["closer"].plan = <<>>
    BY RoleMoves DEF Idle
  <1>6. Tick => /\ proc'["closer"].pc = proc["closer"].pc
                /\ proc'["closer"].item = proc["closer"].item
                /\ proc'["closer"].seen = Aged(proc["closer"].seen)
                /\ SameRange
    BY TickMoves
  <1>7. Tick => owed' = owed \ {x \in Items : store[x] = 1}
    BY DEF Tick
  <1> HIDE DEF Holds, Enters, Becomes, SameRange
  <1>8. Close => /\ inUse' = inUse /\ store' = store /\ tmp' = tmp /\ file' = file
                 /\ owed' = {x \in Persistent : store[x] > 0}
    BY DEF Close, diskVars
  <1>9. PersistBegin => /\ inUse' = inUse /\ store' = store /\ owed' = owed
                        /\ tmp' = Created /\ file' = file
    BY DEF PersistBegin
  <1>10. PersistFails => /\ inUse' = inUse /\ store' = store /\ owed' = owed
                         /\ tmp' = tmp /\ file' = file
    BY DEF PersistFails, diskVars
  <1>11. PersistRename => /\ inUse' = inUse /\ store' = store /\ owed' = owed
                          /\ tmp' = Created /\ file' = tmp
    BY DEF PersistRename
  <1>12. Down => inUse' = inUse /\ owed' = {} /\ tmp' = Created /\ file' = file
    BY DEF Down
  <1>13. NewMemoryStorage => /\ ~ up /\ proc' = proc /\ inUse' = inUse /\ owed' = owed
                             /\ tmp' = tmp /\ file' = file
    BY DEF NewMemoryStorage, diskVars
  <1>14. CloseUnsaved => proc'["closer"].pc = "closed" /\ SameRange
    BY RoleMoves, ProcFacts DEF Holds, Becomes, SameRange
  <1>15. CloseUnsaved => /\ inUse' = inUse /\ store' = store /\ owed' = owed
                         /\ tmp' = tmp /\ file' = file /\ ~ persists
    BY DEF CloseUnsaved, diskVars
  <1> QED BY <1>1, <1>2, <1>3, <1>4, <1>5, <1>6, <1>7, <1>8, <1>9, <1>10, <1>11, <1>12, <1>13,
             <1>14, <1>15

(* persistToFile lists only the stores it is to write.                     *)
LEMMA CloserRangeInductive ==
    ASSUME ProcType, RestType, InHand, StoreBounded, CloserRange, CloserStep
    PROVE  CloserRange'
  <1> USE DEF CloserRange, Listing, SameRange
  <1>0. <<>> \in Seq(PersistKinds)
    OBVIOUS
  <1>1. CASE Away
    BY <1>1 DEF Away, Saveable
  <1>2. CASE NewMemoryStorage
    BY <1>2, CloserRole DEF Saveable
  <1>3. CASE Down
    BY <1>0, <1>3, CloserRole
  <1>4. CASE Tick
    <2> DEFINE x == proc["closer"].item
               l == proc["closer"].seen
    <2>1. l \in Lives \cup {None} /\ inUse' = inUse
      BY <1>4, ProcFacts, WholeSteps DEF ProcType, ProcStates
    <2>2. x' = x /\ l' = Aged(l) /\ proc'["closer"].pc = proc["closer"].pc /\ SameRange
      BY <1>4, CloserRole
    <2>3. Saveable(x, l) => Saveable(x, l)'
      BY <2>1, <2>2, LifeFacts DEF Saveable
    <2> QED BY <2>2, <2>3
  <1>5. CASE CheckExpired("closer")
    BY <1>5, CloserCheck
  <1>6. CASE RemoveExpired("closer") \/ CountDown("closer")
    BY <1>6, CloserRemove
  <1>7. CASE Visit("closer")
    <2>1. PICK key \in proc["closer"].todo, x \in Items :
             /\ x = <<proc["closer"].kind, key>>
             /\ proc'["closer"].todo = proc["closer"].todo \ {key}
             /\ \/ store[x] = None /\ proc'["closer"].pc = "list"
                \/ /\ store[x] # None /\ proc'["closer"].pc = "check"
                   /\ proc'["closer"].item = x /\ proc'["closer"].seen = store[x]
      BY <1>7, CloserVisit
    <2>2. proc["closer"].kind \in PersistKinds /\ x[1] = proc["closer"].kind
      BY <2>1
    <2>3. x \in Persistent /\ x[1] # "kv"
      BY <2>2, ItemFacts
    <2>4. Saveable(x, store[x]) /\ inUse' = inUse
      BY <1>7, <2>3, CloserVisit DEF Saveable, StoreBounded
    <2> QED BY <1>7, <2>1, <2>2, <2>4, CloserVisit DEF Saveable
  <1>8. CASE ListDone("closer")
    <2>1. proc["closer"].plan # <<>> => /\ Head(proc["closer"].plan) \in PersistKinds
                                        /\ Tail(proc["closer"].plan) \in Seq(PersistKinds)
      OBVIOUS
    <2> QED BY <1>8, <2>1, CloserListDone
  <1>9. CASE Close
    BY <1>9, CloserRole
  <1>10. CASE PersistBegin
    BY <1>10, CloserRole, PlansTyped
  <1>11. CASE PersistFails
    BY <1>0, <1>11, CloserRole
  <1>12. CASE PersistRename
    BY <1>12, CloserRole
  <1>13. CASE CloseUnsaved
    BY <1>13, CloserRole
  <1> QED BY <1>1, <1>2, <1>3, <1>4, <1>5, <1>6, <1>7, <1>8, <1>9, <1>10, <1>11, <1>12, <1>13
          DEF CloserStep

(* Only entries of the five written stores get into a file.                *)
LEMMA FilesSaveableInductive ==
    ASSUME ProcType, RestType, InHand, CloserRange, FilesSaveable, CloserStep
    PROVE  FilesSaveable'
  <1> SUFFICES ASSUME NEW y \in Items
               PROVE  Saveable(y, tmp.entry[y])' /\ Saveable(y, file.entry[y])'
    BY DEF FilesSaveable
  <1>0. Saveable(y, tmp.entry[y]) /\ Saveable(y, file.entry[y]) /\ Created.entry[y] = None
    BY EmptyTyped DEF FilesSaveable
  <1>1. CASE Away
    BY <1>0, <1>1 DEF Away, Saveable
  <1>2. CASE NewMemoryStorage \/ Close \/ CloseUnsaved \/ PersistFails
    BY <1>0, <1>2, CloserRole DEF Saveable
  <1>3. CASE Down \/ PersistBegin \/ PersistRename
    BY <1>0, <1>3, CloserRole DEF Saveable
  <1>4. CASE Tick
    <2>1. /\ tmp.entry[y] \in Lives \cup {None} /\ file.entry[y] \in Lives \cup {None}
          /\ tmp'.entry[y] = Aged(tmp.entry[y]) /\ file'.entry[y] = Aged(file.entry[y])
          /\ inUse' = inUse
      BY <1>4, WholeSteps, EntryTypes
    <2> QED BY <1>0, <2>1, LifeFacts DEF Saveable
  <1>5. CASE CheckExpired("closer")
    BY <1>0, <1>5, CloserCheck DEF CloserRange, Saveable
  <1>6. CASE RemoveExpired("closer") \/ CountDown("closer")
    BY <1>0, <1>6, CloserRemove DEF Saveable
  <1>7. CASE Visit("closer")
    BY <1>0, <1>7, CloserVisit DEF Saveable
  <1>8. CASE ListDone("closer")
    BY <1>0, <1>8, CloserListDone DEF Saveable
  <1> QED BY <1>1, <1>2, <1>3, <1>4, <1>5, <1>6, <1>7, <1>8 DEF CloserStep

(* The elements of the sequences that plans are made of.                   *)
LEMMA ElementsFacts ==
    ASSUME NEW S
    PROVE  /\ Elements(<<>>) = {}
           /\ \A s \in Seq(S) \ {<<>>} : Elements(s) = {Head(s)} \cup Elements(Tail(s))
           /\ \A s, t \in Seq(S) : Elements(s \o t) = Elements(s) \cup Elements(t)
  <1>1. Elements(<<>>) = {}
    BY DEF Elements
  <1>2. ASSUME NEW s \in Seq(S), s # <<>>
        PROVE  Elements(s) = {Head(s)} \cup Elements(Tail(s))
    <2>1. /\ Len(s) \in Nat \ {0} /\ Head(s) = s[1] /\ Len(Tail(s)) = Len(s) - 1
          /\ \A i \in 1..Len(s) - 1 : Tail(s)[i] = s[i + 1]
      BY <1>2
    <2>2. \A i \in 1..Len(s) : i = 1 \/ (i - 1 \in 1..Len(s) - 1 /\ (i - 1) + 1 = i)
      BY <2>1
    <2>3. \A i \in 1..Len(s) - 1 : i + 1 \in 1..Len(s)
      BY <2>1
    <2>4. Elements(s) \subseteq {Head(s)} \cup Elements(Tail(s))
      <3> SUFFICES ASSUME NEW i \in 1..Len(s) PROVE s[i] \in {Head(s)} \cup Elements(Tail(s))
        BY DEF Elements
      <3> QED BY <2>1, <2>2 DEF Elements
    <2>5. {Head(s)} \cup Elements(Tail(s)) \subseteq Elements(s)
      BY <2>1, <2>3 DEF Elements
    <2> QED BY <2>4, <2>5
  <1>3. ASSUME NEW s \in Seq(S), NEW t \in Seq(S)
        PROVE  Elements(s \o t) = Elements(s) \cup Elements(t)
    <2>1. /\ Len(s) \in Nat /\ Len(t) \in Nat /\ Len(s \o t) = Len(s) + Len(t)
          /\ \A i \in 1..Len(s) : (s \o t)[i] = s[i]
          /\ \A i \in Len(s) + 1..Len(s) + Len(t) : (s \o t)[i] = t[i - Len(s)]
      OBVIOUS
    <2>2. Elements(s \o t) \subseteq Elements(s) \cup Elements(t)
      <3> SUFFICES ASSUME NEW i \in 1..Len(s) + Len(t)
                   PROVE  (s \o t)[i] \in Elements(s) \cup Elements(t)
        BY <2>1 DEF Elements
      <3>1. CASE i \in 1..Len(s)
        BY <2>1, <3>1 DEF Elements
      <3>2. CASE i \in Len(s) + 1..Len(s) + Len(t)
        <4>1. i - Len(s) \in 1..Len(t) /\ (s \o t)[i] = t[i - Len(s)]
          BY <2>1, <3>2
        <4> QED BY <4>1 DEF Elements
      <3> QED BY <2>1, <3>1, <3>2
    <2>3. Elements(s) \subseteq Elements(s \o t)
      <3> SUFFICES ASSUME NEW i \in 1..Len(s) PROVE s[i] \in Elements(s \o t)
        BY DEF Elements
      <3>1. i \in 1..Len(s \o t) /\ (s \o t)[i] = s[i]
        BY <2>1
      <3> QED BY <3>1 DEF Elements
    <2>4. Elements(t) \subseteq Elements(s \o t)
      <3> SUFFICES ASSUME NEW i \in 1..Len(t) PROVE t[i] \in Elements(s \o t)
        BY DEF Elements
      <3> DEFINE j == i + Len(s)
      <3>1. j \in Len(s) + 1..Len(s) + Len(t) /\ j \in 1..Len(s \o t) /\ j - Len(s) = i
        BY <2>1
      <3>2. (s \o t)[j] = t[i]
        BY <2>1, <3>1
      <3> HIDE DEF j
      <3> QED BY <3>1, <3>2 DEF Elements
    <2> QED BY <2>2, <2>3, <2>4
  <1> QED BY <1>1, <1>2, <1>3

(* persistToFile lists every store that it is to write.                    *)
LEMMA PlanCovers == Sections \subseteq Elements(PersistLists)
  <1>1. ASSUME NEW k \in PersistKinds
        PROVE  Only(k) \in Seq(PersistKinds) /\ (k \in inUse => k \in Elements(Only(k)))
    BY DEF Only, Elements
  <1> DEFINE d == Only("dialog")
             r == Only("rtp")
             c == Only("client")
             g == Only("reg")
             a == Only("ami")
  <1>2. /\ d \in Seq(PersistKinds) /\ ("dialog" \in inUse => "dialog" \in Elements(d))
        /\ r \in Seq(PersistKinds) /\ ("rtp" \in inUse => "rtp" \in Elements(r))
        /\ c \in Seq(PersistKinds) /\ ("client" \in inUse => "client" \in Elements(c))
        /\ g \in Seq(PersistKinds) /\ ("reg" \in inUse => "reg" \in Elements(g))
        /\ a \in Seq(PersistKinds) /\ ("ami" \in inUse => "ami" \in Elements(a))
    BY <1>1 DEF PersistKinds
  <1>3. PersistLists = (((d \o r) \o c) \o g) \o a
    BY DEF PersistLists, CleanupLists
  <1>4. \A s, t \in Seq(PersistKinds) :
            s \o t \in Seq(PersistKinds) /\ Elements(s \o t) = Elements(s) \cup Elements(t)
    <2>1. \A s, t \in Seq(PersistKinds) : s \o t \in Seq(PersistKinds)
      OBVIOUS
    <2> QED BY <2>1, ElementsFacts
  <1> DEFINE dr == d \o r
             drc == dr \o c
             drcg == drc \o g
  <1>5. PersistLists = drcg \o a
    BY <1>3
  <1> HIDE DEF d, r, c, g, a
  <1>6. dr \in Seq(PersistKinds) /\ Elements(dr) = Elements(d) \cup Elements(r)
    BY <1>2, <1>4
  <1> HIDE DEF dr
  <1>7. drc \in Seq(PersistKinds) /\ Elements(drc) = Elements(dr) \cup Elements(c)
    BY <1>2, <1>4, <1>6
  <1> HIDE DEF drc
  <1>8. drcg \in Seq(PersistKinds) /\ Elements(drcg) = Elements(drc) \cup Elements(g)
    BY <1>2, <1>4, <1>7
  <1> HIDE DEF drcg
  <1>9. Elements(PersistLists) = Elements(drcg) \cup Elements(a)
    BY <1>2, <1>4, <1>5, <1>8
  <1> QED BY <1>2, <1>6, <1>7, <1>8, <1>9 DEF Sections, PersistKinds

(* What the closer plans after a Range that is over.                       *)
LEMMA PlannedNext ==
    ASSUME ProcType, CloserRange, ListDone("closer"), RestType
    PROVE  \/ /\ proc'["closer"].pc = "list" /\ proc'["closer"].todo = Keys
              /\ Planned = {proc'["closer"].kind} \cup Planned'
           \/ proc'["closer"].pc = "rename" /\ Planned = {}
  <1> DEFINE s == proc["closer"].plan
  <1>1. s \in Seq(PersistKinds)
    BY DEF CloserRange
  <1>2. CASE s # <<>>
    <2>1. /\ proc'["closer"].pc = "list" /\ proc'["closer"].todo = Keys
          /\ proc'["closer"].kind = Head(s) /\ proc'["closer"].plan = Tail(s)
      BY <1>2, CloserListDone
    <2>2. Elements(s) = {Head(s)} \cup Elements(Tail(s))
      BY <1>1, <1>2, ElementsFacts
    <2> HIDE DEF s
    <2>3. Planned = Elements(s) /\ Planned' = Elements(Tail(s))
      BY <2>1 DEF Planned, s, Elements
    <2> QED BY <2>1, <2>2, <2>3
  <1>3. CASE s = <<>>
    <2>1. Planned = {}
      BY <1>3, ElementsFacts DEF Planned
    <2> QED BY <1>3, <2>1, CloserListDone
  <1> QED BY <1>2, <1>3

(* The temporary file gains a section with each store that is listed, and  *)
(* has all of them at the rename.                                          *)
LEMMA TmpProgressInductive ==
    ASSUME ProcType, RestType, InHand, CloserRange, TmpProgress, CloserStep
    PROVE  TmpProgress'
  <1>0. Created.lists = {}
    BY EmptyTyped
  <1>i. inUse' = inUse => Sections' = Sections
    BY DEF Sections
  <1>p. SameRange => Planned' = Planned
    BY DEF SameRange, Planned, Elements
  <1> USE <1>0, <1>i, <1>p DEF TmpProgress, Listing
  <1>1. CASE Away
    <2>1. SameRange
      BY <1>1 DEF Away, SameRange
    <2> QED BY <1>1, <2>1 DEF Away, SameRange
  <1>2. CASE NewMemoryStorage
    <2>1. SameRange
      BY <1>2, CloserRole DEF SameRange
    <2> QED BY <1>2, <2>1, CloserRole DEF SameRange
  <1>3. CASE Down
    BY <1>3, CloserRole
  <1>4. CASE Tick
    BY <1>4, CloserRole, WholeSteps DEF SameRange
  <1>5. CASE CheckExpired("closer")
    BY <1>5, CloserCheck DEF SameRange
  <1>6. CASE RemoveExpired("closer") \/ CountDown("closer")
    BY <1>6, CloserRemove DEF SameRange
  <1>7. CASE Visit("closer")
    <2>1. Planned' = Planned
      BY <1>7, CloserVisit DEF Planned, Elements
    <2> QED BY <1>7, <2>1, CloserVisit
  <1>8. CASE ListDone("closer")
    <2>1. Sections \subseteq tmp.lists \cup Planned \cup {proc["closer"].kind}
      BY <1>8, CloserListDone
    <2>2. /\ tmp'.lists = tmp.lists \cup ({proc["closer"].kind} \cap Sections)
          /\ Sections' = Sections
      BY <1>8, CloserListDone
    <2> QED BY <1>8, <2>1, <2>2, PlannedNext
  <1>9. CASE Close
    BY <1>9, CloserRole
  <1>10. CASE PersistBegin
    <2>1. Planned' = Elements(PersistLists)
      BY <1>10, CloserRole DEF Planned, Elements
    <2> QED BY <1>10, <2>1, CloserRole, PlanCovers
  <1>11. CASE PersistFails
    BY <1>11, CloserRole
  <1>12. CASE PersistRename
    BY <1>12, CloserRole
  <1>13. CASE CloseUnsaved
    BY <1>13, CloserRole
  <1> QED BY <1>1, <1>2, <1>3, <1>4, <1>5, <1>6, <1>7, <1>8, <1>9, <1>10, <1>11, <1>12, <1>13
          DEF CloserStep

(* The file at persistPath is complete after every step.                   *)
LEMMA FileCompleteInductive ==
    ASSUME ProcType, RestType, InHand, CloserRange, TmpProgress, FileComplete, CloserStep
    PROVE  FileComplete'
  <1>i. inUse' = inUse => Sections' = Sections
    BY DEF Sections
  <1> USE <1>i DEF FileComplete
  <1>1. CASE Away
    BY <1>1 DEF Away
  <1>2. CASE \/ NewMemoryStorage \/ Down \/ Close \/ CloseUnsaved
            \/ PersistBegin \/ PersistFails
    BY <1>2, CloserRole
  <1>3. CASE Tick
    BY <1>3, WholeSteps
  <1>4. CASE CheckExpired("closer")
    BY <1>4, CloserCheck
  <1>5. CASE RemoveExpired("closer") \/ CountDown("closer")
    BY <1>5, CloserRemove
  <1>6. CASE Visit("closer") \/ ListDone("closer")
    BY <1>6, CloserVisit, CloserListDone
  <1>7. CASE PersistRename
    BY <1>7, CloserRole DEF TmpProgress
  <1> QED BY <1>1, <1>2, <1>3, <1>4, <1>5, <1>6, <1>7 DEF CloserStep

(* No step loses an entry that Close owes, before it is written or after.  *)
LEMMA OwedInductive ==
    ASSUME ProcType, RestType, InHand, DownBriefly, CloserRange, StoreBounded, OwedPending,
           CloserStep, persists' = persists
    PROVE  OwedPending'
  <1> DEFINE c == proc["closer"]
             Pending(x) ==
                \/ tmp.entry[x] = store[x]
                \/ c.pc = "check" /\ c.item = x
                \/ x[1] = c.kind /\ x[2] \in c.todo
                \/ x[1] \in Planned
             Kept(x) ==
                /\ store[x] > 0
                /\ c.pc = "check" /\ c.item = x => c.seen = store[x]
                /\ c.pc \in Listing => Pending(x)
                /\ c.pc = "rename" => tmp.entry[x] = store[x]
                /\ persists /\ c.pc = "closed" => file.entry[x] = store[x]
  <1>a. owed \subseteq Persistent /\ \A x \in owed : x \in Items /\ Kept(x)
    BY ItemFacts DEF OwedPending
  <1>b. SUFFICES owed' \subseteq Persistent /\ \A x \in owed' : Kept(x)'
    BY DEF OwedPending
  <1>p. SameRange => Planned' = Planned
    BY DEF SameRange, Planned, Elements
  <1> USE DEF Listing
  (* Steps that neither move the closer nor change the files.              *)
  <1>1. ASSUME Away PROVE owed' \subseteq Persistent /\ \A x \in owed' : Kept(x)'
    <2>1. \A x \in owed' : x \in owed /\ store'[x] = store[x]
      BY <1>a, <1>1 DEF Away, Untouched, Spares
    <2>2. c' = c /\ tmp' = tmp /\ file' = file /\ Planned' = Planned
      BY <1>1 DEF Away, Planned, Elements
    <2> QED BY <1>a, <2>1, <2>2
  <1>2. ASSUME NewMemoryStorage PROVE owed' \subseteq Persistent /\ \A x \in owed' : Kept(x)'
    BY <1>2, CloserRole DEF DownBriefly
  <1>3. ASSUME Down PROVE owed' \subseteq Persistent /\ \A x \in owed' : Kept(x)'
    BY <1>3, CloserRole
  <1>4. ASSUME Tick PROVE owed' \subseteq Persistent /\ \A x \in owed' : Kept(x)'
    <2>1. /\ c'.pc = c.pc /\ c'.item = c.item /\ c'.seen = Aged(c.seen) /\ Planned' = Planned
          /\ c'.todo = c.todo /\ c'.kind = c.kind
          /\ owed' = owed \ {x \in Items : store[x] = 1}
      BY <1>4, <1>p, CloserRole DEF SameRange
    <2> SUFFICES ASSUME NEW x \in owed' PROVE Kept(x)'
      BY <1>a, <2>1
    <2>2. /\ x \in Items /\ Kept(x) /\ store[x] # 1 /\ store[x] \in Lives \cup {None}
          /\ store'[x] = Aged(store[x]) /\ tmp'.entry[x] = Aged(tmp.entry[x])
          /\ file'.entry[x] = Aged(file.entry[x])
      BY <1>a, <1>4, <2>1, WholeSteps, EntryTypes
    <2>3. store[x] > 1 /\ store'[x] > 0
      BY <2>2, LifeFacts
    <2> QED BY <2>1, <2>2, <2>3
  <1>5. ASSUME CheckExpired("closer")
        PROVE  owed' \subseteq Persistent /\ \A x \in owed' : Kept(x)'
    <2>1. /\ c.pc = "check" /\ Planned' = Planned /\ c'.todo = c.todo /\ c'.kind = c.kind
          /\ c'.pc \in {"remove", "list"}
          /\ store' = store /\ owed' = owed /\ file' = file
          /\ \A y \in Items : tmp'.entry[y] = IF y = c.item /\ c.seen # 0
                                              THEN c.seen ELSE tmp.entry[y]
      BY <1>5, <1>p, CloserCheck DEF SameRange
    <2> SUFFICES ASSUME NEW x \in owed PROVE Kept(x)'
      BY <1>a, <2>1
    <2>2. x \in Items /\ Kept(x) /\ Pending(x)
      BY <1>a, <2>1
    <2>3. CASE x = c.item
      <3>1. c.seen = store[x] /\ c.seen # 0
        BY <2>1, <2>2, <2>3
      <3> QED BY <2>1, <2>2, <2>3, <3>1
    <2>4. CASE x # c.item
      <3>1. tmp'.entry[x] = tmp.entry[x]
        BY <2>1, <2>2, <2>4
      <3> QED BY <2>1, <2>2, <2>4, <3>1
    <2> QED BY <2>3, <2>4
  <1>6. ASSUME RemoveExpired("closer") \/ CountDown("closer")
        PROVE  owed' \subseteq Persistent /\ \A x \in owed' : Kept(x)'
    <2>1. /\ c.pc \in {"remove", "uncount"} /\ Planned' = Planned
          /\ c'.todo = c.todo /\ c'.kind = c.kind
          /\ c'.pc \in {"uncount", "list"} /\ tmp' = tmp /\ file' = file /\ Untouched
      BY <1>6, <1>p, CloserRemove DEF SameRange
    <2>2. \A x \in owed' : x \in owed /\ store'[x] = store[x]
      BY <1>a, <2>1 DEF Untouched, Spares
    <2> QED BY <1>a, <2>1, <2>2
  <1>7. ASSUME Visit("closer") PROVE owed' \subseteq Persistent /\ \A x \in owed' : Kept(x)'
    <2>1. PICK key \in c.todo, z \in Items :
             /\ z = <<c.kind, key>> /\ c'.todo = c.todo \ {key}
             /\ \/ store[z] = None /\ c'.pc = "list"
                \/ store[z] # None /\ c'.pc = "check" /\ c'.item = z /\ c'.seen = store[z]
      BY <1>7, CloserVisit
    <2>2. /\ c.pc = "list" /\ c'.kind = c.kind /\ Planned' = Planned
          /\ store' = store /\ owed' = owed /\ tmp' = tmp /\ file' = file
      BY <1>7, CloserVisit DEF Planned, Elements
    <2> SUFFICES ASSUME NEW x \in owed PROVE Kept(x)'
      BY <1>a, <2>2
    <2>3. x \in Items /\ Kept(x) /\ Pending(x) /\ x = <<x[1], x[2]>>
      BY <1>a, <2>2, ItemFacts
    <2>4. CASE x = z
      <3>1. store[z] # None
        BY <2>3, <2>4 DEF None
      <3> QED BY <2>1, <2>2, <2>3, <2>4, <3>1
    <2>5. CASE x # z
      <3>1. x[1] = c.kind => x[2] # key
        BY <2>1, <2>3, <2>5
      <3> QED BY <2>1, <2>2, <2>3, <2>5, <3>1
    <2> QED BY <2>4, <2>5
  <1>8. ASSUME ListDone("closer") PROVE owed' \subseteq Persistent /\ \A x \in owed' : Kept(x)'
    <2>1. /\ c.pc = "list" /\ c.todo = {} /\ c'.pc \in {"list", "rename"}
          /\ store' = store /\ owed' = owed /\ tmp'.entry = tmp.entry /\ file' = file
      BY <1>8, CloserListDone
    <2> SUFFICES ASSUME NEW x \in owed PROVE Kept(x)'
      BY <1>a, <2>1
    <2>2. x \in Items /\ Kept(x) /\ Pending(x) /\ x[2] \in Keys
      BY <1>a, <2>1, ItemFacts
    <2>3. \/ c'.pc = "list" /\ c'.todo = Keys /\ Planned = {c'.kind} \cup Planned'
          \/ c'.pc = "rename" /\ Planned = {}
      BY <1>8, PlannedNext
    <2> HIDE DEF c
    <2> QED BY <2>1, <2>2, <2>3
  <1>9. ASSUME Close PROVE owed' \subseteq Persistent /\ \A x \in owed' : Kept(x)'
    BY <1>9, CloserRole
  <1>10. ASSUME PersistBegin PROVE owed' \subseteq Persistent /\ \A x \in owed' : Kept(x)'
    <2>1. /\ c'.pc = "list" /\ c'.plan = PersistLists /\ store' = store /\ owed' = owed
      BY <1>10, CloserRole
    <2>2. Planned' = Elements(PersistLists)
      BY <2>1 DEF Planned, Elements
    <2> SUFFICES ASSUME NEW x \in owed PROVE Kept(x)'
      BY <1>a, <2>1
    <2>3. x \in Items /\ store[x] > 0 /\ x[1] \in PersistKinds
      BY <1>a, ItemFacts
    <2>4. x[1] \in Sections
      BY <2>3 DEF StoreBounded, Sections, None
    <2>5. x[1] \in Planned'
      BY <2>2, <2>4, PlanCovers
    <2> QED BY <2>1, <2>3, <2>5
  <1>11. ASSUME PersistFails PROVE owed' \subseteq Persistent /\ \A x \in owed' : Kept(x)'
    BY <1>a, <1>11, CloserRole
  <1>12. ASSUME PersistRename PROVE owed' \subseteq Persistent /\ \A x \in owed' : Kept(x)'
    BY <1>a, <1>12, CloserRole
  <1>13. ASSUME CloseUnsaved PROVE owed' \subseteq Persistent /\ \A x \in owed' : Kept(x)'
    BY <1>a, <1>13, CloserRole
  <1> QED BY <1>1, <1>2, <1>3, <1>4, <1>5, <1>6, <1>7, <1>8, <1>9, <1>10, <1>11, <1>12, <1>13
          DEF CloserStep

(* The invariant holds at the start.                                       *)
LEMMA InitInvariant == Init => IInv
  <1> SUFFICES ASSUME Init PROVE IInv
    OBVIOUS
  <1>1. \A p \in Procs : proc[p] = Idle
    BY DEF Init
  <1>2. /\ ProcType /\ \A p \in Procs : proc[p].pc = "idle" /\ proc[p].todo = {}
        /\ \A p \in Procs : proc[p].plan = <<>> /\ proc[p].doomed = {}
    BY <1>1, IdleTyped DEF ProcType, Init, Idle
  <1>3. /\ \A x \in Items : /\ store[x] = None
                            /\ tmp.entry[x] = None /\ file.entry[x] = None
        /\ tmp.lists = {} /\ file.lists = Sections
        /\ store \in [Items -> Lives \cup {None}]
        /\ tmp \in [lists : SUBSET Kinds, entry : [Items -> Lives \cup {None}]]
    BY EmptyTyped DEF Init
  <1>4. inUse \in SUBSET Kinds
    BY ItemsAssumption DEF Init
  <1>5. RestType
    <2>1. Sections \in SUBSET Kinds
      BY <1>4 DEF Sections
    <2>2. file \in [lists : SUBSET Kinds, entry : [Items -> Lives \cup {None}]]
      BY <2>1, EmptyTyped DEF Init
    <2>3. count \in [Kinds -> Int]
      BY DEF Init
    <2>4. restarts \in 0..MaxRestarts
      BY StorageAssumption DEF Init
    <2> QED BY <1>3, <1>4, <2>2, <2>3, <2>4 DEF RestType, Init
  <1>6. InHand /\ WritersInUse
    BY <1>2 DEF InHand, WritersInUse, WithItem, WithEntry, Writing
  <1>7. DownBriefly
    BY DEF DownBriefly, Init
  <1>8. StoreBounded /\ FilesSaveable /\ FileComplete
    BY <1>3 DEF StoreBounded, FilesSaveable, Saveable, FileComplete
  <1>9. CollectorOnly
    BY <1>2 DEF CollectorOnly
  <1>10. CloserRange
    <2>1. <<>> \in Seq(PersistKinds)
      OBVIOUS
    <2> QED BY <1>2, <2>1, ProcFacts DEF CloserRange, Listing
  <1>11. TmpProgress
    BY <1>2, <1>3, ProcFacts DEF TmpProgress, Listing
  <1>12. OwedPending
    BY DEF OwedPending, Init
  <1> QED BY <1>2, <1>5, <1>6, <1>7, <1>8, <1>9, <1>10, <1>11, <1>12 DEF IInv

(* Every step preserves the invariant.                                     *)
LEMMA NextInvariant == IInv /\ [Next]_vars => IInv'
  <1> SUFFICES ASSUME IInv, [Next]_vars PROVE IInv'
    OBVIOUS
  <1>0. /\ ProcType /\ RestType /\ InHand /\ DownBriefly
        /\ CollectorOnly
        /\ StoreBounded /\ WritersInUse /\ FilesSaveable /\ CloserRange
        /\ TmpProgress /\ FileComplete /\ OwedPending
    BY DEF IInv
  <1>1. StoreStep /\ HandSteps /\ CloserStep /\ persists' = persists
    BY <1>0, StoreCases, HandCases, CloserCases, PersistsConstant
  <1>2. ProcType' /\ RestType' /\ InHand' /\ DownBriefly'
    BY <1>0, ProcTypeInductive, RestTypeInductive, InHandInductive, DownInductive
  <1>3. CollectorOnly'
    BY <1>0, CollectorInductive
  <1>4. StoreBounded' /\ WritersInUse' /\ FilesSaveable' /\ CloserRange'
    BY <1>0, <1>1, StoreBoundedInductive, WritersInductive, FilesSaveableInductive,
       CloserRangeInductive
  <1>5. TmpProgress' /\ FileComplete' /\ OwedPending'
    BY <1>0, <1>1, TmpProgressInductive, FileCompleteInductive, OwedInductive
  <1> QED BY <1>2, <1>3, <1>4, <1>5 DEF IInv

-----------------------------------------------------------------------------

(* The inductive invariant, for any clients, keys, lives and restarts.     *)
THEOREM StorageInvariant == Spec => []IInv
  BY InitInvariant, NextInvariant, PTL DEF Spec

(* Every variable stays in its type: no operation of memory.go leaves a    *)
(* goroutine, a store, a counter or a file in a state the others do not    *)
(* expect.                                                                 *)
THEOREM TypeCorrect == Spec => []TypeOK
  <1>1. IInv => TypeOK
    BY TypeParts DEF IInv
  <1> QED BY <1>1, StorageInvariant, PTL

(* The file at persistPath is complete at every moment, whichever step of  *)
(* persistToFile fails or is the last before a crash.                      *)
THEOREM FileAlwaysComplete == Spec => []FileComplete
  <1>1. IInv => FileComplete
    BY DEF IInv
  <1> QED BY <1>1, StorageInvariant, PTL

(* When Close of a storage with persistOnShutdown and a persistPath has    *)
(* returned without error, what was alive when it was called and has not   *)
(* been touched since is in the file.                                      *)
THEOREM CloseSavesAll == Spec => []CloseSaves
  <1>1. IInv => CloseSaves
    BY DEF IInv, OwedPending, CloseSaves
  <1> QED BY <1>1, StorageInvariant, PTL

-----------------------------------------------------------------------------
(* MemoryStorage implements KVStore.                                       *)

(* What each goroutine has read and not yet examined, who has met an       *)
(* expired entry, and who is deleting what, as KVStore sees it.            *)
Nothing == [item |-> NoItem, life |-> None]

Reading == [p \in Procs |-> IF proc[p].pc = "check"
                            THEN [item |-> proc[p].item, life |-> proc[p].seen]
                            ELSE [item |-> NoItem, life |-> None]]
Doomed == {u \in Procs \X Items : Dooms(u[1], u[2])}
Deleting == [p \in Procs |-> IF proc[p].pc = "erase" THEN proc[p].item ELSE NoItem]

(* A step that only p takes, as far as the goroutines are concerned.       *)
Alone(p) == \A q \in Procs \ {p} : proc'[q] = proc[q]

(* p neither begins nor ends reading, meeting or deleting an entry.        *)
Quiet(p) ==
    /\ Alone(p)
    /\ proc[p].pc \notin {"check", "remove", "erase"}
    /\ proc'[p].pc \notin {"check", "remove", "erase"}
    /\ \/ proc[p].doomed = {} /\ proc'[p].doomed = {}
       \/ proc'[p].doomed = proc[p].doomed /\ proc'[p].item = proc[p].item

(* Nobody else's reading or deletion is touched.                           *)
LEMMA ReadingKept ==
    ASSUME NEW p \in Procs, Alone(p), proc[p].pc # "check", proc'[p].pc # "check"
    PROVE  Reading' = Reading
  BY DEF Alone, Reading

(* The same for deletions.                                                 *)
LEMMA DeletingKept ==
    ASSUME NEW p \in Procs, Alone(p), proc[p].pc # "erase", proc'[p].pc # "erase"
    PROVE  Deleting' = Deleting
  BY DEF Alone, Deleting

(* The pairs in Doomed, one by one.                                        *)
LEMMA DoomedIs ==
    /\ \A p \in Procs, x \in Items : <<p, x>> \in Doomed <=> Dooms(p, x)
    /\ \A u \in Doomed : \E p \in Procs, x \in Items : u = <<p, x>>
  BY DEF Doomed

(* The same after a step.                                                  *)
LEMMA DoomedIsNext ==
    /\ \A p \in Procs, x \in Items : <<p, x>> \in Doomed' <=> Dooms(p, x)'
    /\ \A u \in Doomed' : \E p \in Procs, x \in Items : u = <<p, x>>
  BY DEF Doomed

(* What a step of p does to what the others have met: nothing.             *)
LEMMA OthersMet ==
    ASSUME NEW p \in Procs, Alone(p), NEW q \in Procs \ {p}, NEW x \in Items
    PROVE  Dooms(q, x)' <=> Dooms(q, x)
  BY DEF Alone, Dooms

(* p meets nothing and removes nothing.                                    *)
LEMMA DoomedKept ==
    ASSUME NEW p \in Procs, Alone(p), \A x \in Items : Dooms(p, x)' <=> Dooms(p, x)
    PROVE  Doomed' = Doomed
  <1>1. \A q \in Procs, x \in Items : Dooms(q, x)' <=> Dooms(q, x)
    BY OthersMet
  <1>2. \A q \in Procs, x \in Items : <<q, x>> \in Doomed' <=> <<q, x>> \in Doomed
    BY <1>1, DoomedIs, DoomedIsNext
  <1> QED BY <1>2, DoomedIs, DoomedIsNext

(* p meets an expired entry of x.                                          *)
LEMMA DoomedMore ==
    ASSUME NEW p \in Procs, NEW x \in Items, Alone(p),
           \A y \in Items : Dooms(p, y)' <=> y = x \/ Dooms(p, y)
    PROVE  Doomed' = Doomed \cup {<<p, x>>}
  <1>1. \A q \in Procs, y \in Items :
           Dooms(q, y)' <=> (q = p /\ y = x) \/ Dooms(q, y)
    BY OthersMet
  <1>2. \A q \in Procs, y \in Items :
           <<q, y>> \in Doomed' <=> <<q, y>> \in Doomed \cup {<<p, x>>}
    BY <1>1, DoomedIs, DoomedIsNext
  <1> QED BY <1>2, DoomedIs, DoomedIsNext

(* p removes what it has met at x.                                         *)
LEMMA DoomedLess ==
    ASSUME NEW p \in Procs, NEW x \in Items, Alone(p),
           \A y \in Items : Dooms(p, y)' <=> y # x /\ Dooms(p, y)
    PROVE  Doomed' = Doomed \ {<<p, x>>}
  <1>1. \A q \in Procs, y \in Items :
           Dooms(q, y)' <=> ~ (q = p /\ y = x) /\ Dooms(q, y)
    BY OthersMet
  <1>2. \A q \in Procs, y \in Items :
           <<q, y>> \in Doomed' <=> <<q, y>> \in Doomed \ {<<p, x>>}
    BY <1>1, DoomedIs, DoomedIsNext
  <1> QED BY <1>2, DoomedIs, DoomedIsNext

(* A quiet step is none for KVStore as far as the goroutines are concerned. *)
LEMMA QuietKeeps ==
    ASSUME NEW p \in Procs, Quiet(p)
    PROVE  Reading' = Reading /\ Doomed' = Doomed /\ Deleting' = Deleting
  <1>1. Reading' = Reading /\ Deleting' = Deleting
    BY ReadingKept, DeletingKept DEF Quiet
  <1>2. \A x \in Items : Dooms(p, x)' <=> Dooms(p, x)
    BY DEF Quiet, Dooms
  <1> QED BY <1>1, <1>2, DoomedKept DEF Quiet

(* The steps of the storage as steps of KVStore.                           *)
Shown == [KV!Next]_(KV!vars)

(* A step that KVStore does not show.                                      *)
LEMMA ShowStutter ==
    ASSUME store' = store, tmp'.entry = tmp.entry, file' = file, up' = up,
           Reading' = Reading, Doomed' = Doomed, Deleting' = Deleting
    PROVE  Shown
  BY DEF Shown, KV!vars, Reading, Doomed, Deleting

(* An entry is put.                                                        *)
LEMMA ShowPut ==
    ASSUME NEW x \in Items, NEW l \in Lives, Put(x, l), up, up' = up, tmp' = tmp, file' = file,
           Reading' = Reading, Doomed' = Doomed, Deleting' = Deleting
    PROVE  Shown
  <1>1. KV!Put(x, l)
    BY DEF KV!Put, Put, Reading, Doomed, Deleting
  <1>2. l \in 0..KV!Never
    BY DEF KV!Never, Lives, Never
  <1> QED BY <1>1, <1>2 DEF Shown, KV!Next

(* An entry is read.                                                       *)
LEMMA ShowRead ==
    ASSUME NEW p \in Procs, NEW x \in Items, store[x] # None, Alone(p),
           proc[p].pc \notin {"check", "remove", "erase"}, proc'[p].pc = "check",
           proc'[p].item = x, proc'[p].seen = store[x],
           proc[p].doomed = {}, proc'[p].doomed = {},
           store' = store, tmp' = tmp, file' = file, up' = up
    PROVE  Shown
  <1>1. Reading' = [Reading EXCEPT ![p] = [item |-> x, life |-> store[x]]]
    BY DEF Reading, Alone
  <1>2. Deleting' = Deleting
    BY DeletingKept
  <1>3. \A y \in Items : Dooms(p, y)' <=> Dooms(p, y)
    BY DEF Dooms
  <1>4. Doomed' = Doomed
    BY <1>3, DoomedKept
  <1>5. KV!Read(p, x)
    BY <1>1, <1>2, <1>4 DEF KV!Read, KV!None, None, Reading, Doomed, Deleting
  <1> QED BY <1>5 DEF Shown, KV!Next

(* An expired entry, or one that replaced it, is forgotten.                *)
LEMMA ShowForget ==
    ASSUME NEW p \in Procs, NEW x \in Items, Take(x), up' = up, tmp' = tmp, file' = file,
           Dooms(p, x), Reading' = Reading, Doomed' = Doomed \ {<<p, x>>}, Deleting' = Deleting
    PROVE  Shown
  <1>1. <<p, x>> \in Doomed
    BY DoomedIs
  <1>2. KV!Forget(p, x)
    BY <1>1 DEF KV!Forget, KV!None, None, Take, Reading, Doomed, Deleting
  <1> QED BY <1>2 DEF Shown, KV!Next

(* Every step of the storage is a step of KVStore or changes nothing that  *)
(* KVStore shows.                                                          *)
LEMMA ShownNext == IInv /\ [Next]_vars => Shown
  <1> SUFFICES ASSUME IInv, [Next]_vars
               PROVE  Shown
    OBVIOUS
  <1>0. /\ ProcType /\ RestType /\ InHand /\ CollectorOnly
        /\ FilesSaveable /\ FileComplete /\ CloserRange
    BY DEF IInv
  <1> USE <1>0
  <1>d. \A p \in Procs : proc[p].pc \notin {"collect", "purge"} => proc[p].doomed = {}
    BY DEF CollectorOnly
  <1>1. ASSUME NEW p \in Clients, NEW k \in Kinds, GetFrom(p, k) PROVE Shown
    <2>1. PICK x \in ItemsOf(k) : store[x] # None /\ Holds(p, "check", x, store[x])
      BY <1>1, GetFromMoves
    <2>2. x \in Items /\ p \in Procs /\ proc[p].pc = "idle"
      BY <1>1, GetFromMoves, ItemFacts, ProcFacts
    <2>3. store' = store /\ tmp' = tmp /\ file' = file /\ up' = up
      BY <1>1 DEF GetFrom, diskVars
    <2>4. /\ Alone(p) /\ proc'[p].pc = "check" /\ proc'[p].item = x /\ proc'[p].seen = store[x]
          /\ proc[p].doomed = {} /\ proc'[p].doomed = {}
      BY <1>d, <2>1, <2>2 DEF Alone, Holds, Becomes
    <2> QED BY <2>1, <2>2, <2>3, <2>4, ShowRead
  <1>2. ASSUME NEW p \in Clients, NEW k \in Kinds, DeleteFrom(p, k) PROVE Shown
    <2>1. PICK x \in ItemsOf(k) : Holds(p, "erase", x, None)
      BY <1>2, DeleteFromMoves
    <2>2. x \in Items /\ p \in Procs /\ proc[p].pc = "idle"
      BY <1>2, DeleteFromMoves, ItemFacts, ProcFacts
    <2>3. /\ Alone(p) /\ proc'[p].pc = "erase" /\ proc'[p].item = x
          /\ proc[p].doomed = {} /\ proc'[p].doomed = {}
      BY <1>d, <2>1, <2>2 DEF Alone, Holds, Becomes
    <2>4. Deleting' = [Deleting EXCEPT ![p] = x]
      BY <2>2, <2>3 DEF Deleting, Alone
    <2>5. Reading' = Reading
      BY <2>2, <2>3, ReadingKept
    <2>6. Doomed' = Doomed
      <3>1. \A y \in Items : Dooms(p, y)' <=> Dooms(p, y)
        BY <2>2, <2>3 DEF Dooms
      <3> QED BY <2>2, <2>3, <3>1, DoomedKept
    <2>7. store' = store /\ tmp' = tmp /\ file' = file /\ up' = up /\ up
      BY <1>2 DEF DeleteFrom, Calls, At, diskVars
    <2>8. KV!BeginDelete(p, x)
      BY <2>4, <2>5, <2>6, <2>7 DEF KV!BeginDelete, Reading, Doomed, Deleting
    <2> QED BY <2>2, <2>8 DEF Shown, KV!Next
  <1>3. ASSUME NEW p \in Clients, NEW k \in Kinds, ListOf(p, k) PROVE Shown
    <2>0. p \in Procs
      BY ProcFacts
    <2>1. Quiet(p)
      BY <1>3, <1>d, <2>0, ListOfMoves
         DEF Quiet, Alone, ListOf, At, Holds, Enters, Becomes
    <2>2. Reading' = Reading /\ Doomed' = Doomed /\ Deleting' = Deleting
      BY <2>0, <2>1, QuietKeeps
    <2>3. store' = store /\ tmp'.entry = tmp.entry /\ file' = file /\ up' = up
      BY <1>3 DEF ListOf, diskVars
    <2> QED BY <2>2, <2>3, ShowStutter
  <1>4. ASSUME NEW p \in Clients, NEW k \in Typed, StoreTo(p, k) PROVE Shown
    <2>0. p \in Procs
      BY ProcFacts
    <2>1. Quiet(p)
      BY <1>4, <1>d, <2>0, StoreToMoves
         DEF Quiet, Alone, StoreTo, Calls, At, Holds, Enters, Becomes
    <2>2. Reading' = Reading /\ Doomed' = Doomed /\ Deleting' = Deleting
      BY <2>0, <2>1, QuietKeeps
    <2>3. store' = store /\ tmp'.entry = tmp.entry /\ file' = file /\ up' = up
      BY <1>4 DEF StoreTo, diskVars
    <2> QED BY <2>2, <2>3, ShowStutter
  <1>5. ASSUME NEW p \in Clients, Set(p) PROVE Shown
    <2>0. p \in Procs
      BY ProcFacts
    <2>1. Quiet(p)
      BY <1>5, <1>d, <2>0, SetMoves
         DEF Quiet, Alone, Set, Calls, At, Holds, Enters, Becomes
    <2>2. Reading' = Reading /\ Doomed' = Doomed /\ Deleting' = Deleting
      BY <2>0, <2>1, QuietKeeps
    <2>3. PICK x \in ItemsOf("kv"), l \in 1..Never : Put(x, l)
      BY <1>5 DEF Set
    <2>4. x \in Items /\ l \in Lives
      BY ItemFacts, LifeFacts, ProcFacts
    <2>5. up /\ up' = up /\ tmp' = tmp /\ file' = file
      BY <1>5 DEF Set, Calls, At, diskVars
    <2> QED BY <2>2, <2>3, <2>4, <2>5, ShowPut
  <1>6. ASSUME NEW p \in Procs, CheckExpired(p) PROVE Shown
    <2> DEFINE x == proc[p].item
               l == proc[p].seen
    <2>1. /\ proc[p].pc = "check" /\ x \in Items /\ l \in Lives /\ proc[p].doomed = {}
          /\ \/ l = 0 /\ Holds(p, "remove", x, None)
             \/ /\ l # 0 \/ (p = "closer" /\ x[1] = "ami")
                /\ Holds(p, "list", NoItem, None) \/ Enters(p, "idle")
      BY <1>6, <1>d, CheckMoves
    <2>2. /\ Alone(p) /\ proc'[p].pc \notin {"check", "erase"} /\ proc'[p].doomed = {}
          /\ \/ l = 0 /\ proc'[p].pc = "remove" /\ proc'[p].item = x
             \/ proc'[p].pc # "remove"
      BY <2>1 DEF Alone, Holds, Enters, Becomes
    <2>3. Deleting' = Deleting
      BY <2>1, <2>2, DeletingKept
    <2>4. /\ Reading' = [Reading EXCEPT ![p] = Nothing]
          /\ Reading[p] = [item |-> x, life |-> l]
      BY <2>1, <2>2 DEF Reading, Alone, Nothing
    <2>5. Reading[p].item = x /\ Reading[p].life = l
      BY <2>4
    <2>6. /\ store' = store /\ file' = file /\ up' = up
          /\ tmp' = IF p = "closer" /\ l # 0 THEN [tmp EXCEPT !.entry[x] = l] ELSE tmp
      BY <1>6 DEF CheckExpired, Expired
    <2>7. KV!Nothing = Nothing
      BY DEF KV!Nothing, KV!None, Nothing, None
    <2>8. CASE proc'[p].pc = "remove"
      <3>1. l = 0 /\ proc'[p].item = x /\ tmp' = tmp
        BY <2>2, <2>6, <2>8
      <3>2. \A y \in Items : Dooms(p, y)' <=> y = x \/ Dooms(p, y)
        BY <2>1, <2>2, <2>8, <3>1 DEF Dooms
      <3>3. Doomed' = Doomed \cup {<<p, x>>}
        BY <2>1, <2>2, <3>2, DoomedMore
      <3> HIDE DEF x, l
      <3>4. KV!MeetRead(p)
        BY <2>3, <2>4, <2>5, <2>6, <2>7, <3>1, <3>3
           DEF KV!MeetRead, Reading, Doomed, Deleting
      <3> QED BY <3>4 DEF Shown, KV!Next
    <2>9. CASE proc'[p].pc # "remove"
      <3>1. \A y \in Items : Dooms(p, y)' <=> Dooms(p, y)
        BY <2>1, <2>2, <2>9 DEF Dooms
      <3>2. Doomed' = Doomed
        BY <2>2, <3>1, DoomedKept
      <3>3. CASE p = "closer" /\ l # 0
        <4>1. tmp' = [tmp EXCEPT !.entry = [tmp.entry EXCEPT ![x] = l]]
          BY <2>6, <3>3
        <4>2. tmp'.entry = [tmp.entry EXCEPT ![x] = l]
          BY <4>1 DEF RestType
        <4>3. x \in Persistent /\ l > 0
          BY <2>1, <3>3, LifeFacts, StorageAssumption DEF CloserRange, Saveable, Lives, Never
        <4> HIDE DEF x, l
        <4>4. KV!Alive(l)
          BY <4>3 DEF KV!Alive
        <4>5. KV!Note(p)
          BY <2>3, <2>4, <2>5, <2>6, <2>7, <3>2, <4>2, <4>3, <4>4
             DEF KV!Note, Reading, Doomed, Deleting
        <4> QED BY <4>5 DEF Shown, KV!Next
      <3>4. CASE ~ (p = "closer" /\ l # 0)
        <4>1. tmp' = tmp
          BY <2>6, <3>4
        <4>2. KV!Answer(p)
          BY <2>3, <2>4, <2>6, <2>7, <3>2, <4>1 DEF KV!Answer, Reading, Doomed, Deleting
        <4> QED BY <4>2 DEF Shown, KV!Next
      <3> QED BY <3>3, <3>4
    <2> QED BY <2>8, <2>9
  <1>7. ASSUME NEW p \in Procs, RemoveExpired(p) PROVE Shown
    <2> DEFINE x == proc[p].item
    <2>1. /\ proc[p].pc = "remove" /\ x \in Items /\ proc[p].doomed = {}
          /\ Alone(p) /\ proc'[p].pc \notin {"check", "erase", "remove"} /\ proc'[p].doomed = {}
      BY <1>7, <1>d, RemoveMoves DEF Alone, Holds, Enters, Becomes
    <2>2. Reading' = Reading /\ Deleting' = Deleting
      BY <2>1, ReadingKept, DeletingKept
    <2>3. Dooms(p, x) /\ \A y \in Items : Dooms(p, y)' <=> y # x /\ Dooms(p, y)
      BY <2>1 DEF Dooms
    <2>4. Doomed' = Doomed \ {<<p, x>>}
      BY <2>1, <2>3, DoomedLess
    <2>5. Take(x) /\ up' = up /\ tmp' = tmp /\ file' = file
      BY <1>7 DEF RemoveExpired, diskVars
    <2> QED BY <2>1, <2>2, <2>3, <2>4, <2>5, ShowForget
  <1>8. ASSUME NEW p \in Procs, CountDown(p) PROVE Shown
    <2>0. p \in Procs
      BY ProcFacts
    <2>1. Quiet(p)
      BY <1>8, <1>d, <2>0, CountDownMoves
         DEF Quiet, Alone, CountDown, At, Holds, Enters, Becomes
    <2>2. Reading' = Reading /\ Doomed' = Doomed /\ Deleting' = Deleting
      BY <2>0, <2>1, QuietKeeps
    <2>3. store' = store /\ tmp'.entry = tmp.entry /\ file' = file /\ up' = up
      BY <1>8 DEF CountDown, diskVars
    <2> QED BY <2>2, <2>3, ShowStutter
  <1>9. ASSUME NEW p \in Procs, WriteNew(p) PROVE Shown
    <2>0. p \in Procs
      BY ProcFacts
    <2>1. Quiet(p)
      BY <1>9, <1>d, <2>0, WriteNewMoves
         DEF Quiet, Alone, WriteNew, At, Holds, Enters, Becomes
    <2>2. Reading' = Reading /\ Doomed' = Doomed /\ Deleting' = Deleting
      BY <2>0, <2>1, QuietKeeps
    <2>3. proc[p].item \in Items /\ proc[p].seen \in Lives
      BY <1>9, WriteNewMoves
    <2>4. Put(proc[p].item, proc[p].seen) /\ up /\ up' = up /\ tmp' = tmp /\ file' = file
      BY <1>9 DEF WriteNew, At, diskVars
    <2> QED BY <2>2, <2>3, <2>4, ShowPut
  <1>10. ASSUME NEW p \in Procs, WriteOver(p) PROVE Shown
    <2>0. p \in Procs
      BY ProcFacts
    <2>1. Quiet(p)
      BY <1>10, <1>d, <2>0, WriteOverMoves
         DEF Quiet, Alone, WriteOver, At, Holds, Enters, Becomes
    <2>2. Reading' = Reading /\ Doomed' = Doomed /\ Deleting' = Deleting
      BY <2>0, <2>1, QuietKeeps
    <2>3. proc[p].item \in Items /\ proc[p].seen \in Lives
      BY <1>10, WriteOverMoves
    <2>4. Put(proc[p].item, proc[p].seen) /\ up /\ up' = up /\ tmp' = tmp /\ file' = file
      BY <1>10 DEF WriteOver, At, diskVars
    <2> QED BY <2>2, <2>3, <2>4, ShowPut
  <1>11. ASSUME NEW p \in Procs, CountUp(p) PROVE Shown
    <2>0. p \in Procs
      BY ProcFacts
    <2>1. Quiet(p)
      BY <1>11, <1>d, <2>0, CountUpMoves
         DEF Quiet, Alone, CountUp, At, Holds, Enters, Becomes
    <2>2. Reading' = Reading /\ Doomed' = Doomed /\ Deleting' = Deleting
      BY <2>0, <2>1, QuietKeeps
    <2>3. store' = store /\ tmp'.entry = tmp.entry /\ file' = file /\ up' = up
      BY <1>11 DEF CountUp, diskVars
    <2> QED BY <2>2, <2>3, ShowStutter
  <1>12. ASSUME NEW p \in Procs, Erase(p) PROVE Shown
    <2>1. /\ proc[p].pc = "erase" /\ proc[p].item \in Items /\ proc[p].doomed = {}
          /\ Alone(p) /\ proc'[p].pc = "uncount" /\ proc'[p].doomed = {}
      BY <1>12, <1>d, EraseMoves DEF Alone, Holds, Becomes
    <2>2. Deleting' = [Deleting EXCEPT ![p] = NoItem]
      BY <2>1 DEF Deleting, Alone
    <2>3. Deleting[p] = proc[p].item /\ Deleting[p] # NoItem
      BY <2>1, ItemsAssumption DEF Deleting
    <2>4. Reading' = Reading
      BY <2>1, ReadingKept
    <2>5. \A y \in Items : Dooms(p, y)' <=> Dooms(p, y)
      BY <2>1 DEF Dooms
    <2>6. Doomed' = Doomed
      BY <2>1, <2>5, DoomedKept
    <2>7. Take(proc[p].item) /\ tmp' = tmp /\ file' = file /\ up' = up
      BY <1>12 DEF Erase, diskVars
    <2>8. KV!Delete(p)
      BY <2>2, <2>3, <2>4, <2>6, <2>7
         DEF KV!Delete, KV!None, None, Take, Reading, Doomed, Deleting
    <2> QED BY <2>8 DEF Shown, KV!Next
  <1>13. ASSUME NEW p \in Procs, Visit(p) PROVE Shown
    <2>0. proc[p].pc = "list" /\ proc[p].doomed = {}
      BY <1>13, <1>d DEF Visit, At
    <2>1. store' = store /\ tmp' = tmp /\ file' = file /\ up' = up
      BY <1>13 DEF Visit, diskVars
    <2>2. /\ Alone(p) /\ proc'[p].doomed = {}
          /\ \/ proc'[p].pc = "list"
             \/ \E x \in Items : /\ store[x] # None /\ proc'[p].pc = "check"
                                  /\ proc'[p].item = x /\ proc'[p].seen = store[x]
      BY <1>13, <2>0, VisitMoves DEF Alone, Becomes
    <2>3. CASE proc'[p].pc = "list"
      <3>1. Quiet(p)
        BY <2>0, <2>2, <2>3 DEF Quiet
      <3> QED BY <2>1, <3>1, QuietKeeps, ShowStutter
    <2>4. CASE proc'[p].pc # "list"
      BY <2>0, <2>1, <2>2, <2>4, ShowRead
    <2> QED BY <2>3, <2>4
  <1>14. ASSUME NEW p \in Procs, ListDone(p) PROVE Shown
    <2>1. Quiet(p)
      BY <1>14, <1>d, ListDoneMoves DEF Quiet, Alone, ListDone, At, Holds, Enters, Becomes
    <2>2. Reading' = Reading /\ Doomed' = Doomed /\ Deleting' = Deleting
      BY <2>1, QuietKeeps
    <2>3. store' = store /\ tmp'.entry = tmp.entry /\ file' = file /\ up' = up
      BY <1>14 DEF ListDone, RestType
    <2> QED BY <2>2, <2>3, ShowStutter
  <1>15. CASE Cleanup
    <2>0. "cleaner" \in Procs
      BY ProcFacts
    <2>1. Quiet("cleaner")
      BY <1>15, <1>d, <2>0, CleanupMoves
         DEF Quiet, Alone, Cleanup, At, Holds, Enters, Becomes
    <2>2. Reading' = Reading /\ Doomed' = Doomed /\ Deleting' = Deleting
      BY <2>0, <2>1, QuietKeeps
    <2>3. store' = store /\ tmp'.entry = tmp.entry /\ file' = file /\ up' = up
      BY <1>15 DEF Cleanup, diskVars
    <2> QED BY <2>2, <2>3, ShowStutter
  <1>16. CASE Collect
    <2> DEFINE c == proc["cleaner"]
    <2>0. "cleaner" \in Procs /\ c.pc = "collect" /\ c.item = NoItem /\ c.todo \subseteq Keys
      BY <1>16, ProcFacts DEF Collect, At, CollectorOnly, ProcType, ProcStates
    <2>1. PICK key \in c.todo :
             /\ Alone("cleaner") /\ c'.pc = "collect" /\ c'.item = NoItem
             /\ \/ c'.doomed = c.doomed
                \/ c'.doomed = c.doomed \cup {key} /\ store[<<"kv", key>>] = 0
      BY <1>16, <2>0, CollectMoves DEF Alone, Becomes
    <2>2. store' = store /\ tmp' = tmp /\ file' = file /\ up' = up
      BY <1>16 DEF Collect, diskVars
    <2>3. CASE c'.doomed = c.doomed
      <3>1. Quiet("cleaner")
        BY <2>0, <2>1, <2>3 DEF Quiet
      <3> QED BY <2>0, <2>2, <3>1, QuietKeeps, ShowStutter
    <2>4. CASE c'.doomed = c.doomed \cup {key} /\ store[<<"kv", key>>] = 0
      <3> DEFINE x == <<"kv", key>>
      <3>1. x \in Items /\ \A y \in Items : y[1] = "kv" => (y = x <=> y[2] = key)
        BY <2>0, ItemFacts, ProcFacts
      <3>2. \A y \in Items : y # NoItem /\ x[1] = "kv"
        BY ItemsAssumption
      <3>3. \A y \in Items : Dooms("cleaner", y)' <=> y = x \/ Dooms("cleaner", y)
        BY <2>0, <2>1, <2>4, <3>1, <3>2 DEF Dooms
      <3>4. Doomed' = Doomed \cup {<<"cleaner", x>>}
        BY <2>0, <2>1, <3>1, <3>3, DoomedMore
      <3>5. Reading' = Reading /\ Deleting' = Deleting
        BY <2>0, <2>1, ReadingKept, DeletingKept
      <3>6. store[x] = 0
        BY <2>4
      <3> HIDE DEF x
      <3>7. KV!Meet("cleaner", x)
        BY <2>2, <3>4, <3>5, <3>6 DEF KV!Meet, Reading, Doomed, Deleting
      <3> QED BY <2>0, <3>1, <3>7 DEF Shown, KV!Next
    <2> QED BY <2>1, <2>3, <2>4
  <1>17. CASE CollectDone
    <2>0. "cleaner" \in Procs
      BY ProcFacts
    <2>1. Quiet("cleaner")
      BY <1>17, <1>d, <2>0, RoleMoves
         DEF Quiet, Alone, CollectDone, At, Holds, Enters, Becomes
    <2>2. Reading' = Reading /\ Doomed' = Doomed /\ Deleting' = Deleting
      BY <2>0, <2>1, QuietKeeps
    <2>3. store' = store /\ tmp'.entry = tmp.entry /\ file' = file /\ up' = up
      BY <1>17 DEF CollectDone, diskVars
    <2> QED BY <2>2, <2>3, ShowStutter
  <1>18. CASE Purge
    <2> DEFINE c == proc["cleaner"]
    <2>0. "cleaner" \in Procs /\ c.pc = "purge" /\ c.item = NoItem
      BY <1>18, ProcFacts DEF Purge, At
    <2>1. PICK key \in c.doomed : /\ <<"kv", key>> \in Items /\ Take(<<"kv", key>>)
                                  /\ Holds("cleaner", "purge", <<"kv", key>>, None)
      BY <1>18, PurgeMoves
    <2> DEFINE x == <<"kv", key>>
    <2>2. /\ Alone("cleaner") /\ c'.pc = "purge" /\ c'.item = x /\ c'.doomed = c.doomed
      BY <2>1 DEF Alone, Holds, Becomes
    <2>3. Reading' = Reading /\ Deleting' = Deleting
      BY <2>0, <2>2, ReadingKept, DeletingKept
    <2>4. \A y \in Items : y # NoItem
      BY ItemsAssumption
    <2>5. Dooms("cleaner", x)
      BY <2>0, <2>1, <2>4 DEF Dooms
    <2>6. \A y \in Items : Dooms("cleaner", y)' <=> y # x /\ Dooms("cleaner", y)
      BY <2>0, <2>2, <2>4 DEF Dooms
    <2>7. Doomed' = Doomed \ {<<"cleaner", x>>}
      BY <2>0, <2>1, <2>2, <2>6, DoomedLess
    <2>8. up' = up /\ tmp' = tmp /\ file' = file
      BY <1>18 DEF Purge, diskVars
    <2> QED BY <2>0, <2>1, <2>3, <2>5, <2>7, <2>8, ShowForget
  <1>19. CASE PurgeCount
    <2> DEFINE c == proc["cleaner"]
               x == c.item
    <2>0. /\ "cleaner" \in Procs /\ c.pc = "purge" /\ x # NoItem
          /\ x \in Items /\ x[1] = "kv"
      BY <1>19, ProcFacts DEF PurgeCount, At, CollectorOnly, ProcType, ProcStates
    <2>1. /\ Alone("cleaner") /\ c'.pc = "purge" /\ c'.item = NoItem
          /\ c'.doomed = c.doomed \ {x[2]}
      BY <1>19, PurgeCountMoves DEF Alone, Becomes
    <2>2. Reading' = Reading /\ Deleting' = Deleting
      BY <2>0, <2>1, ReadingKept, DeletingKept
    <2>3. \A y \in Items : y # NoItem /\ (y[1] = "kv" => (y = x <=> y[2] = x[2]))
      BY <2>0, ItemsAssumption, ItemFacts
    <2>4. \A y \in Items : Dooms("cleaner", y)' <=> Dooms("cleaner", y)
      BY <2>0, <2>1, <2>3 DEF Dooms
    <2>5. Doomed' = Doomed
      BY <2>0, <2>1, <2>4, DoomedKept
    <2>6. store' = store /\ tmp' = tmp /\ file' = file /\ up' = up
      BY <1>19 DEF PurgeCount, diskVars
    <2> QED BY <2>2, <2>5, <2>6, ShowStutter
  <1>20. CASE PurgeDone
    <2>0. "cleaner" \in Procs
      BY ProcFacts
    <2>1. Quiet("cleaner")
      BY <1>20, <1>d, <2>0, RoleMoves
         DEF Quiet, Alone, PurgeDone, At, Holds, Enters, Becomes
    <2>2. Reading' = Reading /\ Doomed' = Doomed /\ Deleting' = Deleting
      BY <2>0, <2>1, QuietKeeps
    <2>3. store' = store /\ tmp'.entry = tmp.entry /\ file' = file /\ up' = up
      BY <1>20 DEF PurgeDone, diskVars
    <2> QED BY <2>2, <2>3, ShowStutter
  <1>21. CASE CleanerExit
    <2>0. "cleaner" \in Procs
      BY ProcFacts
    <2>1. Quiet("cleaner")
      BY <1>21, <1>d, <2>0, RoleMoves
         DEF Quiet, Alone, CleanerExit, At, Holds, Enters, Becomes
    <2>2. Reading' = Reading /\ Doomed' = Doomed /\ Deleting' = Deleting
      BY <2>0, <2>1, QuietKeeps
    <2>3. store' = store /\ tmp'.entry = tmp.entry /\ file' = file /\ up' = up
      BY <1>21 DEF CleanerExit, diskVars
    <2> QED BY <2>2, <2>3, ShowStutter
  <1>22. CASE Close
    <2>0. "closer" \in Procs
      BY ProcFacts
    <2>1. Quiet("closer")
      BY <1>22, <1>d, <2>0, RoleMoves
         DEF Quiet, Alone, Close, At, Holds, Enters, Becomes
    <2>2. Reading' = Reading /\ Doomed' = Doomed /\ Deleting' = Deleting
      BY <2>0, <2>1, QuietKeeps
    <2>3. store' = store /\ tmp'.entry = tmp.entry /\ file' = file /\ up' = up
      BY <1>22 DEF Close, diskVars
    <2> QED BY <2>2, <2>3, ShowStutter
  <1>23. CASE PersistBegin
    <2>0. "closer" \in Procs
      BY ProcFacts
    <2>1. Quiet("closer")
      BY <1>23, <1>d, <2>0, PersistMoves
         DEF Quiet, Alone, PersistBegin, At, Holds, Enters, Becomes
    <2>2. Reading' = Reading /\ Doomed' = Doomed /\ Deleting' = Deleting
      BY <2>0, <2>1, QuietKeeps
    <2>3. KV!Empty = Empty /\ Created.entry = Empty
      BY EmptyTyped DEF KV!Empty, Empty, KV!None, None
    <2>4. store' = store /\ tmp' = Created /\ file' = file /\ up' = up
      BY <1>23 DEF PersistBegin
    <2>5. KV!BeginSave
      BY <2>2, <2>3, <2>4 DEF KV!BeginSave, Reading, Doomed, Deleting
    <2> QED BY <2>5 DEF Shown, KV!Next
  <1>24. CASE PersistFails
    <2>0. "closer" \in Procs
      BY ProcFacts
    <2>1. Quiet("closer")
      BY <1>24, <1>d, <2>0, RoleMoves
         DEF Quiet, Alone, PersistFails, At, Holds, Enters, Becomes
    <2>2. Reading' = Reading /\ Doomed' = Doomed /\ Deleting' = Deleting
      BY <2>0, <2>1, QuietKeeps
    <2>3. store' = store /\ tmp'.entry = tmp.entry /\ file' = file /\ up' = up
      BY <1>24 DEF PersistFails, diskVars
    <2> QED BY <2>2, <2>3, ShowStutter
  <1>25. CASE PersistRename
    <2>0. "closer" \in Procs
      BY ProcFacts
    <2>1. Quiet("closer")
      BY <1>25, <1>d, <2>0, RoleMoves
         DEF Quiet, Alone, PersistRename, At, Holds, Enters, Becomes
    <2>2. Reading' = Reading /\ Doomed' = Doomed /\ Deleting' = Deleting
      BY <2>0, <2>1, QuietKeeps
    <2>3. KV!Empty = Empty /\ Created.entry = Empty
      BY EmptyTyped DEF KV!Empty, Empty, KV!None, None
    <2>4. store' = store /\ tmp' = Created /\ file' = tmp /\ up' = up
      BY <1>25 DEF PersistRename
    <2>5. KV!Save
      BY <2>2, <2>3, <2>4 DEF KV!Save, Reading, Doomed, Deleting
    <2> QED BY <2>5 DEF Shown, KV!Next
  <1>26. CASE Down
    <2>1. \A p \in Procs : proc'[p].pc = "idle" /\ proc'[p].doomed = {}
      BY <1>26, RoleMoves DEF Idle
    <2>2. Deleting' = [p \in Procs |-> NoItem] /\ Reading' = [p \in Procs |-> Nothing]
      BY <2>1 DEF Deleting, Reading, Nothing
    <2>3. Doomed' = {}
      <3>1. \A p \in Procs, x \in Items : ~ Dooms(p, x)'
        BY <2>1 DEF Dooms
      <3> QED BY <3>1, DoomedIsNext
    <2>4. /\ KV!Empty = Empty /\ Created.entry = Empty /\ KV!Nothing = Nothing
      BY EmptyTyped DEF KV!Empty, Empty, KV!None, None, KV!Nothing, Nothing
    <2>5. up /\ up' = FALSE /\ store' = Empty /\ tmp' = Created /\ file' = file
      BY <1>26 DEF Down
    <2>6. KV!Shut
      BY <2>2, <2>3, <2>4, <2>5 DEF KV!Shut, Reading, Doomed, Deleting
    <2> QED BY <2>6 DEF Shown, KV!Next
  <1>27. CASE NewMemoryStorage
    <2>1. /\ ~ up /\ up' = TRUE /\ proc' = proc /\ tmp' = tmp /\ file' = file
          /\ store' = loadFromFile
      BY <1>27 DEF NewMemoryStorage, diskVars
    <2>2. \A x \in Items : /\ file.entry[x] \in Int
                           /\ (file.entry[x] # None /\ file.entry[x] # 0) <=> file.entry[x] > 0
      BY EntryTypes, StorageAssumption DEF Lives, Never, None
    <2>3. store' = [x \in Items |-> IF file.entry[x] > 0 THEN file.entry[x] ELSE None]
      BY <2>1, <2>2 DEF loadFromFile, FileComplete, Expired
    <2>4. Reading' = Reading /\ Deleting' = Deleting
      BY <2>1 DEF Reading, Deleting
    <2>5. Doomed' = Doomed
      BY <2>1 DEF Doomed, Dooms
    <2>6. KV!Reopen
      BY <2>1, <2>3, <2>4, <2>5
         DEF KV!Reopen, KV!Alive, KV!None, None, Reading, Doomed, Deleting
    <2> QED BY <2>6 DEF Shown, KV!Next
  <1>28. CASE Tick
    <2>1. \A p \in Procs : /\ proc'[p].pc = proc[p].pc /\ proc'[p].item = proc[p].item
                           /\ proc'[p].seen = Aged(proc[p].seen)
                           /\ proc'[p].doomed = proc[p].doomed
      BY <1>28, TickMoves
    <2>2. Deleting' = Deleting
      BY <2>1 DEF Deleting
    <2>3. Doomed' = Doomed
      <3>1. \A p \in Procs, x \in Items : Dooms(p, x)' <=> Dooms(p, x)
        BY <2>1 DEF Dooms
      <3>2. \A p \in Procs, x \in Items : <<p, x>> \in Doomed' <=> <<p, x>> \in Doomed
        BY <3>1, DoomedIs, DoomedIsNext
      <3> QED BY <3>2, DoomedIs, DoomedIsNext
    <2>4. \A l : KV!Aged(l) = Aged(l)
      BY DEF KV!Aged, Aged
    <2>5. Aged(None) = None
      BY LifeFacts
    <2> HIDE DEF Aged
    <2>6. Reading' = [p \in Procs |-> [Reading[p] EXCEPT !.life = Aged(Reading[p].life)]]
      <3>1. ASSUME NEW p \in Procs
            PROVE  Reading'[p] = [Reading[p] EXCEPT !.life = Aged(Reading[p].life)]
        <4>1. CASE proc[p].pc = "check"
          <5>1. /\ Reading[p] = [item |-> proc[p].item, life |-> proc[p].seen]
                /\ Reading'[p] = [item |-> proc[p].item, life |-> Aged(proc[p].seen)]
            BY <2>1, <4>1 DEF Reading
          <5> QED BY <5>1
        <4>2. CASE proc[p].pc # "check"
          <5>1. /\ Reading[p] = [item |-> NoItem, life |-> None]
                /\ Reading'[p] = [item |-> NoItem, life |-> None]
            BY <2>1, <4>2 DEF Reading
          <5> QED BY <2>5, <5>1
        <4> QED BY <4>1, <4>2
      <3>2. Reading' = [p \in Procs |-> Reading'[p]]
        BY DEF Reading
      <3> HIDE DEF Reading
      <3> QED BY <3>1, <3>2
    <2>7. store' = [x \in Items |-> Aged(store[x])] /\ up' = up
      BY <1>28 DEF Tick
    <2>8. /\ tmp'.entry = [x \in Items |-> Aged(tmp.entry[x])]
          /\ file'.entry = [x \in Items |-> Aged(file.entry[x])]
      BY <1>28 DEF Tick, RestType
    <2>9. KV!Tick
      BY <2>2, <2>3, <2>4, <2>6, <2>7, <2>8 DEF KV!Tick, Reading, Doomed, Deleting
    <2> QED BY <2>9 DEF Shown, KV!Next
  <1>29. CASE UNCHANGED vars
    <2>1. store' = store /\ tmp' = tmp /\ file' = file /\ up' = up /\ proc' = proc
      BY <1>29 DEF vars
    <2>2. Reading' = Reading /\ Deleting' = Deleting /\ Doomed' = Doomed
      BY <2>1 DEF Reading, Deleting, Doomed, Dooms
    <2> QED BY <2>1, <2>2, ShowStutter
  <1>30. CASE CloseUnsaved
    <2>0. "closer" \in Procs
      BY ProcFacts
    <2>1. Quiet("closer")
      BY <1>30, <1>d, <2>0, RoleMoves
         DEF Quiet, Alone, CloseUnsaved, At, Holds, Enters, Becomes
    <2>2. Reading' = Reading /\ Doomed' = Doomed /\ Deleting' = Deleting
      BY <2>0, <2>1, QuietKeeps
    <2>3. store' = store /\ tmp'.entry = tmp.entry /\ file' = file /\ up' = up
      BY <1>30 DEF CloseUnsaved, diskVars
    <2> QED BY <2>2, <2>3, ShowStutter
  <1> QED
    BY StepCases, <1>1, <1>2, <1>3, <1>4, <1>5, <1>6, <1>7, <1>8, <1>9, <1>10, <1>11,
       <1>12, <1>13, <1>14, <1>15, <1>16, <1>17, <1>18, <1>19, <1>20, <1>21, <1>22, <1>23,
       <1>24, <1>25, <1>26, <1>27, <1>28, <1>29, <1>30
    DEF Continue

(* The initial states of the storage are initial states of KVStore.        *)
LEMMA ShownInit == Init => KV!Init
  <1> SUFFICES ASSUME Init PROVE KV!Init
    OBVIOUS
  <1>1. \A p \in Procs : proc[p].pc = "idle" /\ proc[p].doomed = {}
    BY DEF Init, Idle
  <1>2. Deleting = [p \in Procs |-> NoItem] /\ Reading = [p \in Procs |-> Nothing]
    BY <1>1 DEF Deleting, Reading, Nothing
  <1>3. Doomed = {}
    <2>1. \A p \in Procs, x \in Items : ~ Dooms(p, x)
      BY <1>1 DEF Dooms
    <2> QED BY <2>1, DoomedIs
  <1>4. KV!Empty = Empty /\ KV!Nothing = Nothing
    BY DEF KV!Empty, Empty, KV!None, None, KV!Nothing, Nothing
  <1>5. tmp.entry = Empty /\ file.entry = Empty /\ store = Empty /\ up = TRUE
    BY EmptyTyped DEF Init
  <1> QED BY <1>2, <1>3, <1>4, <1>5 DEF KV!Init, Reading, Doomed, Deleting

(* The storage implements the abstract store: Get, List and Cleanup take   *)
(* an entry away only after they met an expired one at its key, once for   *)
(* each that they met, each other operation takes effect in one step, the  *)
(* file holds entries that Close has read alive, and a restart finds what  *)
(* one complete save has left.                                             *)
THEOREM StorageIsKVStore == Spec => ImplementsKVStore
  <1>1. IInv /\ [Next]_vars => [KV!Next]_(KV!vars)
    BY ShownNext DEF Shown
  <1> QED BY <1>1, ShownInit, StorageInvariant, PTL DEF Spec, ImplementsKVStore, KV!Spec

-----------------------------------------------------------------------------
(* The counters.  An item that has not been used by two calls at once is   *)
(* in the hands of one goroutine at most, which then knows whether the     *)
(* item is there.                                                          *)

AloneAt(p, x) == \A q \in Procs \ {p} : ~ InCall(q, x)

Exclusive == \A x \in Items \ raced : \A p \in Procs : InCall(p, x) => AloneAt(p, x)

HandOK(p, x) ==
    /\ proc[p].item = x /\ proc[p].pc \in {"check", "remove", "erase", "writeOver", "count"}
          => store[x] # None
    /\ proc[p].item = x /\ proc[p].pc \in {"writeNew", "uncount", "purge"} => store[x] = None
    /\ x[1] = "kv" /\ x[2] \in proc[p].doomed /\ proc[p].item # x => store[x] # None

HandsOK == \A p \in Procs, x \in Items \ raced : HandOK(p, x)

(* An item in the count: one that is there and not still to be counted, or *)
(* that is gone and still to be discounted.                                *)
Adds(p, x) == proc[p].pc = "count" /\ proc[p].item = x
Subs(p, x) == proc[p].pc \in {"uncount", "purge"} /\ proc[p].item = x
InCount(x) ==
    \/ store[x] # None /\ \A p \in Procs : ~ Adds(p, x)
    \/ \E p \in Procs : Subs(p, x)
Counted(k) == {x \in ItemsOf(k) : InCount(x)}

CountsFollow ==
    \A k \in Kinds :
        (\A x \in ItemsOf(k) : x \notin raced)
            => IF k = "kv" THEN count[k] >= Cardinality(Counted(k))
               ELSE count[k] = Cardinality(Counted(k))

CInv == Exclusive /\ HandsOK /\ CountsFollow

(* A call that begins at an item alone, or marks it as raced.              *)
LEMMA BeginAlone ==
    ASSUME NEW p \in Procs, NEW x \in Items, Begin(p, x)
    PROVE  raced \subseteq raced' /\ (x \notin raced' => AloneAt(p, x))
  BY DEF Begin, AloneAt

(* A step of p, as far as it matters who else is at an item: p comes to an *)
(* item alone, and makes an entry come or go only where it is alone.       *)
ActsAlone(p) ==
    /\ \A q \in Procs \ {p} : proc'[q] = proc[q]
    /\ raced \subseteq raced'
    /\ \A x \in Items \ raced' :
          /\ InCall(p, x)' => AloneAt(p, x)
          /\ AloneAt(p, x) \/ (store'[x] = None <=> store[x] = None)
          /\ HandOK(p, x)'

(* p has x in hand after the step, and nothing else.                       *)
LEMMA TakesUp ==
    ASSUME NEW p \in Procs, NEW z \in Items, Begin(p, z),
           \A q \in Procs \ {p} : proc'[q] = proc[q],
           proc'[p].item = z, proc'[p].doomed = {}, HandOK(p, z)',
           \A y \in Items \ {z} : store'[y] = None <=> store[y] = None
    PROVE  ActsAlone(p)
  <1>1. raced \subseteq raced' /\ (z \notin raced' => AloneAt(p, z))
    BY BeginAlone
  <1> SUFFICES ASSUME NEW x \in Items \ raced'
               PROVE  /\ InCall(p, x)' => AloneAt(p, x)
                      /\ AloneAt(p, x) \/ (store'[x] = None <=> store[x] = None)
                      /\ HandOK(p, x)'
    BY <1>1 DEF ActsAlone
  <1>2. CASE x = z
    BY <1>1, <1>2
  <1>3. CASE x # z
    <2>1. ~ InCall(p, x)'
      BY <1>3 DEF InCall
    <2>2. HandOK(p, x)'
      BY <1>3 DEF HandOK
    <2> QED BY <1>3, <2>1, <2>2
  <1> QED BY <1>2, <1>3

(* p goes on with the item it has in hand.                                 *)
LEMMA GoesOn ==
    ASSUME Exclusive, NEW p \in Procs, NEW z \in Items, raced' = raced, proc[p].item = z,
           \A q \in Procs \ {p} : proc'[q] = proc[q],
           proc'[p].item \in {z, NoItem}, proc'[p].doomed = {},
           z \notin raced => HandOK(p, z)',
           \A y \in Items \ {z} : store'[y] = None <=> store[y] = None
    PROVE  ActsAlone(p)
  <1> SUFFICES ASSUME NEW x \in Items \ raced
               PROVE  /\ InCall(p, x)' => AloneAt(p, x)
                      /\ AloneAt(p, x) \/ (store'[x] = None <=> store[x] = None)
                      /\ HandOK(p, x)'
    BY DEF ActsAlone
  <1>1. CASE x = z
    <2>1. AloneAt(p, x)
      BY <1>1 DEF Exclusive, InCall
    <2> QED BY <1>1, <2>1
  <1>2. CASE x # z
    <2>1. x # NoItem
      BY ItemsAssumption
    <2>2. ~ InCall(p, x)'
      BY <1>2, <2>1 DEF InCall
    <2>3. HandOK(p, x)'
      BY <1>2, <2>1 DEF HandOK
    <2> QED BY <1>2, <2>2, <2>3
  <1> QED BY <1>1, <1>2

(* p has no item in hand before the step or after it.                      *)
LEMMA Idles ==
    ASSUME NEW p \in Procs, raced' = raced, \A q \in Procs \ {p} : proc'[q] = proc[q],
           proc'[p].pc \notin WithItem \cup {"purge"}, proc'[p].doomed = {},
           Exclusive, proc'[p].item \in {proc[p].item, NoItem}, store' = store
    PROVE  ActsAlone(p)
  <1> SUFFICES ASSUME NEW x \in Items \ raced
               PROVE  (InCall(p, x)' => AloneAt(p, x)) /\ HandOK(p, x)'
    BY DEF ActsAlone
  <1>1. HandOK(p, x)'
    BY DEF HandOK, WithItem
  <1>2. x # NoItem
    BY ItemsAssumption
  <1>3. InCall(p, x)' => InCall(p, x)
    BY <1>2 DEF InCall
  <1> QED BY <1>1, <1>3 DEF Exclusive

(* What follows for the items that no two calls have used at once.         *)
LEMMA AloneKept ==
    ASSUME ProcType, Exclusive, HandsOK, NEW p \in Procs, ActsAlone(p)
    PROVE  Exclusive' /\ HandsOK'
  <1>1. ASSUME NEW q \in Procs, q # p, NEW x \in Items
        PROVE  InCall(q, x)' <=> InCall(q, x)
    BY <1>1 DEF ActsAlone, InCall
  <1>2. ASSUME NEW x \in Items \ raced', NEW q \in Procs, InCall(q, x)'
        PROVE  AloneAt(q, x)'
    <2>0. x \notin raced
      BY DEF ActsAlone
    <2>1. CASE q = p
      <3>1. AloneAt(p, x)
        BY <1>2, <2>1 DEF ActsAlone
      <3> QED BY <1>1, <2>1, <3>1 DEF AloneAt
    <2>2. CASE q # p
      <3>1. InCall(q, x)
        BY <1>1, <1>2, <2>2
      <3>2. AloneAt(q, x) /\ ~ AloneAt(p, x)
        BY <2>0, <2>2, <3>1 DEF Exclusive, AloneAt
      <3>3. ~ InCall(p, x)'
        BY <3>2 DEF ActsAlone
      <3> QED BY <1>1, <3>2, <3>3 DEF AloneAt
    <2> QED BY <2>1, <2>2
  <1>3. ASSUME NEW q \in Procs, NEW x \in Items \ raced' PROVE HandOK(q, x)'
    <2>0. x \notin raced
      BY DEF ActsAlone
    <2>1. CASE q = p
      BY <2>1 DEF ActsAlone
    <2>2. CASE q # p
      <3>1. HandOK(q, x) /\ proc'[q] = proc[q]
        BY <2>0, <2>2 DEF HandsOK, ActsAlone
      <3>2. CASE InCall(q, x)
        <4>1. ~ AloneAt(p, x)
          BY <2>2, <3>2 DEF AloneAt
        <4>2. store'[x] = None <=> store[x] = None
          BY <4>1 DEF ActsAlone
        <4> QED BY <3>1, <4>2 DEF HandOK
      <3>3. CASE ~ InCall(q, x)
        BY <3>1, <3>3 DEF HandOK, InCall
      <3> QED BY <3>2, <3>3
    <2> QED BY <2>1, <2>2
  <1> QED BY <1>2, <1>3 DEF Exclusive, HandsOK

(* The steps as far as it matters who is at an item.                       *)
AloneStep == Down \/ NewMemoryStorage \/ Tick \/ UNCHANGED vars \/ \E p \in Procs : ActsAlone(p)


(* Every step of a goroutine respects the items that others are at, or    *)
(* marks them as raced.                                                    *)
LEMMA AloneCases ==
    ProcType /\ RestType /\ InHand /\ CollectorOnly /\ Exclusive /\ HandsOK /\ [Next]_vars
        => AloneStep
  <1> SUFFICES ASSUME ProcType, RestType, InHand, CollectorOnly, Exclusive, HandsOK, [Next]_vars
               PROVE  AloneStep
    OBVIOUS
  <1>1. ASSUME NEW p \in Clients, NEW k \in Kinds, GetFrom(p, k) PROVE AloneStep
    <2>1. PICK x \in ItemsOf(k) : /\ store[x] # None /\ Begin(p, x)
                                 /\ Holds(p, "check", x, store[x])
      BY <1>1, GetFromMoves
    <2>2. p \in Procs /\ x \in Items /\ proc[p].doomed = {} /\ store' = store
      BY <1>1, GetFromMoves, ProcFacts, ItemFacts DEF CollectorOnly, GetFrom
    <2>3. /\ \A q \in Procs \ {p} : proc'[q] = proc[q]
          /\ proc'[p].pc = "check" /\ proc'[p].item = x /\ proc'[p].doomed = {}
      BY <2>1, <2>2 DEF Holds, Becomes
    <2>4. HandOK(p, x)'
      BY <2>1, <2>2, <2>3 DEF HandOK
    <2> QED BY <2>1, <2>2, <2>3, <2>4, TakesUp DEF AloneStep
  <1>2. ASSUME NEW p \in Clients, NEW k \in Kinds, DeleteFrom(p, k) PROVE AloneStep
    <2>1. PICK x \in ItemsOf(k) : /\ store[x] # None /\ Begin(p, x)
                                 /\ Holds(p, "erase", x, None)
      BY <1>2, DeleteFromMoves
    <2>2. p \in Procs /\ x \in Items /\ proc[p].doomed = {} /\ store' = store
      BY <1>2, DeleteFromMoves, ProcFacts, ItemFacts DEF CollectorOnly, DeleteFrom
    <2>3. /\ \A q \in Procs \ {p} : proc'[q] = proc[q]
          /\ proc'[p].pc = "erase" /\ proc'[p].item = x /\ proc'[p].doomed = {}
      BY <2>1, <2>2 DEF Holds, Becomes
    <2>4. HandOK(p, x)'
      BY <2>1, <2>2, <2>3 DEF HandOK
    <2> QED BY <2>1, <2>2, <2>3, <2>4, TakesUp DEF AloneStep
  <1>3. ASSUME NEW p \in Clients, NEW k \in Kinds, ListOf(p, k) PROVE AloneStep
    <2>1. proc[p].doomed = {}
      BY <1>3, ProcFacts DEF CollectorOnly, ListOf, At
    <2>2. /\ \A q \in Procs \ {p} : proc'[q] = proc[q]
          /\ proc'[p].pc \notin WithItem \cup {"purge"}
          /\ proc'[p].item \in {proc[p].item, NoItem} /\ proc'[p].doomed = {}
      BY <1>3, <2>1, ListOfMoves, ProcFacts DEF WithItem, Holds, Enters, Becomes
    <2>3. store' = store /\ raced' = raced
      BY <1>3 DEF ListOf
    <2> QED BY <2>2, <2>3, Idles, ProcFacts DEF AloneStep
  <1>4. ASSUME NEW p \in Clients, NEW k \in Typed, StoreTo(p, k) PROVE AloneStep
    <2>1. PICK x \in ItemsOf(k), l \in 0..MaxLife :
             /\ Begin(p, x)
             /\ \/ store[x] = None /\ Holds(p, "writeNew", x, l)
                \/ store[x] # None /\ Holds(p, "writeOver", x, l)
      BY <1>4, StoreToMoves
    <2>2. p \in Procs /\ x \in Items /\ proc[p].doomed = {} /\ store' = store
      BY <1>4, StoreToMoves, ProcFacts, ItemFacts DEF CollectorOnly, StoreTo
    <2>3. /\ \A q \in Procs \ {p} : proc'[q] = proc[q]
          /\ \/ store[x] = None /\ proc'[p].pc = "writeNew"
             \/ store[x] # None /\ proc'[p].pc = "writeOver"
          /\ proc'[p].item = x /\ proc'[p].doomed = {}
      BY <2>1, <2>2 DEF Holds, Becomes
    <2>4. HandOK(p, x)'
      BY <2>2, <2>3 DEF HandOK
    <2> QED BY <2>1, <2>2, <2>3, <2>4, TakesUp DEF AloneStep
  <1>5. ASSUME NEW p \in Clients, Set(p) PROVE AloneStep
    <2>1. PICK x \in ItemsOf("kv"), l \in 1..Never :
             Put(x, l) /\ Begin(p, x) /\ Holds(p, "count", x, None)
      BY <1>5, SetMoves
    <2>2. p \in Procs /\ x \in Items /\ proc[p].doomed = {} /\ l # None
      BY <1>5, SetMoves, ProcFacts, ItemFacts, LifeFacts DEF CollectorOnly
    <2>3. /\ \A q \in Procs \ {p} : proc'[q] = proc[q]
          /\ proc'[p].pc = "count" /\ proc'[p].item = x /\ proc'[p].doomed = {}
      BY <2>1, <2>2 DEF Holds, Becomes
    <2>4. store'[x] = l /\ \A y \in Items \ {x} : store'[y] = store[y]
      BY <2>1, <2>2 DEF Put, RestType
    <2>5. HandOK(p, x)'
      BY <2>2, <2>3, <2>4 DEF HandOK
    <2> QED BY <2>1, <2>2, <2>3, <2>4, <2>5, TakesUp DEF AloneStep
  <1>6. ASSUME NEW p \in Procs, CheckExpired(p) PROVE AloneStep
    <2>0. PICK z \in Items : z = proc[p].item
      BY <1>6, CheckMoves
    <2>1. proc[p].doomed = {} /\ proc[p].pc = "check" /\ z # NoItem
      BY <1>6, CheckMoves, ItemsAssumption DEF CollectorOnly
    <2>2. /\ \A q \in Procs \ {p} : proc'[q] = proc[q]
          /\ proc'[p].item \in {z, NoItem} /\ proc'[p].doomed = {}
          /\ proc'[p].item = z => proc'[p].pc = "remove"
      BY <1>6, <2>0, <2>1, CheckMoves DEF Holds, Enters, Becomes
    <2>3. store' = store /\ raced' = raced
      BY <1>6 DEF CheckExpired
    <2>4. ASSUME z \notin raced PROVE HandOK(p, z)'
      <3>1. HandOK(p, z)
        BY <2>4 DEF HandsOK
      <3> QED BY <2>0, <2>1, <2>2, <2>3, <3>1 DEF HandOK
    <2> QED BY <2>0, <2>2, <2>3, <2>4, GoesOn DEF AloneStep
  <1>7. ASSUME NEW p \in Procs, RemoveExpired(p) PROVE AloneStep
    <2>0. PICK z \in Items : z = proc[p].item
      BY <1>7, RemoveMoves
    <2>1. proc[p].doomed = {} /\ proc[p].pc = "remove" /\ z # NoItem
      BY <1>7, RemoveMoves, ItemsAssumption DEF CollectorOnly
    <2>2. /\ \A q \in Procs \ {p} : proc'[q] = proc[q]
          /\ proc'[p].item \in {z, NoItem} /\ proc'[p].doomed = {}
          /\ proc'[p].item = z => proc'[p].pc = "uncount"
      BY <1>7, <2>0, <2>1, RemoveMoves DEF Holds, Enters, Becomes
    <2>3. raced' = raced /\ Take(z)
      BY <1>7, <2>0, RemoveMoves, LifeFacts DEF RemoveExpired
    <2>4. /\ store'[z] = None
          /\ \A y \in Items \ {z} : store'[y] = store[y]
      BY <2>3 DEF Take, RestType
    <2>5. ASSUME z \notin raced PROVE HandOK(p, z)'
      <3>1. HandOK(p, z)
        BY <2>5 DEF HandsOK
      <3> QED BY <2>0, <2>1, <2>2, <2>3, <2>4, <3>1 DEF HandOK
    <2> QED BY <2>0, <2>2, <2>3, <2>4, <2>5, GoesOn DEF AloneStep
  <1>8. ASSUME NEW p \in Procs, CountDown(p) PROVE AloneStep
    <2>0. PICK z \in Items : z = proc[p].item
      BY <1>8, CountDownMoves
    <2>1. proc[p].doomed = {} /\ proc[p].pc = "uncount" /\ z # NoItem
      BY <1>8, CountDownMoves, ItemsAssumption DEF CollectorOnly
    <2>2. /\ \A q \in Procs \ {p} : proc'[q] = proc[q]
          /\ proc'[p].item \in {z, NoItem} /\ proc'[p].doomed = {}
          /\ proc'[p].item = z => proc'[p].pc = "idle"
      BY <1>8, <2>0, <2>1, CountDownMoves DEF Holds, Enters, Becomes
    <2>3. store' = store /\ raced' = raced
      BY <1>8 DEF CountDown
    <2>4. ASSUME z \notin raced PROVE HandOK(p, z)'
      <3>1. HandOK(p, z)
        BY <2>4 DEF HandsOK
      <3> QED BY <2>0, <2>1, <2>2, <2>3, <3>1 DEF HandOK
    <2> QED BY <2>0, <2>2, <2>3, <2>4, GoesOn DEF AloneStep
  <1>9. ASSUME NEW p \in Procs, WriteNew(p) PROVE AloneStep
    <2>0. PICK z \in Items : z = proc[p].item
      BY <1>9, WriteNewMoves
    <2>1. proc[p].doomed = {} /\ proc[p].pc = "writeNew" /\ z # NoItem
      BY <1>9, WriteNewMoves, ItemsAssumption DEF CollectorOnly
    <2>2. /\ \A q \in Procs \ {p} : proc'[q] = proc[q]
          /\ proc'[p].item \in {z, NoItem} /\ proc'[p].doomed = {}
          /\ proc'[p].item = z => proc'[p].pc = "count"
      BY <1>9, <2>0, <2>1, WriteNewMoves DEF Holds, Enters, Becomes
    <2>3. raced' = raced /\ Put(z, proc[p].seen) /\ proc[p].seen # None
      BY <1>9, <2>0, WriteNewMoves, LifeFacts DEF WriteNew
    <2>4. /\ store'[z] # None
          /\ \A y \in Items \ {z} : store'[y] = store[y]
      BY <2>3 DEF Put, RestType
    <2>5. ASSUME z \notin raced PROVE HandOK(p, z)'
      <3>1. HandOK(p, z)
        BY <2>5 DEF HandsOK
      <3> QED BY <2>0, <2>1, <2>2, <2>3, <2>4, <3>1 DEF HandOK
    <2> QED BY <2>0, <2>2, <2>3, <2>4, <2>5, GoesOn DEF AloneStep
  <1>10. ASSUME NEW p \in Procs, WriteOver(p) PROVE AloneStep
    <2>0. PICK z \in Items : z = proc[p].item
      BY <1>10, WriteOverMoves
    <2>1. proc[p].doomed = {} /\ proc[p].pc = "writeOver" /\ z # NoItem
      BY <1>10, WriteOverMoves, ItemsAssumption DEF CollectorOnly
    <2>2. /\ \A q \in Procs \ {p} : proc'[q] = proc[q]
          /\ proc'[p].item \in {z, NoItem} /\ proc'[p].doomed = {}
          /\ proc'[p].item = z => proc'[p].pc = "idle"
      BY <1>10, <2>0, <2>1, WriteOverMoves DEF Holds, Enters, Becomes
    <2>3. raced' = raced /\ Put(z, proc[p].seen) /\ proc[p].seen # None
      BY <1>10, <2>0, WriteOverMoves, LifeFacts DEF WriteOver
    <2>4. /\ store'[z] # None
          /\ \A y \in Items \ {z} : store'[y] = store[y]
      BY <2>3 DEF Put, RestType
    <2>5. ASSUME z \notin raced PROVE HandOK(p, z)'
      <3>1. HandOK(p, z)
        BY <2>5 DEF HandsOK
      <3> QED BY <2>0, <2>1, <2>2, <2>3, <2>4, <3>1 DEF HandOK
    <2> QED BY <2>0, <2>2, <2>3, <2>4, <2>5, GoesOn DEF AloneStep
  <1>11. ASSUME NEW p \in Procs, CountUp(p) PROVE AloneStep
    <2>0. PICK z \in Items : z = proc[p].item
      BY <1>11, CountUpMoves
    <2>1. proc[p].doomed = {} /\ proc[p].pc = "count" /\ z # NoItem
      BY <1>11, CountUpMoves, ItemsAssumption DEF CollectorOnly
    <2>2. /\ \A q \in Procs \ {p} : proc'[q] = proc[q]
          /\ proc'[p].item \in {z, NoItem} /\ proc'[p].doomed = {}
          /\ proc'[p].item = z => proc'[p].pc = "idle"
      BY <1>11, <2>0, <2>1, CountUpMoves DEF Holds, Enters, Becomes
    <2>3. store' = store /\ raced' = raced
      BY <1>11 DEF CountUp
    <2>4. ASSUME z \notin raced PROVE HandOK(p, z)'
      <3>1. HandOK(p, z)
        BY <2>4 DEF HandsOK
      <3> QED BY <2>0, <2>1, <2>2, <2>3, <3>1 DEF HandOK
    <2> QED BY <2>0, <2>2, <2>3, <2>4, GoesOn DEF AloneStep
  <1>12. ASSUME NEW p \in Procs, Erase(p) PROVE AloneStep
    <2>0. PICK z \in Items : z = proc[p].item
      BY <1>12, EraseMoves
    <2>1. proc[p].doomed = {} /\ proc[p].pc = "erase" /\ z # NoItem
      BY <1>12, EraseMoves, ItemsAssumption DEF CollectorOnly
    <2>2. /\ \A q \in Procs \ {p} : proc'[q] = proc[q]
          /\ proc'[p].item \in {z, NoItem} /\ proc'[p].doomed = {}
          /\ proc'[p].item = z => proc'[p].pc = "uncount"
      BY <1>12, <2>0, <2>1, EraseMoves DEF Holds, Enters, Becomes
    <2>3. raced' = raced /\ Take(z)
      BY <1>12, <2>0, EraseMoves, LifeFacts DEF Erase
    <2>4. /\ store'[z] = None
          /\ \A y \in Items \ {z} : store'[y] = store[y]
      BY <2>3 DEF Take, RestType
    <2>5. ASSUME z \notin raced PROVE HandOK(p, z)'
      <3>1. HandOK(p, z)
        BY <2>5 DEF HandsOK
      <3> QED BY <2>0, <2>1, <2>2, <2>3, <2>4, <3>1 DEF HandOK
    <2> QED BY <2>0, <2>2, <2>3, <2>4, <2>5, GoesOn DEF AloneStep
  <1>13. ASSUME NEW p \in Procs, Visit(p) PROVE AloneStep
    <2>0. proc[p].pc = "list" /\ proc[p].doomed = {} /\ store' = store
      BY <1>13 DEF CollectorOnly, Visit, At
    <2>1. PICK key \in proc[p].todo, x \in Items :
             \/ /\ store[x] = None /\ raced' = raced
                /\ Becomes(p, "list", proc[p].item, proc[p].seen, proc[p].todo \ {key},
                           proc[p].doomed, proc[p].kind, proc[p].plan)
             \/ /\ store[x] # None /\ Begin(p, x)
                /\ Becomes(p, "check", x, store[x], proc[p].todo \ {key},
                           proc[p].doomed, proc[p].kind, proc[p].plan)
      BY <1>13, VisitMoves
    <2>2. CASE /\ store[x] = None /\ raced' = raced
               /\ Becomes(p, "list", proc[p].item, proc[p].seen, proc[p].todo \ {key},
                          proc[p].doomed, proc[p].kind, proc[p].plan)
      <3>1. /\ \A q \in Procs \ {p} : proc'[q] = proc[q]
            /\ proc'[p].pc \notin WithItem \cup {"purge"}
            /\ proc'[p].item = proc[p].item /\ proc'[p].doomed = {}
        BY <2>0, <2>2 DEF WithItem, Becomes
      <3> QED BY <2>0, <2>2, <3>1, Idles DEF AloneStep
    <2>3. CASE /\ store[x] # None /\ Begin(p, x)
               /\ Becomes(p, "check", x, store[x], proc[p].todo \ {key},
                          proc[p].doomed, proc[p].kind, proc[p].plan)
      <3>1. /\ \A q \in Procs \ {p} : proc'[q] = proc[q]
            /\ proc'[p].pc = "check" /\ proc'[p].item = x /\ proc'[p].doomed = {}
        BY <2>0, <2>3 DEF Becomes
      <3>2. HandOK(p, x)'
        BY <2>0, <2>3, <3>1 DEF HandOK
      <3> QED BY <2>0, <2>3, <3>1, <3>2, TakesUp DEF AloneStep
    <2> QED BY <2>1, <2>2, <2>3
  <1>14. ASSUME NEW p \in Procs, ListDone(p) PROVE AloneStep
    <2>1. proc[p].doomed = {}
      BY <1>14, ProcFacts DEF CollectorOnly, ListDone, At
    <2>2. /\ \A q \in Procs \ {p} : proc'[q] = proc[q]
          /\ proc'[p].pc \notin WithItem \cup {"purge"}
          /\ proc'[p].item \in {proc[p].item, NoItem} /\ proc'[p].doomed = {}
      BY <1>14, <2>1, ListDoneMoves, ProcFacts DEF WithItem, Holds, Enters, Becomes
    <2>3. store' = store /\ raced' = raced
      BY <1>14 DEF ListDone
    <2> QED BY <2>2, <2>3, Idles, ProcFacts DEF AloneStep
  <1>15. CASE Cleanup
    <2>1. proc["cleaner"].doomed = {}
      BY <1>15, ProcFacts DEF CollectorOnly, Cleanup, At
    <2>2. /\ \A q \in Procs \ {"cleaner"} : proc'[q] = proc[q]
          /\ proc'["cleaner"].pc \notin WithItem \cup {"purge"}
          /\ proc'["cleaner"].item \in {proc["cleaner"].item, NoItem} /\ proc'["cleaner"].doomed = {}
      BY <1>15, <2>1, CleanupMoves, ProcFacts DEF WithItem, Holds, Enters, Becomes
    <2>3. store' = store /\ raced' = raced
      BY <1>15 DEF Cleanup
    <2> QED BY <2>2, <2>3, Idles, ProcFacts DEF AloneStep
  <1>16. CASE Collect
    <2>0. /\ proc["cleaner"].pc = "collect" /\ proc["cleaner"].item = NoItem
          /\ store' = store
      BY <1>16, ProcFacts DEF CollectorOnly, Collect, At
    <2>1. PICK key \in proc["cleaner"].todo, d \in SUBSET Keys :
             /\ \/ d = proc["cleaner"].doomed /\ raced' = raced
                \/ /\ d = proc["cleaner"].doomed \cup {key}
                   /\ store[<<"kv", key>>] = 0 /\ Begin("cleaner", <<"kv", key>>)
             /\ Becomes("cleaner", "collect", proc["cleaner"].item, proc["cleaner"].seen,
                        proc["cleaner"].todo \ {key}, d, proc["cleaner"].kind,
                        proc["cleaner"].plan)
      BY <1>16, CollectMoves
    <2>k. <<"kv", key>> \in Items
      BY ProcFacts, ItemFacts DEF ProcType, ProcStates
    <2>2. /\ \A q \in Procs \ {"cleaner"} : proc'[q] = proc[q]
          /\ proc'["cleaner"].pc = "collect" /\ proc'["cleaner"].item = NoItem
          /\ proc'["cleaner"].doomed = d /\ raced \subseteq raced'
          /\ \/ d = proc["cleaner"].doomed
             \/ /\ d = proc["cleaner"].doomed \cup {key} /\ store[<<"kv", key>>] = 0
                /\ <<"kv", key>> \notin raced' => AloneAt("cleaner", <<"kv", key>>)
      BY <2>0, <2>1, <2>k, BeginAlone, ProcFacts DEF Becomes
    <2> SUFFICES ASSUME NEW x \in Items \ raced'
                 PROVE  /\ InCall("cleaner", x)' => AloneAt("cleaner", x)
                        /\ AloneAt("cleaner", x) \/ (store'[x] = None <=> store[x] = None)
                        /\ HandOK("cleaner", x)'
      BY <2>2, ProcFacts DEF ActsAlone, AloneStep
    <2>3. /\ x # NoItem /\ x \notin raced /\ HandOK("cleaner", x)
          /\ InCall("cleaner", x) => AloneAt("cleaner", x)
      BY <2>2, ProcFacts, ItemsAssumption DEF HandsOK, Exclusive
    <2>4. CASE x[1] = "kv" /\ x[2] \in d /\ x[2] \notin proc["cleaner"].doomed
      <3>1. x = <<"kv", key>> /\ store[x] # None /\ AloneAt("cleaner", x)
        BY <2>2, <2>4, ItemFacts DEF None
      <3> QED BY <2>0, <2>2, <2>3, <3>1 DEF HandOK
    <2>5. CASE ~ (x[1] = "kv" /\ x[2] \in d /\ x[2] \notin proc["cleaner"].doomed)
      <3>1. InCall("cleaner", x)' => InCall("cleaner", x)
        BY <2>2, <2>3, <2>5 DEF InCall
      <3>2. HandOK("cleaner", x)'
        BY <2>0, <2>2, <2>3, <2>5 DEF HandOK
      <3> QED BY <2>0, <2>3, <3>1, <3>2
    <2> QED BY <2>4, <2>5
  <1>17. CASE CollectDone
    <2>0. /\ proc["cleaner"].pc = "collect" /\ proc["cleaner"].item = NoItem
          /\ store' = store /\ raced' = raced
      BY <1>17, ProcFacts DEF CollectorOnly, CollectDone, At
    <2>2. /\ \A q \in Procs \ {"cleaner"} : proc'[q] = proc[q]
          /\ proc'["cleaner"].pc = "purge" /\ proc'["cleaner"].item = NoItem
          /\ proc'["cleaner"].doomed = proc["cleaner"].doomed /\ raced \subseteq raced'
      BY <1>17, <2>0, RoleMoves DEF Holds, Becomes
    <2> SUFFICES ASSUME NEW x \in Items \ raced'
                 PROVE  /\ InCall("cleaner", x)' => AloneAt("cleaner", x)
                        /\ AloneAt("cleaner", x) \/ (store'[x] = None <=> store[x] = None)
                        /\ HandOK("cleaner", x)'
      BY <2>2, ProcFacts DEF ActsAlone, AloneStep
    <2>3. /\ x # NoItem /\ x \notin raced /\ HandOK("cleaner", x)
          /\ InCall("cleaner", x) => AloneAt("cleaner", x)
      BY <2>2, ProcFacts, ItemsAssumption DEF HandsOK, Exclusive
    <2>4. InCall("cleaner", x)' => InCall("cleaner", x)
      BY <2>2, <2>3 DEF InCall
    <2>5. HandOK("cleaner", x)'
      BY <2>0, <2>2, <2>3 DEF HandOK
    <2> QED BY <2>0, <2>3, <2>4, <2>5
  <1>18. CASE Purge
    <2>0. proc["cleaner"].item = NoItem /\ raced' = raced
      BY <1>18 DEF Purge
    <2>1. PICK key \in proc["cleaner"].doomed :
             /\ <<"kv", key>> \in Items /\ Take(<<"kv", key>>)
             /\ Holds("cleaner", "purge", <<"kv", key>>, None)
      BY <1>18, PurgeMoves
    <2>2. /\ \A q \in Procs \ {"cleaner"} : proc'[q] = proc[q]
          /\ proc'["cleaner"].pc = "purge" /\ proc'["cleaner"].item = <<"kv", key>>
          /\ proc'["cleaner"].doomed = proc["cleaner"].doomed /\ raced \subseteq raced'
          /\ store'[<<"kv", key>>] = None
          /\ \A y \in Items \ {<<"kv", key>>} : store'[y] = store[y]
      BY <2>0, <2>1 DEF Holds, Becomes, Take, RestType
    <2> SUFFICES ASSUME NEW x \in Items \ raced'
                 PROVE  /\ InCall("cleaner", x)' => AloneAt("cleaner", x)
                        /\ AloneAt("cleaner", x) \/ (store'[x] = None <=> store[x] = None)
                        /\ HandOK("cleaner", x)'
      BY <2>2, ProcFacts DEF ActsAlone, AloneStep
    <2>3. /\ x # NoItem /\ x \notin raced /\ HandOK("cleaner", x)
          /\ InCall("cleaner", x) => AloneAt("cleaner", x)
      BY <2>2, ProcFacts, ItemsAssumption DEF HandsOK, Exclusive
    <2>4. InCall("cleaner", x)' => InCall("cleaner", x)
      BY <2>2, <2>3 DEF InCall
    <2>5. CASE x = <<"kv", key>>
      <3>1. InCall("cleaner", x)
        BY <2>5 DEF InCall
      <3>2. HandOK("cleaner", x)'
        BY <2>2, <2>5 DEF HandOK
      <3> QED BY <2>3, <3>1, <3>2
    <2>6. CASE x # <<"kv", key>>
      <3>1. HandOK("cleaner", x)'
        BY <2>0, <2>2, <2>3, <2>6 DEF HandOK
      <3> QED BY <2>2, <2>3, <2>4, <2>6, <3>1
    <2> QED BY <2>5, <2>6
  <1>19. CASE PurgeCount
    <2>0. proc["cleaner"].pc = "purge" /\ store' = store /\ raced' = raced
      BY <1>19 DEF PurgeCount, At
    <2>2. /\ \A q \in Procs \ {"cleaner"} : proc'[q] = proc[q]
          /\ proc'["cleaner"].pc = "purge" /\ proc'["cleaner"].item = NoItem
          /\ proc'["cleaner"].doomed = proc["cleaner"].doomed \ {proc["cleaner"].item[2]}
          /\ raced \subseteq raced'
      BY <1>19, <2>0, PurgeCountMoves DEF Becomes
    <2> SUFFICES ASSUME NEW x \in Items \ raced'
                 PROVE  /\ InCall("cleaner", x)' => AloneAt("cleaner", x)
                        /\ AloneAt("cleaner", x) \/ (store'[x] = None <=> store[x] = None)
                        /\ HandOK("cleaner", x)'
      BY <2>2, ProcFacts DEF ActsAlone, AloneStep
    <2>3. /\ x # NoItem /\ x \notin raced /\ HandOK("cleaner", x)
          /\ InCall("cleaner", x) => AloneAt("cleaner", x)
      BY <2>2, ProcFacts, ItemsAssumption DEF HandsOK, Exclusive
    <2>4. InCall("cleaner", x)' => InCall("cleaner", x)
      BY <2>2, <2>3 DEF InCall
    <2>5. HandOK("cleaner", x)'
      BY <2>0, <2>2, <2>3 DEF HandOK
    <2> QED BY <2>0, <2>3, <2>4, <2>5
  <1>20. CASE PurgeDone
    <2>1. proc["cleaner"].doomed = {}
      BY <1>20, ProcFacts DEF CollectorOnly, PurgeDone, At
    <2>2. /\ \A q \in Procs \ {"cleaner"} : proc'[q] = proc[q]
          /\ proc'["cleaner"].pc \notin WithItem \cup {"purge"}
          /\ proc'["cleaner"].item \in {proc["cleaner"].item, NoItem} /\ proc'["cleaner"].doomed = {}
      BY <1>20, <2>1, RoleMoves, ProcFacts DEF WithItem, Holds, Enters, Becomes
    <2>3. store' = store /\ raced' = raced
      BY <1>20 DEF PurgeDone
    <2> QED BY <2>2, <2>3, Idles, ProcFacts DEF AloneStep
  <1>21. CASE CleanerExit
    <2>1. proc["cleaner"].doomed = {}
      BY <1>21, ProcFacts DEF CollectorOnly, CleanerExit, At
    <2>2. /\ \A q \in Procs \ {"cleaner"} : proc'[q] = proc[q]
          /\ proc'["cleaner"].pc \notin WithItem \cup {"purge"}
          /\ proc'["cleaner"].item \in {proc["cleaner"].item, NoItem} /\ proc'["cleaner"].doomed = {}
      BY <1>21, <2>1, RoleMoves, ProcFacts DEF WithItem, Holds, Enters, Becomes
    <2>3. store' = store /\ raced' = raced
      BY <1>21 DEF CleanerExit
    <2> QED BY <2>2, <2>3, Idles, ProcFacts DEF AloneStep
  <1>22. CASE Close
    <2>1. proc["closer"].doomed = {}
      BY <1>22, ProcFacts DEF CollectorOnly, Close, At
    <2>2. /\ \A q \in Procs \ {"closer"} : proc'[q] = proc[q]
          /\ proc'["closer"].pc \notin WithItem \cup {"purge"}
          /\ proc'["closer"].item \in {proc["closer"].item, NoItem} /\ proc'["closer"].doomed = {}
      BY <1>22, <2>1, RoleMoves, ProcFacts DEF WithItem, Holds, Enters, Becomes
    <2>3. store' = store /\ raced' = raced
      BY <1>22 DEF Close
    <2> QED BY <2>2, <2>3, Idles, ProcFacts DEF AloneStep
  <1>23. CASE PersistBegin
    <2>1. proc["closer"].doomed = {}
      BY <1>23, ProcFacts DEF CollectorOnly, PersistBegin, At
    <2>2. /\ \A q \in Procs \ {"closer"} : proc'[q] = proc[q]
          /\ proc'["closer"].pc \notin WithItem \cup {"purge"}
          /\ proc'["closer"].item \in {proc["closer"].item, NoItem} /\ proc'["closer"].doomed = {}
      BY <1>23, <2>1, PersistMoves, ProcFacts DEF WithItem, Holds, Enters, Becomes
    <2>3. store' = store /\ raced' = raced
      BY <1>23 DEF PersistBegin
    <2> QED BY <2>2, <2>3, Idles, ProcFacts DEF AloneStep
  <1>24. CASE PersistFails
    <2>1. proc["closer"].doomed = {}
      BY <1>24, ProcFacts DEF CollectorOnly, PersistFails, At
    <2>2. /\ \A q \in Procs \ {"closer"} : proc'[q] = proc[q]
          /\ proc'["closer"].pc \notin WithItem \cup {"purge"}
          /\ proc'["closer"].item \in {proc["closer"].item, NoItem} /\ proc'["closer"].doomed = {}
      BY <1>24, <2>1, RoleMoves, ProcFacts DEF WithItem, Holds, Enters, Becomes
    <2>3. store' = store /\ raced' = raced
      BY <1>24 DEF PersistFails
    <2> QED BY <2>2, <2>3, Idles, ProcFacts DEF AloneStep
  <1>25. CASE PersistRename
    <2>1. proc["closer"].doomed = {}
      BY <1>25, ProcFacts DEF CollectorOnly, PersistRename, At
    <2>2. /\ \A q \in Procs \ {"closer"} : proc'[q] = proc[q]
          /\ proc'["closer"].pc \notin WithItem \cup {"purge"}
          /\ proc'["closer"].item \in {proc["closer"].item, NoItem} /\ proc'["closer"].doomed = {}
      BY <1>25, <2>1, RoleMoves, ProcFacts DEF WithItem, Holds, Enters, Becomes
    <2>3. store' = store /\ raced' = raced
      BY <1>25 DEF PersistRename
    <2> QED BY <2>2, <2>3, Idles, ProcFacts DEF AloneStep
  <1>26. CASE Down
    BY <1>26 DEF AloneStep
  <1>27. CASE NewMemoryStorage
    BY <1>27 DEF AloneStep
  <1>28. CASE Tick
    BY <1>28 DEF AloneStep
  <1>29. CASE UNCHANGED vars
    BY <1>29 DEF AloneStep
  <1>30. CASE CloseUnsaved
    <2>1. proc["closer"].doomed = {}
      BY <1>30, ProcFacts DEF CollectorOnly, CloseUnsaved, At
    <2>2. /\ \A q \in Procs \ {"closer"} : proc'[q] = proc[q]
          /\ proc'["closer"].pc \notin WithItem \cup {"purge"}
          /\ proc'["closer"].item \in {proc["closer"].item, NoItem} /\ proc'["closer"].doomed = {}
      BY <1>30, <2>1, RoleMoves, ProcFacts DEF WithItem, Holds, Enters, Becomes
    <2>3. store' = store /\ raced' = raced
      BY <1>30 DEF CloseUnsaved
    <2> QED BY <2>2, <2>3, Idles, ProcFacts DEF AloneStep
  <1> QED
    BY StepCases, <1>1, <1>2, <1>3, <1>4, <1>5, <1>6, <1>7, <1>8, <1>9, <1>10, <1>11,
       <1>12, <1>13, <1>14, <1>15, <1>16, <1>17, <1>18, <1>19, <1>20, <1>21, <1>22, <1>23,
       <1>24, <1>25, <1>26, <1>27, <1>28, <1>29, <1>30
    DEF Continue

(* What a step does to the count of an item and to the counters: nothing,  *)
(* it counts or discounts one, or one of the key-value store drops out of  *)
(* the count, which TotalItems does not notice.                            *)
SameCount(y) == y \notin raced' => (InCount(y)' <=> InCount(y))

CountedAt(x) ==
    \/ (InCount(x)' <=> InCount(x)) /\ count'[x[1]] = count[x[1]]
    \/ ~ InCount(x) /\ InCount(x)' /\ count'[x[1]] = count[x[1]] + 1
    \/ InCount(x) /\ ~ InCount(x)' /\ count'[x[1]] = count[x[1]] - 1
    \/ x[1] = "kv" /\ ~ InCount(x)' /\ count'[x[1]] = count[x[1]]

CountStep ==
    \/ Down \/ NewMemoryStorage
    \/ raced \subseteq raced' /\ count' = count /\ \A y \in Items : SameCount(y)
    \/ /\ raced \subseteq raced'
       /\ \E x \in Items : /\ \A y \in Items \ {x} : SameCount(y)
                           /\ \A k \in Kinds \ {x[1]} : count'[k] = count[k]
                           /\ x \notin raced' => CountedAt(x)

Mark(p, x) == (store[x] # None /\ ~ Adds(p, x)) \/ Subs(p, x)

(* An item that p is at alone is in the count if p's part of it says so.   *)
LEMMA CountAlone ==
    ASSUME NEW p \in Procs, \A q \in Procs \ {p} : proc'[q] = proc[q],
           NEW z \in Items, AloneAt(p, z)
    PROVE  (InCount(z) <=> Mark(p, z)) /\ (InCount(z)' <=> Mark(p, z)')
  <1>1. \A q \in Procs \ {p} : ~ Adds(q, z) /\ ~ Subs(q, z) /\ ~ Adds(q, z)' /\ ~ Subs(q, z)'
    BY DEF AloneAt, InCall, Adds, Subs
  <1>2. InCount(z) <=> Mark(p, z)
    BY <1>1 DEF InCount, Mark
  <1>3. InCount(z)' <=> Mark(p, z)'
    BY <1>1 DEF InCount, Mark
  <1> QED BY <1>2, <1>3

(* What p does elsewhere does not matter for an item.                      *)
LEMMA CountFrame ==
    ASSUME NEW p \in Procs, \A q \in Procs \ {p} : proc'[q] = proc[q],
           NEW y \in Items, store'[y] = None <=> store[y] = None,
           Adds(p, y)' <=> Adds(p, y), Subs(p, y)' <=> Subs(p, y)
    PROVE  InCount(y)' <=> InCount(y)
  <1>1. \A q \in Procs : (Adds(q, y)' <=> Adds(q, y)) /\ (Subs(q, y)' <=> Subs(q, y))
    BY DEF Adds, Subs
  <1> QED BY <1>1 DEF InCount

(* Steps that are no part of counting.                                     *)
LEMMA CountQuiet ==
    ASSUME NEW p \in Procs, \A q \in Procs \ {p} : proc'[q] = proc[q],
           store' = store, count' = count, raced \subseteq raced',
           proc[p].pc \notin {"count", "uncount"},
           proc[p].pc = "purge" => proc[p].item = NoItem,
           proc'[p].pc \notin {"count", "uncount"},
           proc'[p].pc = "purge" => proc'[p].item = NoItem
    PROVE  CountStep
  <1>1. \A y \in Items : ~ Adds(p, y) /\ ~ Subs(p, y) /\ ~ Adds(p, y)' /\ ~ Subs(p, y)'
    BY ItemsAssumption DEF Adds, Subs
  <1>2. \A y \in Items : SameCount(y)
    BY <1>1, CountFrame DEF SameCount
  <1> QED BY <1>2 DEF CountStep

(* Steps of p at one item.                                                 *)
LEMMA CountAt ==
    ASSUME Exclusive, NEW p \in Procs, \A q \in Procs \ {p} : proc'[q] = proc[q],
           NEW z \in Items, raced \subseteq raced', z \notin raced' => AloneAt(p, z),
           \A y \in Items \ {z} : store'[y] = store[y],
           proc[p].item \in {z, NoItem} \/ proc[p].pc \notin {"count", "uncount", "purge"},
           proc'[p].item \in {z, NoItem},
           \A k \in Kinds \ {z[1]} : count'[k] = count[k],
           z \notin raced' =>
               \/ (Mark(p, z)' <=> Mark(p, z)) /\ count'[z[1]] = count[z[1]]
               \/ ~ Mark(p, z) /\ Mark(p, z)' /\ count'[z[1]] = count[z[1]] + 1
               \/ Mark(p, z) /\ ~ Mark(p, z)' /\ count'[z[1]] = count[z[1]] - 1
               \/ z[1] = "kv" /\ ~ Mark(p, z)' /\ count'[z[1]] = count[z[1]]
    PROVE  CountStep
  <1>1. ASSUME NEW y \in Items \ {z} PROVE SameCount(y)
    <2>1. ~ Adds(p, y) /\ ~ Subs(p, y) /\ ~ Adds(p, y)' /\ ~ Subs(p, y)'
      BY ItemsAssumption DEF Adds, Subs
    <2> QED BY <2>1, CountFrame DEF SameCount
  <1>2. z \notin raced' => CountedAt(z)
    <2> HIDE DEF Mark
    <2> QED BY CountAlone DEF CountedAt
  <1> QED BY <1>1, <1>2 DEF CountStep


(* Every step changes the counts in one of these ways.                     *)
LEMMA CountCases ==
    ProcType /\ RestType /\ InHand /\ CollectorOnly /\ Exclusive /\ HandsOK /\ [Next]_vars
        => CountStep
  <1> SUFFICES ASSUME ProcType, RestType, InHand, CollectorOnly, Exclusive, HandsOK, [Next]_vars
               PROVE  CountStep
    OBVIOUS
  <1>1. ASSUME NEW p \in Clients, NEW k \in Kinds, GetFrom(p, k) PROVE CountStep
    <2>1. /\ \A q \in Procs \ {p} : proc'[q] = proc[q]
          /\ proc'[p].pc \notin {"count", "uncount"}
          /\ proc'[p].pc = "purge" => proc'[p].item = NoItem
      BY <1>1, GetFromMoves, ProcFacts DEF Holds, Enters, Becomes
    <2>2. /\ store' = store /\ count' = count
          /\ proc[p].pc \notin {"count", "uncount"}
          /\ proc[p].pc = "purge" => proc[p].item = NoItem
      BY <1>1 DEF GetFrom, At, Calls
    <2>3. raced \subseteq raced'
      BY <1>1 DEF GetFrom, Begin
    <2> QED BY <2>1, <2>2, <2>3, CountQuiet, ProcFacts
  <1>2. ASSUME NEW p \in Clients, NEW k \in Kinds, DeleteFrom(p, k) PROVE CountStep
    <2>1. /\ \A q \in Procs \ {p} : proc'[q] = proc[q]
          /\ proc'[p].pc \notin {"count", "uncount"}
          /\ proc'[p].pc = "purge" => proc'[p].item = NoItem
      BY <1>2, DeleteFromMoves, ProcFacts DEF Holds, Enters, Becomes
    <2>2. /\ store' = store /\ count' = count
          /\ proc[p].pc \notin {"count", "uncount"}
          /\ proc[p].pc = "purge" => proc[p].item = NoItem
      BY <1>2 DEF DeleteFrom, At, Calls
    <2>3. raced \subseteq raced'
      BY <1>2 DEF DeleteFrom, Begin
    <2> QED BY <2>1, <2>2, <2>3, CountQuiet, ProcFacts
  <1>3. ASSUME NEW p \in Clients, NEW k \in Kinds, ListOf(p, k) PROVE CountStep
    <2>1. /\ \A q \in Procs \ {p} : proc'[q] = proc[q]
          /\ proc'[p].pc \notin {"count", "uncount"}
          /\ proc'[p].pc = "purge" => proc'[p].item = NoItem
      BY <1>3, ListOfMoves, ProcFacts DEF Holds, Enters, Becomes
    <2>2. /\ store' = store /\ count' = count
          /\ proc[p].pc \notin {"count", "uncount"}
          /\ proc[p].pc = "purge" => proc[p].item = NoItem
      BY <1>3 DEF ListOf, At
    <2>3. raced \subseteq raced'
      BY <1>3 DEF ListOf
    <2> QED BY <2>1, <2>2, <2>3, CountQuiet, ProcFacts
  <1>4. ASSUME NEW p \in Clients, NEW k \in Typed, StoreTo(p, k) PROVE CountStep
    <2>1. /\ \A q \in Procs \ {p} : proc'[q] = proc[q]
          /\ proc'[p].pc \notin {"count", "uncount"}
          /\ proc'[p].pc = "purge" => proc'[p].item = NoItem
      BY <1>4, StoreToMoves, ProcFacts DEF Holds, Enters, Becomes
    <2>2. /\ store' = store /\ count' = count
          /\ proc[p].pc \notin {"count", "uncount"}
          /\ proc[p].pc = "purge" => proc[p].item = NoItem
      BY <1>4 DEF StoreTo, At, Calls
    <2>3. raced \subseteq raced'
      BY <1>4 DEF StoreTo, Begin
    <2> QED BY <2>1, <2>2, <2>3, CountQuiet, ProcFacts
  <1>5. ASSUME NEW p \in Clients, Set(p) PROVE CountStep
    <2>1. PICK z \in ItemsOf("kv"), l \in 1..Never :
             Put(z, l) /\ Begin(p, z) /\ Holds(p, "count", z, None)
      BY <1>5, SetMoves
    <2>2. p \in Procs /\ z \in Items /\ z[1] = "kv" /\ proc[p].pc = "idle"
      BY <1>5, SetMoves, ProcFacts, ItemFacts
    <2>3. /\ \A q \in Procs \ {p} : proc'[q] = proc[q]
          /\ proc'[p].pc = "count" /\ proc'[p].item = z
      BY <2>1, <2>2 DEF Holds, Becomes
    <2>4. \A y \in Items \ {z} : store'[y] = store[y]
      BY <2>1, <2>2 DEF Put, RestType
    <2>5. count' = count
      BY <1>5 DEF Set
    <2>6. raced \subseteq raced' /\ (z \notin raced' => AloneAt(p, z))
      BY <2>1, <2>2, BeginAlone
    <2>7. ~ Mark(p, z)'
      BY <2>3 DEF Mark, Adds, Subs
    <2> HIDE DEF Mark
    <2> QED BY <2>2, <2>3, <2>4, <2>5, <2>6, <2>7, CountAt
  <1>6. ASSUME NEW p \in Procs, CheckExpired(p) PROVE CountStep
    <2>1. /\ \A q \in Procs \ {p} : proc'[q] = proc[q]
          /\ proc'[p].pc \notin {"count", "uncount"}
          /\ proc'[p].pc = "purge" => proc'[p].item = NoItem
      BY <1>6, CheckMoves, ProcFacts DEF Holds, Enters, Becomes
    <2>2. /\ store' = store /\ count' = count
          /\ proc[p].pc \notin {"count", "uncount"}
          /\ proc[p].pc = "purge" => proc[p].item = NoItem
      BY <1>6 DEF CheckExpired, At
    <2>3. raced \subseteq raced'
      BY <1>6 DEF CheckExpired
    <2> QED BY <2>1, <2>2, <2>3, CountQuiet, ProcFacts
  <1>7. ASSUME NEW p \in Procs, RemoveExpired(p) PROVE CountStep
    <2>0. PICK z \in Items : z = proc[p].item
      BY <1>7, RemoveMoves
    <2>1. proc[p].pc = "remove" /\ z # NoItem /\ z[1] \in Kinds
      BY <1>7, RemoveMoves, ItemsAssumption, ItemFacts
    <2>2. /\ \A q \in Procs \ {p} : proc'[q] = proc[q]
          /\ proc'[p].item \in {z, NoItem}
          /\ \/ z[1] = "kv" /\ proc'[p].item = NoItem
             \/ proc'[p].pc = "uncount" /\ proc'[p].item = z
      BY <1>7, <2>0, <2>1, RemoveMoves DEF Holds, Enters, Becomes
    <2>3. raced' = raced /\ Take(z)
      BY <1>7, <2>0, RemoveMoves, LifeFacts DEF RemoveExpired
    <2>4. /\ store'[z] = None
          /\ \A y \in Items \ {z} : store'[y] = store[y]
      BY <2>3 DEF Take, RestType
    <2>5. count' = count
      BY <1>7 DEF RemoveExpired
    <2>6. z \notin raced => AloneAt(p, z) /\ HandOK(p, z)
      BY <2>0 DEF Exclusive, HandsOK, InCall
    <2>7. z \notin raced =>
             \/ z[1] = "kv" /\ ~ Mark(p, z)'
             \/ Mark(p, z) /\ Mark(p, z)'
      <3>1. z \notin raced => Mark(p, z)
        BY <2>0, <2>1, <2>6 DEF HandOK, Mark, Adds
      <3>2. CASE z[1] = "kv" /\ proc'[p].item = NoItem
        <4>1. ~ Mark(p, z)'
          BY <2>1, <2>4, <3>2 DEF Mark, Adds, Subs
        <4> QED BY <3>2, <4>1
      <3>3. CASE proc'[p].pc = "uncount" /\ proc'[p].item = z
        BY <3>1, <3>3 DEF Mark, Subs
      <3> QED BY <2>2, <3>2, <3>3
    <2> HIDE DEF Mark
    <2> QED BY <2>0, <2>1, <2>2, <2>3, <2>4, <2>5, <2>6, <2>7, CountAt
  <1>8. ASSUME NEW p \in Procs, CountDown(p) PROVE CountStep
    <2>0. PICK z \in Items : z = proc[p].item
      BY <1>8, CountDownMoves
    <2>1. proc[p].pc = "uncount" /\ z # NoItem /\ z[1] \in Kinds
      BY <1>8, CountDownMoves, ItemsAssumption, ItemFacts
    <2>2. /\ \A q \in Procs \ {p} : proc'[q] = proc[q]
          /\ proc'[p].item \in {z, NoItem}
          /\ proc'[p].item = NoItem
      BY <1>8, <2>0, <2>1, CountDownMoves DEF Holds, Enters, Becomes
    <2>3. store' = store /\ raced' = raced
      BY <1>8 DEF CountDown
    <2>4. /\ count'[z[1]] = count[z[1]] - 1
          /\ \A k \in Kinds \ {z[1]} : count'[k] = count[k]
      BY <1>8, <2>0, <2>1 DEF CountDown, RestType
    <2>5. z \notin raced => AloneAt(p, z) /\ HandOK(p, z)
      BY <2>0 DEF Exclusive, HandsOK, InCall
    <2>6. z \notin raced => Mark(p, z) /\ ~ Mark(p, z)'
      BY <2>0, <2>1, <2>2, <2>3, <2>5 DEF HandOK, Mark, Adds, Subs
    <2> HIDE DEF Mark
    <2> QED BY <2>0, <2>1, <2>2, <2>3, <2>4, <2>5, <2>6, CountAt
  <1>9. ASSUME NEW p \in Procs, WriteNew(p) PROVE CountStep
    <2>0. PICK z \in Items : z = proc[p].item
      BY <1>9, WriteNewMoves
    <2>1. proc[p].pc = "writeNew" /\ z # NoItem /\ z[1] \in Kinds
      BY <1>9, WriteNewMoves, ItemsAssumption, ItemFacts
    <2>2. /\ \A q \in Procs \ {p} : proc'[q] = proc[q]
          /\ proc'[p].item \in {z, NoItem}
          /\ proc'[p].pc = "count" /\ proc'[p].item = z
      BY <1>9, <2>0, <2>1, WriteNewMoves DEF Holds, Enters, Becomes
    <2>3. raced' = raced /\ Put(z, proc[p].seen) /\ proc[p].seen # None
      BY <1>9, <2>0, WriteNewMoves, LifeFacts DEF WriteNew
    <2>4. /\ store'[z] # None
          /\ \A y \in Items \ {z} : store'[y] = store[y]
      BY <2>3 DEF Put, RestType
    <2>5. count' = count
      BY <1>9 DEF WriteNew
    <2>6. z \notin raced => AloneAt(p, z) /\ HandOK(p, z)
      BY <2>0 DEF Exclusive, HandsOK, InCall
    <2>7. z \notin raced => ~ Mark(p, z) /\ ~ Mark(p, z)'
      BY <2>0, <2>1, <2>2, <2>3, <2>4, <2>6 DEF HandOK, Mark, Adds, Subs
    <2> HIDE DEF Mark
    <2> QED BY <2>0, <2>1, <2>2, <2>3, <2>4, <2>5, <2>6, <2>7, CountAt
  <1>10. ASSUME NEW p \in Procs, WriteOver(p) PROVE CountStep
    <2>0. PICK z \in Items : z = proc[p].item
      BY <1>10, WriteOverMoves
    <2>1. proc[p].pc = "writeOver" /\ z # NoItem /\ z[1] \in Kinds
      BY <1>10, WriteOverMoves, ItemsAssumption, ItemFacts
    <2>2. /\ \A q \in Procs \ {p} : proc'[q] = proc[q]
          /\ proc'[p].item \in {z, NoItem}
          /\ proc'[p].item = NoItem
      BY <1>10, <2>0, <2>1, WriteOverMoves DEF Holds, Enters, Becomes
    <2>3. raced' = raced /\ Put(z, proc[p].seen) /\ proc[p].seen # None
      BY <1>10, <2>0, WriteOverMoves, LifeFacts DEF WriteOver
    <2>4. /\ store'[z] # None
          /\ \A y \in Items \ {z} : store'[y] = store[y]
      BY <2>3 DEF Put, RestType
    <2>5. count' = count
      BY <1>10 DEF WriteOver
    <2>6. z \notin raced => AloneAt(p, z) /\ HandOK(p, z)
      BY <2>0 DEF Exclusive, HandsOK, InCall
    <2>7. z \notin raced => Mark(p, z) /\ Mark(p, z)'
      BY <2>0, <2>1, <2>2, <2>3, <2>4, <2>6 DEF HandOK, Mark, Adds, Subs
    <2> HIDE DEF Mark
    <2> QED BY <2>0, <2>1, <2>2, <2>3, <2>4, <2>5, <2>6, <2>7, CountAt
  <1>11. ASSUME NEW p \in Procs, CountUp(p) PROVE CountStep
    <2>0. PICK z \in Items : z = proc[p].item
      BY <1>11, CountUpMoves
    <2>1. proc[p].pc = "count" /\ z # NoItem /\ z[1] \in Kinds
      BY <1>11, CountUpMoves, ItemsAssumption, ItemFacts
    <2>2. /\ \A q \in Procs \ {p} : proc'[q] = proc[q]
          /\ proc'[p].item \in {z, NoItem}
          /\ proc'[p].item = NoItem
      BY <1>11, <2>0, <2>1, CountUpMoves DEF Holds, Enters, Becomes
    <2>3. store' = store /\ raced' = raced
      BY <1>11 DEF CountUp
    <2>4. /\ count'[z[1]] = count[z[1]] + 1
          /\ \A k \in Kinds \ {z[1]} : count'[k] = count[k]
      BY <1>11, <2>0, <2>1 DEF CountUp, RestType
    <2>5. z \notin raced => AloneAt(p, z) /\ HandOK(p, z)
      BY <2>0 DEF Exclusive, HandsOK, InCall
    <2>6. z \notin raced => ~ Mark(p, z) /\ Mark(p, z)'
      BY <2>0, <2>1, <2>2, <2>3, <2>5 DEF HandOK, Mark, Adds, Subs
    <2> HIDE DEF Mark
    <2> QED BY <2>0, <2>1, <2>2, <2>3, <2>4, <2>5, <2>6, CountAt
  <1>12. ASSUME NEW p \in Procs, Erase(p) PROVE CountStep
    <2>0. PICK z \in Items : z = proc[p].item
      BY <1>12, EraseMoves
    <2>1. proc[p].pc = "erase" /\ z # NoItem /\ z[1] \in Kinds
      BY <1>12, EraseMoves, ItemsAssumption, ItemFacts
    <2>2. /\ \A q \in Procs \ {p} : proc'[q] = proc[q]
          /\ proc'[p].item \in {z, NoItem}
          /\ proc'[p].pc = "uncount" /\ proc'[p].item = z
      BY <1>12, <2>0, <2>1, EraseMoves DEF Holds, Enters, Becomes
    <2>3. raced' = raced /\ Take(z)
      BY <1>12, <2>0, EraseMoves, LifeFacts DEF Erase
    <2>4. /\ store'[z] = None
          /\ \A y \in Items \ {z} : store'[y] = store[y]
      BY <2>3 DEF Take, RestType
    <2>5. count' = count
      BY <1>12 DEF Erase
    <2>6. z \notin raced => AloneAt(p, z) /\ HandOK(p, z)
      BY <2>0 DEF Exclusive, HandsOK, InCall
    <2>7. z \notin raced => Mark(p, z) /\ Mark(p, z)'
      BY <2>0, <2>1, <2>2, <2>3, <2>4, <2>6 DEF HandOK, Mark, Adds, Subs
    <2> HIDE DEF Mark
    <2> QED BY <2>0, <2>1, <2>2, <2>3, <2>4, <2>5, <2>6, <2>7, CountAt
  <1>13. ASSUME NEW p \in Procs, Visit(p) PROVE CountStep
    <2>1. /\ \A q \in Procs \ {p} : proc'[q] = proc[q]
          /\ proc'[p].pc \notin {"count", "uncount"}
          /\ proc'[p].pc = "purge" => proc'[p].item = NoItem
      BY <1>13, VisitMoves, ProcFacts DEF Holds, Enters, Becomes
    <2>2. /\ store' = store /\ count' = count
          /\ proc[p].pc \notin {"count", "uncount"}
          /\ proc[p].pc = "purge" => proc[p].item = NoItem
      BY <1>13 DEF Visit, At
    <2>3. raced \subseteq raced'
      BY <1>13 DEF Visit, Begin
    <2> QED BY <2>1, <2>2, <2>3, CountQuiet, ProcFacts
  <1>14. ASSUME NEW p \in Procs, ListDone(p) PROVE CountStep
    <2>1. /\ \A q \in Procs \ {p} : proc'[q] = proc[q]
          /\ proc'[p].pc \notin {"count", "uncount"}
          /\ proc'[p].pc = "purge" => proc'[p].item = NoItem
      BY <1>14, ListDoneMoves, ProcFacts DEF Holds, Enters, Becomes
    <2>2. /\ store' = store /\ count' = count
          /\ proc[p].pc \notin {"count", "uncount"}
          /\ proc[p].pc = "purge" => proc[p].item = NoItem
      BY <1>14 DEF ListDone, At
    <2>3. raced \subseteq raced'
      BY <1>14 DEF ListDone
    <2> QED BY <2>1, <2>2, <2>3, CountQuiet, ProcFacts
  <1>15. CASE Cleanup
    <2>1. /\ \A q \in Procs \ {"cleaner"} : proc'[q] = proc[q]
          /\ proc'["cleaner"].pc \notin {"count", "uncount"}
          /\ proc'["cleaner"].pc = "purge" => proc'["cleaner"].item = NoItem
      BY <1>15, CleanupMoves, ProcFacts DEF Holds, Enters, Becomes
    <2>2. /\ store' = store /\ count' = count
          /\ proc["cleaner"].pc \notin {"count", "uncount"}
          /\ proc["cleaner"].pc = "purge" => proc["cleaner"].item = NoItem
      BY <1>15 DEF Cleanup, At
    <2>3. raced \subseteq raced'
      BY <1>15 DEF Cleanup
    <2> QED BY <2>1, <2>2, <2>3, CountQuiet, ProcFacts
  <1>16. CASE Collect
    <2>1. /\ \A q \in Procs \ {"cleaner"} : proc'[q] = proc[q]
          /\ proc'["cleaner"].pc \notin {"count", "uncount"}
          /\ proc'["cleaner"].pc = "purge" => proc'["cleaner"].item = NoItem
      BY <1>16, CollectMoves, ProcFacts DEF Holds, Enters, Becomes
    <2>2. /\ store' = store /\ count' = count
          /\ proc["cleaner"].pc \notin {"count", "uncount"}
          /\ proc["cleaner"].pc = "purge" => proc["cleaner"].item = NoItem
      BY <1>16 DEF Collect, At
    <2>3. raced \subseteq raced'
      BY <1>16 DEF Collect, Begin
    <2> QED BY <2>1, <2>2, <2>3, CountQuiet, ProcFacts
  <1>17. CASE CollectDone
    <2>1. /\ \A q \in Procs \ {"cleaner"} : proc'[q] = proc[q]
          /\ proc'["cleaner"].pc \notin {"count", "uncount"}
          /\ proc'["cleaner"].pc = "purge" => proc'["cleaner"].item = NoItem
      BY <1>17, RoleMoves, ProcFacts DEF Holds, Enters, Becomes, CollectorOnly
    <2>2. /\ store' = store /\ count' = count
          /\ proc["cleaner"].pc \notin {"count", "uncount"}
          /\ proc["cleaner"].pc = "purge" => proc["cleaner"].item = NoItem
      BY <1>17 DEF CollectDone, At
    <2>3. raced \subseteq raced'
      BY <1>17 DEF CollectDone
    <2> QED BY <2>1, <2>2, <2>3, CountQuiet, ProcFacts
  <1>18. CASE Purge
    <2>0. proc["cleaner"].item = NoItem /\ raced' = raced /\ count' = count
      BY <1>18 DEF Purge
    <2>1. PICK key \in proc["cleaner"].doomed :
             /\ <<"kv", key>> \in Items /\ Take(<<"kv", key>>)
             /\ Holds("cleaner", "purge", <<"kv", key>>, None)
      BY <1>18, PurgeMoves
    <2>2. PICK z \in Items : z = <<"kv", key>>
      BY <2>1
    <2>3. /\ \A q \in Procs \ {"cleaner"} : proc'[q] = proc[q]
          /\ proc["cleaner"].pc = "purge"
          /\ proc'["cleaner"].pc = "purge" /\ proc'["cleaner"].item = z
          /\ \A y \in Items \ {z} : store'[y] = store[y]
      BY <1>18, <2>1, <2>2, PurgeMoves DEF Holds, Becomes, Take, RestType
    <2>4. z \notin raced => /\ AloneAt("cleaner", z) /\ HandOK("cleaner", z)
                            /\ z # NoItem
      BY <2>1, <2>2, ProcFacts, ItemsAssumption DEF Exclusive, HandsOK, InCall
    <2>5. z \notin raced => Mark("cleaner", z) /\ Mark("cleaner", z)'
      BY <2>0, <2>1, <2>2, <2>3, <2>4 DEF HandOK, Mark, Adds, Subs
    <2> HIDE DEF Mark
    <2> QED BY <2>0, <2>3, <2>4, <2>5, CountAt, ProcFacts
  <1>19. CASE PurgeCount
    <2>0. PICK z \in Items : z = proc["cleaner"].item
      BY <1>19, ProcFacts DEF PurgeCount, ProcType, ProcStates
    <2>1. /\ proc["cleaner"].pc = "purge" /\ z # NoItem /\ z[1] = "kv"
          /\ store' = store /\ raced' = raced
      BY <1>19, <2>0, ProcFacts, ItemsAssumption DEF PurgeCount, At, CollectorOnly
    <2>2. /\ \A q \in Procs \ {"cleaner"} : proc'[q] = proc[q]
          /\ proc'["cleaner"].item = NoItem
      BY <1>19, PurgeCountMoves DEF Becomes
    <2>3. /\ count'[z[1]] = count[z[1]] - 1
          /\ \A k \in Kinds \ {z[1]} : count'[k] = count[k]
      BY <1>19, <2>1, ProcFacts DEF PurgeCount, RestType
    <2>4. z \notin raced => AloneAt("cleaner", z) /\ HandOK("cleaner", z)
      BY <2>0, ProcFacts DEF Exclusive, HandsOK, InCall
    <2>5. z \notin raced => Mark("cleaner", z) /\ ~ Mark("cleaner", z)'
      BY <2>0, <2>1, <2>2, <2>4 DEF HandOK, Mark, Adds, Subs
    <2> HIDE DEF Mark
    <2> QED BY <2>0, <2>1, <2>2, <2>3, <2>4, <2>5, CountAt, ProcFacts
  <1>20. CASE PurgeDone
    <2>1. /\ \A q \in Procs \ {"cleaner"} : proc'[q] = proc[q]
          /\ proc'["cleaner"].pc \notin {"count", "uncount"}
          /\ proc'["cleaner"].pc = "purge" => proc'["cleaner"].item = NoItem
      BY <1>20, RoleMoves, ProcFacts DEF Holds, Enters, Becomes
    <2>2. /\ store' = store /\ count' = count
          /\ proc["cleaner"].pc \notin {"count", "uncount"}
          /\ proc["cleaner"].pc = "purge" => proc["cleaner"].item = NoItem
      BY <1>20 DEF PurgeDone, At
    <2>3. raced \subseteq raced'
      BY <1>20 DEF PurgeDone
    <2> QED BY <2>1, <2>2, <2>3, CountQuiet, ProcFacts
  <1>21. CASE CleanerExit
    <2>1. /\ \A q \in Procs \ {"cleaner"} : proc'[q] = proc[q]
          /\ proc'["cleaner"].pc \notin {"count", "uncount"}
          /\ proc'["cleaner"].pc = "purge" => proc'["cleaner"].item = NoItem
      BY <1>21, RoleMoves, ProcFacts DEF Holds, Enters, Becomes
    <2>2. /\ store' = store /\ count' = count
          /\ proc["cleaner"].pc \notin {"count", "uncount"}
          /\ proc["cleaner"].pc = "purge" => proc["cleaner"].item = NoItem
      BY <1>21 DEF CleanerExit, At
    <2>3. raced \subseteq raced'
      BY <1>21 DEF CleanerExit
    <2> QED BY <2>1, <2>2, <2>3, CountQuiet, ProcFacts
  <1>22. CASE Close
    <2>1. /\ \A q \in Procs \ {"closer"} : proc'[q] = proc[q]
          /\ proc'["closer"].pc \notin {"count", "uncount"}
          /\ proc'["closer"].pc = "purge" => proc'["closer"].item = NoItem
      BY <1>22, RoleMoves, ProcFacts DEF Holds, Enters, Becomes
    <2>2. /\ store' = store /\ count' = count
          /\ proc["closer"].pc \notin {"count", "uncount"}
          /\ proc["closer"].pc = "purge" => proc["closer"].item = NoItem
      BY <1>22 DEF Close, At
    <2>3. raced \subseteq raced'
      BY <1>22 DEF Close
    <2> QED BY <2>1, <2>2, <2>3, CountQuiet, ProcFacts
  <1>23. CASE PersistBegin
    <2>1. /\ \A q \in Procs \ {"closer"} : proc'[q] = proc[q]
          /\ proc'["closer"].pc \notin {"count", "uncount"}
          /\ proc'["closer"].pc = "purge" => proc'["closer"].item = NoItem
      BY <1>23, PersistMoves, ProcFacts DEF Holds, Enters, Becomes
    <2>2. /\ store' = store /\ count' = count
          /\ proc["closer"].pc \notin {"count", "uncount"}
          /\ proc["closer"].pc = "purge" => proc["closer"].item = NoItem
      BY <1>23 DEF PersistBegin, At
    <2>3. raced \subseteq raced'
      BY <1>23 DEF PersistBegin
    <2> QED BY <2>1, <2>2, <2>3, CountQuiet, ProcFacts
  <1>24. CASE PersistFails
    <2>1. /\ \A q \in Procs \ {"closer"} : proc'[q] = proc[q]
          /\ proc'["closer"].pc \notin {"count", "uncount"}
          /\ proc'["closer"].pc = "purge" => proc'["closer"].item = NoItem
      BY <1>24, RoleMoves, ProcFacts DEF Holds, Enters, Becomes
    <2>2. /\ store' = store /\ count' = count
          /\ proc["closer"].pc \notin {"count", "uncount"}
          /\ proc["closer"].pc = "purge" => proc["closer"].item = NoItem
      BY <1>24 DEF PersistFails, At
    <2>3. raced \subseteq raced'
      BY <1>24 DEF PersistFails
    <2> QED BY <2>1, <2>2, <2>3, CountQuiet, ProcFacts
  <1>25. CASE PersistRename
    <2>1. /\ \A q \in Procs \ {"closer"} : proc'[q] = proc[q]
          /\ proc'["closer"].pc \notin {"count", "uncount"}
          /\ proc'["closer"].pc = "purge" => proc'["closer"].item = NoItem
      BY <1>25, RoleMoves, ProcFacts DEF Holds, Enters, Becomes
    <2>2. /\ store' = store /\ count' = count
          /\ proc["closer"].pc \notin {"count", "uncount"}
          /\ proc["closer"].pc = "purge" => proc["closer"].item = NoItem
      BY <1>25 DEF PersistRename, At
    <2>3. raced \subseteq raced'
      BY <1>25 DEF PersistRename
    <2> QED BY <2>1, <2>2, <2>3, CountQuiet, ProcFacts
  <1>26. CASE Down
    BY <1>26 DEF CountStep
  <1>27. CASE NewMemoryStorage
    BY <1>27 DEF CountStep
  <1>28. CASE Tick
    <2>1. \A p \in Procs : proc'[p].pc = proc[p].pc /\ proc'[p].item = proc[p].item
      BY <1>28, TickMoves
    <2>2. \A y \in Items : store'[y] = None <=> store[y] = None
      BY <1>28, WholeSteps, EntryTypes, LifeFacts
    <2>3. \A y \in Items : InCount(y)' <=> InCount(y)
      BY <2>1, <2>2 DEF InCount, Adds, Subs
    <2>4. count' = count /\ raced' = raced
      BY <1>28 DEF Tick
    <2> QED BY <2>3, <2>4 DEF CountStep, SameCount
  <1>29. CASE UNCHANGED vars
    <2>1. \A y \in Items : InCount(y)' <=> InCount(y)
      BY <1>29 DEF vars, InCount, Adds, Subs
    <2> QED BY <1>29, <2>1 DEF vars, CountStep, SameCount
  <1>30. CASE CloseUnsaved
    <2>1. /\ \A q \in Procs \ {"closer"} : proc'[q] = proc[q]
          /\ proc'["closer"].pc \notin {"count", "uncount"}
          /\ proc'["closer"].pc = "purge" => proc'["closer"].item = NoItem
      BY <1>30, RoleMoves, ProcFacts DEF Holds, Enters, Becomes
    <2>2. /\ store' = store /\ count' = count
          /\ proc["closer"].pc \notin {"count", "uncount"}
          /\ proc["closer"].pc = "purge" => proc["closer"].item = NoItem
      BY <1>30 DEF CloseUnsaved, At
    <2>3. raced \subseteq raced'
      BY <1>30 DEF CloseUnsaved
    <2> QED BY <2>1, <2>2, <2>3, CountQuiet, ProcFacts
  <1> QED
    BY StepCases, <1>1, <1>2, <1>3, <1>4, <1>5, <1>6, <1>7, <1>8, <1>9, <1>10, <1>11,
       <1>12, <1>13, <1>14, <1>15, <1>16, <1>17, <1>18, <1>19, <1>20, <1>21, <1>22, <1>23,
       <1>24, <1>25, <1>26, <1>27, <1>28, <1>29, <1>30
    DEF Continue

(* An item enters or leaves the count, and the counter follows.            *)
LEMMA CountsInductive ==
    ASSUME ProcType, RestType, DownBriefly, CountsFollow, CountStep
    PROVE  CountsFollow'
  <1> SUFFICES ASSUME NEW k \in Kinds, \A x \in ItemsOf(k) : x \notin raced'
               PROVE  IF k = "kv" THEN count'[k] >= Cardinality(Counted(k)')
                      ELSE count'[k] = Cardinality(Counted(k)')
    BY DEF CountsFollow
  <1> DEFINE Old == Counted(k)
             New == Counted(k)'
  <1>0. /\ IsFiniteSet(Old) /\ Cardinality(Old) \in Nat
        /\ IsFiniteSet(New) /\ Cardinality(New) \in Nat
        /\ count[k] \in Int /\ ItemsOf(k) \subseteq Items
    <2>1. Old \in SUBSET ItemsOf(k) /\ New \in SUBSET ItemsOf(k)
      BY DEF Counted
    <2> QED BY <2>1, ItemsFinite, ProcFacts DEF RestType
  <1>1. CASE Down
    <2>1. \A p \in Procs : proc'[p].pc = "idle"
      BY <1>1, RoleMoves DEF Idle
    <2>2. \A x \in Items : store'[x] = None
      BY <1>1, WholeSteps
    <2>3. New = {}
      BY <1>0, <2>1, <2>2 DEF Counted, InCount, Adds, Subs
    <2>4. count'[k] = 0
      BY <1>1 DEF Down
    <2> HIDE DEF New
    <2> QED BY <2>3, <2>4, FS_EmptySet DEF New
  <1>2. CASE NewMemoryStorage
    <2>1. \A p \in Procs : proc'[p].pc = "idle"
      BY <1>2 DEF NewMemoryStorage, DownBriefly
    <2>2. store' = loadFromFile
      BY <1>2 DEF NewMemoryStorage
    <2>3. New = {x \in ItemsOf(k) : loadFromFile[x] # None}
      BY <2>1, <2>2 DEF Counted, InCount, Adds, Subs
    <2>4. count'[k] = Cardinality({x \in ItemsOf(k) : loadFromFile[x] # None})
      BY <1>2 DEF NewMemoryStorage
    <2>5. count'[k] = Cardinality(New)
      BY <2>3, <2>4
    <2> QED BY <1>0, <2>5
  <1>3. ASSUME raced \subseteq raced', Old = New, count'[k] = count[k]
        PROVE  IF k = "kv" THEN count'[k] >= Cardinality(New)
               ELSE count'[k] = Cardinality(New)
    BY <1>3 DEF CountsFollow
  <1>4. CASE raced \subseteq raced' /\ count' = count /\ \A y \in Items : SameCount(y)
    <2>1. Old = New
      BY <1>0, <1>4 DEF SameCount, Counted
    <2> QED BY <1>3, <1>4, <2>1
  <1>5. ASSUME raced \subseteq raced', NEW x \in Items,
               \A y \in Items \ {x} : SameCount(y),
               \A j \in Kinds \ {x[1]} : count'[j] = count[j],
               x \notin raced' => CountedAt(x)
        PROVE  IF k = "kv" THEN count'[k] >= Cardinality(New)
               ELSE count'[k] = Cardinality(New)
    <2>0. x \in ItemsOf(k) <=> x[1] = k
      BY ItemFacts DEF ItemsOf
    <2>1. CASE x[1] # k
      <3>1. Old = New
        BY <1>0, <1>5, <2>0, <2>1 DEF SameCount, Counted
      <3> QED BY <1>3, <1>5, <2>1, <3>1
    <2>2. CASE x[1] = k
      <3>1. CountedAt(x) /\ x \in ItemsOf(k)
        BY <1>5, <2>0, <2>2
      <3>2. \A y \in ItemsOf(k) \ {x} : y \in New <=> y \in Old
        BY <1>0, <1>5 DEF SameCount, Counted
      <3>3. (x \in Old <=> InCount(x)) /\ (x \in New <=> InCount(x)')
        BY <3>1 DEF Counted
      <3>4. Old \subseteq ItemsOf(k) /\ New \subseteq ItemsOf(k)
        BY DEF Counted
      <3>5. IF k = "kv" THEN count[k] >= Cardinality(Old) ELSE count[k] = Cardinality(Old)
        BY <1>5 DEF CountsFollow
      <3> HIDE DEF Old, New
      <3>6. CASE (InCount(x)' <=> InCount(x)) /\ count'[k] = count[k]
        <4>1. Old = New
          BY <3>2, <3>3, <3>4, <3>6
        <4> QED BY <3>5, <3>6, <4>1
      <3>7. CASE ~ InCount(x) /\ InCount(x)' /\ count'[k] = count[k] + 1
        <4>1. x \notin Old /\ New = Old \cup {x}
          BY <3>1, <3>2, <3>3, <3>4, <3>7
        <4>2. Cardinality(New) = Cardinality(Old) + 1
          BY <1>0, <4>1, FS_AddElement
        <4> QED BY <1>0, <3>5, <3>7, <4>2
      <3>8. CASE InCount(x) /\ ~ InCount(x)' /\ count'[k] = count[k] - 1
        <4>1. x \in Old /\ New = Old \ {x}
          BY <3>1, <3>2, <3>3, <3>4, <3>8
        <4>2. Cardinality(New) = Cardinality(Old) - 1
          BY <1>0, <4>1, FS_RemoveElement
        <4> QED BY <1>0, <3>5, <3>8, <4>2
      <3>9. CASE k = "kv" /\ ~ InCount(x)' /\ count'[k] = count[k]
        <4>1. New \subseteq Old
          BY <3>2, <3>3, <3>4, <3>9
        <4>2. Cardinality(New) <= Cardinality(Old)
          BY <1>0, <4>1, FS_Subset
        <4> QED BY <1>0, <3>5, <3>9, <4>2
      <3> QED BY <2>2, <3>1, <3>6, <3>7, <3>8, <3>9 DEF CountedAt
    <2> QED BY <2>1, <2>2
  <1> QED BY <1>1, <1>2, <1>4, <1>5 DEF CountStep

(* Every step keeps apart the calls at items that were not raced for.      *)
LEMMA AloneInductive ==
    ASSUME ProcType, RestType, DownBriefly, CollectorOnly, Exclusive, HandsOK, AloneStep
    PROVE  Exclusive' /\ HandsOK'
  <1>1. CASE Down
    <2>1. \A p \in Procs : proc'[p].pc = "idle" /\ proc'[p].item = NoItem /\ proc'[p].doomed = {}
      BY <1>1, RoleMoves DEF Idle
    <2>2. \A x \in Items : x # NoItem
      BY ItemsAssumption
    <2>3. Exclusive'
      BY <2>1, <2>2 DEF Exclusive, InCall
    <2>4. HandsOK'
      BY <2>1, <2>2 DEF HandsOK, HandOK
    <2> QED BY <2>3, <2>4
  <1>2. CASE NewMemoryStorage
    <2>1. proc' = proc /\ raced' = raced
      BY <1>2 DEF NewMemoryStorage
    <2>2. \A p \in Procs : proc[p].pc = "idle" /\ proc[p].doomed = {}
      BY <1>2 DEF NewMemoryStorage, DownBriefly
    <2>3. Exclusive'
      BY <2>1 DEF Exclusive, AloneAt, InCall
    <2>4. HandsOK'
      BY <2>1, <2>2 DEF HandsOK, HandOK
    <2> QED BY <2>3, <2>4
  <1>3. CASE Tick
    <2>1. \A p \in Procs : /\ proc'[p].pc = proc[p].pc /\ proc'[p].item = proc[p].item
                           /\ proc'[p].doomed = proc[p].doomed
      BY <1>3, TickMoves
    <2>2. \A x \in Items : store'[x] = None <=> store[x] = None
      BY <1>3, WholeSteps, EntryTypes, LifeFacts
    <2>3. raced' = raced
      BY <1>3 DEF Tick
    <2>4. Exclusive'
      BY <2>1, <2>3 DEF Exclusive, AloneAt, InCall
    <2>5. HandsOK'
      BY <2>1, <2>2, <2>3 DEF HandsOK, HandOK
    <2> QED BY <2>4, <2>5
  <1>4. CASE UNCHANGED vars
    <2>1. Exclusive'
      BY <1>4 DEF vars, Exclusive, AloneAt, InCall
    <2>2. HandsOK'
      BY <1>4 DEF vars, HandsOK, HandOK
    <2> QED BY <2>1, <2>2
  <1>5. CASE \E p \in Procs : ActsAlone(p)
    BY <1>5, AloneKept
  <1> QED BY <1>1, <1>2, <1>3, <1>4, <1>5 DEF AloneStep

(* The statistics' invariant, for any clients, keys, lives and restarts:   *)
(* the calls at an item that never overlapped keep its part of the count.  *)
THEOREM StatisticsInvariant == Spec => []CInv
  <1>1. Init => CInv
    <2> SUFFICES ASSUME Init PROVE CInv
      OBVIOUS
    <2>1. \A p \in Procs : proc[p].pc = "idle" /\ proc[p].item = NoItem /\ proc[p].doomed = {}
      BY DEF Init, Idle
    <2>2. \A x \in Items : x # NoItem /\ store[x] = None
      BY ItemsAssumption, EmptyTyped DEF Init
    <2>3. Exclusive /\ HandsOK
      BY <2>1, <2>2 DEF Exclusive, HandsOK, HandOK, InCall
    <2>4. ASSUME NEW k \in Kinds PROVE count[k] = Cardinality(Counted(k))
      <3>1. Counted(k) = {}
        BY <2>1, <2>2, ProcFacts DEF Counted, InCount, Adds, Subs
      <3>2. count[k] = 0
        BY DEF Init
      <3> QED BY <3>1, <3>2, FS_EmptySet
    <2>5. \A k \in Kinds : count[k] \in Int
      BY DEF Init
    <2>6. CountsFollow
      BY <2>4, <2>5 DEF CountsFollow
    <2> QED BY <2>3, <2>6 DEF CInv
  <1>2. IInv /\ CInv /\ [Next]_vars => CInv'
    <2> SUFFICES ASSUME IInv, CInv, [Next]_vars PROVE CInv'
      OBVIOUS
    <2>1. /\ ProcType /\ RestType /\ InHand /\ DownBriefly
          /\ CollectorOnly /\ Exclusive /\ HandsOK /\ CountsFollow
      BY DEF IInv, CInv
    <2>2. AloneStep /\ CountStep
      BY <2>1, AloneCases, CountCases
    <2>3. Exclusive' /\ HandsOK' /\ CountsFollow'
      BY <2>1, <2>2, AloneInductive, CountsInductive
    <2> QED BY <2>3 DEF CInv
  <1> QED BY <1>1, <1>2, StorageInvariant, PTL DEF Spec

(* The statistics are right where calls do not overlap: an item that a     *)
(* Store, Get, Delete or Cleanup has half dealt with is in someone's hand, *)
(* so with nobody in a call the count is that of the entries.              *)
THEOREM StatisticsRight == Spec => []CountsExactUnlessRaced
  <1>1. IInv /\ CInv => CountsExactUnlessRaced
    <2> SUFFICES ASSUME IInv, CInv, NEW k \in Kinds,
                        \A x \in ItemsOf(k) : /\ x \notin raced
                                              /\ \A p \in Procs : ~ InCall(p, x)
                 PROVE  IF k = "kv"
                        THEN count[k] >= Cardinality({x \in ItemsOf(k) : store[x] # None})
                        ELSE count[k] = Cardinality({x \in ItemsOf(k) : store[x] # None})
      BY DEF CountsExactUnlessRaced
    <2>1. Counted(k) = {x \in ItemsOf(k) : store[x] # None}
      BY DEF Counted, InCount, InCall, Adds, Subs
    <2>2. IF k = "kv" THEN count[k] >= Cardinality(Counted(k))
          ELSE count[k] = Cardinality(Counted(k))
      BY DEF CInv, CountsFollow
    <2> QED BY <2>1, <2>2
  <1> QED BY <1>1, StorageInvariant, StatisticsInvariant, PTL

=============================================================================
