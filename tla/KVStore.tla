------------------------------ MODULE KVStore ------------------------------
(***************************************************************************)
(* What the storage interface promises its users (pkg/storage): a map from *)
(* items to entries that age.  An entry disappears only because somebody   *)
(* deletes it, or because a user who has met an expired entry at the item  *)
(* removes what is there by then.  The second case is weaker than one      *)
(* would like: it may hit an entry that has replaced the expired one.  It  *)
(* does so once for each time that an expired entry was met; otherwise the *)
(* store is like any map.                                                  *)
(*                                                                         *)
(* A copy of the items in Persistent survives on disk.  It is drawn up of  *)
(* entries found alive, replaces the old copy in one step, and the store   *)
(* is reopened with what is still alive of it.                             *)
(***************************************************************************)
EXTENDS Integers

CONSTANTS Items, Users, MaxLife, Persistent, NoItem

VARIABLES
    content,    \* remaining life of the entry of an item, Never or None
    reading,    \* the entry a user has read and not yet examined
    doomed,     \* <<user, item>>: the user has met an expired entry there
    deleting,   \* the item a user is deleting
    draft,      \* the copy being drawn up
    saved,      \* the copy on disk
    open

vars == <<content, reading, doomed, deleting, draft, saved, open>>

None == -1
Never == MaxLife + 1

Aged(l) == IF l \in 1..MaxLife THEN l - 1 ELSE l
Alive(l) == l > 0
Empty == [i \in Items |-> None]
Nothing == [item |-> NoItem, life |-> None]

Init ==
    /\ content = Empty
    /\ reading = [u \in Users |-> Nothing]
    /\ doomed = {}
    /\ deleting = [u \in Users |-> NoItem]
    /\ draft = Empty
    /\ saved = Empty
    /\ open = TRUE

Put(i, l) ==
    /\ open
    /\ content' = [content EXCEPT ![i] = l]
    /\ UNCHANGED <<reading, doomed, deleting, draft, saved, open>>

BeginDelete(u, i) ==
    /\ open
    /\ deleting' = [deleting EXCEPT ![u] = i]
    /\ UNCHANGED <<content, reading, doomed, draft, saved, open>>

Delete(u) ==
    /\ deleting[u] # NoItem
    /\ content' = [content EXCEPT ![deleting[u]] = None]
    /\ deleting' = [deleting EXCEPT ![u] = NoItem]
    /\ UNCHANGED <<reading, doomed, draft, saved, open>>

Read(u, i) ==
    /\ content[i] # None
    /\ reading' = [reading EXCEPT ![u] = [item |-> i, life |-> content[i]]]
    /\ UNCHANGED <<content, doomed, deleting, draft, saved, open>>

(* What was read is returned, or noted for the copy.                       *)
Answer(u) ==
    /\ reading' = [reading EXCEPT ![u] = Nothing]
    /\ UNCHANGED <<content, doomed, deleting, draft, saved, open>>

Note(u) ==
    /\ reading[u].item \in Persistent
    /\ Alive(reading[u].life)
    /\ draft' = [draft EXCEPT ![reading[u].item] = reading[u].life]
    /\ reading' = [reading EXCEPT ![u] = Nothing]
    /\ UNCHANGED <<content, doomed, deleting, saved, open>>

(* What was read, or what is there, has expired.                           *)
MeetRead(u) ==
    /\ reading[u].life = 0
    /\ doomed' = doomed \cup {<<u, reading[u].item>>}
    /\ reading' = [reading EXCEPT ![u] = Nothing]
    /\ UNCHANGED <<content, deleting, draft, saved, open>>

Meet(u, i) ==
    /\ content[i] = 0
    /\ doomed' = doomed \cup {<<u, i>>}
    /\ UNCHANGED <<content, reading, deleting, draft, saved, open>>

Forget(u, i) ==
    /\ <<u, i>> \in doomed
    /\ doomed' = doomed \ {<<u, i>>}
    /\ content' = [content EXCEPT ![i] = None]
    /\ UNCHANGED <<reading, deleting, draft, saved, open>>

Tick ==
    /\ content' = [i \in Items |-> Aged(content[i])]
    /\ reading' = [u \in Users |-> [reading[u] EXCEPT !.life = Aged(@)]]
    /\ draft' = [i \in Items |-> Aged(draft[i])]
    /\ saved' = [i \in Items |-> Aged(saved[i])]
    /\ UNCHANGED <<doomed, deleting, open>>

BeginSave ==
    /\ draft' = Empty
    /\ UNCHANGED <<content, reading, doomed, deleting, saved, open>>

Save ==
    /\ saved' = draft
    /\ draft' = Empty
    /\ UNCHANGED <<content, reading, doomed, deleting, open>>

Shut ==
    /\ open
    /\ open' = FALSE
    /\ content' = Empty
    /\ reading' = [u \in Users |-> Nothing]
    /\ doomed' = {}
    /\ deleting' = [u \in Users |-> NoItem]
    /\ draft' = Empty
    /\ UNCHANGED saved

Reopen ==
    /\ ~ open
    /\ open' = TRUE
    /\ content' = [i \in Items |-> IF Alive(saved[i]) THEN saved[i] ELSE None]
    /\ UNCHANGED <<reading, doomed, deleting, draft, saved>>

Next ==
    \/ \E i \in Items, l \in 0..Never : Put(i, l)
    \/ \E u \in Users, i \in Items :
          BeginDelete(u, i) \/ Read(u, i) \/ Meet(u, i) \/ Forget(u, i)
    \/ \E u \in Users : Delete(u) \/ Answer(u) \/ Note(u) \/ MeetRead(u)
    \/ Tick \/ BeginSave \/ Save \/ Shut \/ Reopen

Spec == Init /\ [][Next]_vars

=============================================================================
