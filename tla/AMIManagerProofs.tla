-------------------------- MODULE AMIManagerProofs -------------------------
(***************************************************************************)
(* Theorems about AMIManager for any number of clients, callers, pending   *)
(* actions, faults and refusals: that activeIdx always names a client, and *)
(* that replays which do not overlap send a pending action a bounded       *)
(* number of times and never again after its success.                      *)
(***************************************************************************)
EXTENDS AMIManager, WellFoundedInduction, TLAPS

ConnStates == {"down", "up", "hung", "locked"}
RetrySteps == {"off", "dial", "check", "switch"}
HealthSteps == {"wait", "reconnect", "backup", "switch", "list", "replay", "bump", "send",
                "delete", "stuck"}
UserSteps == {"idle", "active", "others", "switch", "send", "record", "failover", "resend",
              "stuck"}

RetryRecords == [pc : RetrySteps, n : 0..MaxRetries]
HealthRecords == [pc : HealthSteps, to : Idx \cup {NoClient}, todo : SUBSET Actions,
                  action : Actions \cup {NoAction}, seen : Nat]
MonitorRecords == [pc : {"wait", "seek", "switch"}, from : Idx, to : Idx \cup {NoClient}]
UserRecords == [pc : UserSteps, from : Idx, to : Idx \cup {NoClient}]

(* What a goroutine is about to write to activeIdx is a client, and what   *)
(* it is about to send again an action.                                    *)
TargetIsClient ==
    /\ \A i \in Idx : health[i].pc \in {"backup", "switch"} => health[i].to \in Idx
    /\ monitor.pc = "switch" => monitor.to \in Idx
    /\ \A u \in Users : user[u].pc \in {"switch", "resend"} => user[u].to \in Idx

ActionInHand ==
    \A i \in Idx : health[i].pc \in {"bump", "send", "delete"} => health[i].action \in Actions

(* Two replays at once are recorded in the history.                        *)
OverlapSeen ==
    \A i, j \in Idx : i # j /\ Replaying(i) /\ Replaying(j) => overlapped

(* How the history follows the Retries fields.  An action is counted in    *)
(* Retries before it is sent.                                              *)
SentIsCounted ==
    ~ overlapped =>
        \A a \in Actions : sent[a] <= retries[a] /\ retries[a] <= ReplayLimit + 1

BumpIsFresh ==
    ~ overlapped =>
        \A i \in Idx : health[i].pc = "bump" =>
            /\ health[i].seen = retries[health[i].action]
            /\ health[i].seen <= ReplayLimit
            /\ health[i].action \notin answered

SendIsCounted ==
    ~ overlapped =>
        \A i \in Idx : health[i].pc = "send" =>
            /\ sent[health[i].action] < retries[health[i].action]
            /\ health[i].action \notin answered

AnsweredIsDeleted ==
    ~ overlapped =>
        \A a \in answered \cap pending :
            \E i \in Idx : health[i].pc = "delete" /\ health[i].action = a

IInv ==
    /\ TypeOK /\ TargetIsClient /\ ActionInHand /\ OverlapSeen
    /\ SentIsCounted /\ BumpIsFresh /\ SendIsCounted /\ AnsweredIsDeleted

-----------------------------------------------------------------------------
(* TypeOK in parts: one for each kind of goroutine, and the rest.          *)
CoreType ==
    /\ active \in Idx
    /\ failCount \in [Idx -> 0..FailThreshold]
    /\ muHeld \in BOOLEAN
    /\ starting \in 0..NumClients
    /\ background \in SUBSET Idx
    /\ found \in BOOLEAN

NetType ==
    /\ conn \in [Idx -> ConnStates]
    /\ faults \in 0..MaxFaults
    /\ refusals \in 0..MaxRefusals

RetryType == retry \in [Idx -> RetryRecords]
HealthType == health \in [Idx -> HealthRecords]
MonitorType == monitor \in MonitorRecords
ReconnType == reconn \in [Idx -> {"off", "dial", "test", "set"}]
UserType == user \in [Users -> UserRecords]

ActionsType ==
    /\ pending \in SUBSET Actions
    /\ retries \in [Actions -> Nat]
    /\ sent \in [Actions -> Nat]
    /\ answered \in SUBSET Actions
    /\ overlapped \in BOOLEAN

Types ==
    /\ CoreType /\ NetType /\ RetryType /\ HealthType /\ MonitorType /\ ReconnType
    /\ UserType /\ ActionsType

(* The parts make up TypeOK, now and after a step.                         *)
LEMMA TypeParts == TypeOK <=> Types
  BY DEF TypeOK, Types, CoreType, NetType, RetryType, HealthType, MonitorType, ReconnType,
         UserType, ActionsType, ConnStates, RetrySteps, HealthSteps, UserSteps,
         RetryRecords, HealthRecords, MonitorRecords, UserRecords

(* What is not changed keeps its type.                                     *)
LEMMA TypeFrame ==
    /\ CoreType /\ UNCHANGED <<active, failCount, muHeld, starting, background, found>>
         => CoreType'
    /\ NetType /\ UNCHANGED netVars => NetType'
    /\ RetryType /\ UNCHANGED retry => RetryType'
    /\ HealthType /\ UNCHANGED health => HealthType'
    /\ MonitorType /\ UNCHANGED monitor => MonitorType'
    /\ ReconnType /\ UNCHANGED reconn => ReconnType'
    /\ UserType /\ UNCHANGED user => UserType'
    /\ ActionsType /\ UNCHANGED actionVars => ActionsType'
  BY DEF CoreType, NetType, RetryType, HealthType, MonitorType, ReconnType, UserType,
         ActionsType, netVars, actionVars

-----------------------------------------------------------------------------
(* The indices of the clients; NoClient is not one of them.                *)
LEMMA Indices ==
    /\ NumClients \in Nat /\ 0 \in Idx /\ NoClient \notin Idx /\ Idx \subseteq Nat
    /\ \A i \in 0..NumClients : i # NumClients => i \in Idx /\ i + 1 \in 0..NumClients
  BY ManagerAssumption DEF Idx, NoClient

(* First finds a client unless there is none.                              *)
LEMMA FirstFacts ==
    ASSUME NEW S \in SUBSET Idx
    PROVE  (First(S) \in S /\ S # {}) \/ (First(S) = NoClient /\ S = {})
  <1>1. CASE S = {}
    BY <1>1 DEF First
  <1>2. CASE S # {}
    <2>1. S \subseteq Nat
      BY Indices
    <2>2. PICK i \in S : \A j \in S : ~ (<<j, i>> \in OpToRel(<, Nat))
      BY <1>2, <2>1, NatLessThanWellFounded, WFMin
    <2>3. \A j \in S : ~ (j < i)
      BY <2>1, <2>2 DEF OpToRel
    <2>4. \A j \in S : i <= j
      BY <2>1, <2>3
    <2> QED BY <1>2, <2>4 DEF First
  <1> QED BY <1>1, <1>2

(* The next client to try, if there is one.                                *)
LEMMA NextBackupFacts ==
    \A i, j : NextBackup(i, j) \in Idx \/ NextBackup(i, j) = NoClient
  <1> SUFFICES ASSUME NEW i, NEW j
               PROVE  NextBackup(i, j) \in Idx \/ NextBackup(i, j) = NoClient
    OBVIOUS
  <1>1. {k \in Idx : k > j /\ k # i} \in SUBSET Idx
    OBVIOUS
  <1> QED BY <1>1, FirstFacts DEF NextBackup

(* tryFailover finds a client or none.                                     *)
LEMMA CandidateFacts == First(Candidates) \in Idx \/ First(Candidates) = NoClient
  <1>1. Candidates \in SUBSET Idx
    BY DEF Candidates
  <1> QED BY <1>1, FirstFacts

(* Whatever a call to a server comes to, the clients keep their types.     *)
LEMMA NetMoves ==
    ASSUME NetType, NEW i,
           ConnectOk(i) \/ ConnectFails(i) \/ \E o \in Outcomes : Sends(i, o)
    PROVE  NetType'
  <1>1. conn' \in [Idx -> ConnStates]
    <2>1. CASE ConnectOk(i)
      <3>1. conn' = [conn EXCEPT ![i] = IF @ = "down" THEN "up" ELSE @]
        BY <2>1 DEF ConnectOk
      <3>2. \A j \in Idx : conn[j] \in ConnStates
        BY DEF NetType
      <3> QED BY <3>1, <3>2 DEF NetType, ConnStates
    <2>2. CASE ConnectFails(i)
      BY <2>2 DEF ConnectFails, NetType
    <2>3. ASSUME NEW o \in Outcomes, Sends(i, o) PROVE conn' \in [Idx -> ConnStates]
      <3>1. \/ conn' = conn \/ conn' = [conn EXCEPT ![i] = "locked"]
            \/ conn' = [conn EXCEPT ![i] = "down"]
        BY <2>3 DEF Sends, Outcomes
      <3> QED BY <3>1 DEF NetType, ConnStates
    <2> QED BY <2>1, <2>2, <2>3
  <1>2. faults' \in 0..MaxFaults /\ refusals' \in 0..MaxRefusals
    BY ManagerAssumption DEF ConnectOk, ConnectFails, Sends, Outcomes, NetType
  <1> QED BY <1>1, <1>2 DEF NetType

-----------------------------------------------------------------------------
(* A health goroutine comes to a step; the others stay where they are.     *)
Enters(i, step) ==
    /\ HealthType'
    /\ health'[i].pc = step
    /\ \A j \in Idx \ {i} : health'[j] = health[j]

(* The records of the goroutines.                                          *)
LEMMA HealthRecordFacts ==
    /\ HealthWait \in HealthRecords /\ HealthWait.pc = "wait"
    /\ \A r \in HealthRecords, s \in HealthSteps :
          /\ [r EXCEPT !.pc = s] \in HealthRecords
          /\ [r EXCEPT !.pc = s].pc = s
          /\ [r EXCEPT !.pc = s].to = r.to
          /\ [r EXCEPT !.pc = s].action = r.action
    /\ \A k \in Idx : /\ [HealthWait EXCEPT !.pc = "backup", !.to = k] \in HealthRecords
                      /\ [HealthWait EXCEPT !.pc = "backup", !.to = k].pc = "backup"
                      /\ [HealthWait EXCEPT !.pc = "backup", !.to = k].to = k
  BY DEF HealthRecords, HealthWait, HealthSteps

(* Assigning the record of one goroutine.                                  *)
LEMMA HealthSet ==
    ASSUME HealthType, NEW i \in Idx, NEW h \in HealthRecords, Health(i, h)
    PROVE  Enters(i, h.pc) /\ health'[i] = h
  BY DEF Health, HealthType, Enters

(* The goroutine waits for its next ping again.                            *)
LEMMA HealthWaits ==
    ASSUME HealthType, NEW i \in Idx, Health(i, HealthWait)
    PROVE  Enters(i, "wait")
  <1>1. HealthWait \in HealthRecords /\ HealthWait.pc = "wait"
    BY HealthRecordFacts
  <1>2. health' = [health EXCEPT ![i] = HealthWait]
    BY DEF Health
  <1>3. health'[i] = HealthWait /\ HealthType' /\ \A j \in Idx \ {i} : health'[j] = health[j]
    BY <1>1, <1>2 DEF HealthType
  <1> QED BY <1>1, <1>3 DEF Enters

(* A step that changes the program counter alone.                          *)
LEMMA HealthGotoFacts ==
    ASSUME HealthType, NEW i \in Idx, NEW s \in HealthSteps, HealthGoto(i, s)
    PROVE  Enters(i, s) /\ health'[i].to = health[i].to /\ health'[i].action = health[i].action
  <1> DEFINE h == [health[i] EXCEPT !.pc = s]
  <1>1. health[i] \in HealthRecords
    BY DEF HealthType
  <1>2. h \in HealthRecords /\ h.pc = s /\ h.to = health[i].to /\ h.action = health[i].action
    BY <1>1, HealthRecordFacts
  <1>3. Health(i, h)
    BY DEF HealthGoto
  <1> HIDE DEF h
  <1> QED BY <1>2, <1>3, HealthSet

(* The search for a backup goes on with a client, or ends.                 *)
LEMMA HealthBackupFacts ==
    ASSUME HealthType, NEW i \in Idx, NEW j, HealthBackupFrom(i, j)
    PROVE  Enters(i, "wait") \/ (Enters(i, "backup") /\ health'[i].to \in Idx)
  <1>1. CASE NextBackup(i, j) = NoClient
    <2>1. Health(i, HealthWait)
      BY <1>1 DEF HealthBackupFrom
    <2> QED BY <2>1, HealthWaits
  <1>2. CASE NextBackup(i, j) # NoClient
    <2> DEFINE h == [HealthWait EXCEPT !.pc = "backup", !.to = NextBackup(i, j)]
    <2>1. Health(i, h)
      BY <1>2 DEF HealthBackupFrom
    <2>2. h \in HealthRecords /\ h.pc = "backup" /\ h.to \in Idx
      <3>1. PICK k \in Idx : k = NextBackup(i, j)
        BY <1>2, NextBackupFacts
      <3> QED BY <3>1, HealthRecordFacts
    <2> HIDE DEF h
    <2> QED BY <2>1, <2>2, HealthSet
  <1> QED BY <1>1, <1>2

(* The steps of tryReconnectOrFailover and of the pings.                   *)
LEMMA BreakMoves ==
    ASSUME HealthType, NEW i \in Idx, Break(i)
    PROVE  \/ UNCHANGED health
           \/ health[i].pc = "wait" /\ (Enters(i, "reconnect") \/ Enters(i, "stuck"))
  BY HealthGotoFacts DEF Break, goVars, HealthSteps

(* A ping that is answered with an error.                                  *)
LEMMA PingMoves ==
    ASSUME HealthType, NEW i \in Idx, HealthPing(i)
    PROVE  health[i].pc = "wait" /\ Enters(i, "reconnect")
  BY HealthGotoFacts DEF HealthPing, HealthSteps

(* Reconnecting the own client, or turning to the first backup.            *)
LEMMA ReconnectMoves ==
    ASSUME HealthType, NEW i \in Idx, HealthReconnect(i)
    PROVE  /\ health[i].pc = "reconnect"
           /\ Enters(i, "wait") \/ (Enters(i, "backup") /\ health'[i].to \in Idx)
  BY HealthWaits, HealthBackupFacts DEF HealthReconnect

(* Connecting a backup, or turning to the next one.                        *)
LEMMA BackupMoves ==
    ASSUME HealthType, NEW i \in Idx, HealthBackup(i)
    PROVE  /\ health[i].pc = "backup"
           /\ \/ Enters(i, "switch") /\ health'[i].to = health[i].to
              \/ Enters(i, "wait")
              \/ Enters(i, "backup") /\ health'[i].to \in Idx
  BY HealthGotoFacts, HealthBackupFacts DEF HealthBackup, HealthSteps

(* Making the backup the active client.                                    *)
LEMMA SwitchMoves ==
    ASSUME HealthType, NEW i \in Idx, HealthSwitch(i)
    PROVE  health[i].pc = "switch" /\ Enters(i, "list")
  BY HealthGotoFacts DEF HealthSwitch, HealthSteps

(* The steps of a replay.                                                  *)
LEMMA ListMoves ==
    ASSUME CoreType, HealthType, ActionsType, NEW i \in Idx, ReplayList(i)
    PROVE  /\ health[i].pc = "list" /\ pending' \subseteq pending
           /\ \/ pending' = {} /\ Enters(i, "wait")
              \/ pending' # {} /\ Enters(i, "replay")
           /\ overlapped' = (overlapped \/ (pending' # {} /\ \E j \in Idx \ {i} : Replaying(j)))
  <1> DEFINE h(live) == [health[i] EXCEPT !.pc = "replay", !.to = active, !.todo = live]
  <1>1. PICK live \in SUBSET pending :
           /\ health[i].pc = "list" /\ pending' = live
           /\ Health(i, IF live = {} THEN HealthWait ELSE h(live))
           /\ overlapped' = (overlapped \/ (live # {} /\ \E j \in Idx \ {i} : Replaying(j)))
    BY DEF ReplayList
  <1>2. CASE live = {}
    <2>1. Health(i, HealthWait)
      BY <1>1, <1>2
    <2>2. Enters(i, "wait")
      BY <2>1, HealthWaits
    <2> QED BY <1>1, <1>2, <2>2
  <1>3. CASE live # {}
    <2>1. health[i] \in HealthRecords
      BY DEF HealthType
    <2>2. h(live) \in HealthRecords /\ h(live).pc = "replay"
      BY <2>1 DEF HealthRecords, HealthSteps, CoreType, ActionsType
    <2>3. Health(i, h(live))
      BY <1>1, <1>3
    <2> HIDE DEF h
    <2>4. Enters(i, "replay")
      BY <2>2, <2>3, HealthSet
    <2> QED BY <1>1, <1>3, <2>4
  <1> QED BY <1>2, <1>3

(* The end of a replay.                                                    *)
LEMMA DoneMoves ==
    ASSUME HealthType, NEW i \in Idx, ReplayDone(i)
    PROVE  health[i].pc = "replay" /\ Enters(i, "wait")
  BY HealthWaits DEF ReplayDone

(* The next action cannot be read any more.                                *)
LEMMA SkipMoves ==
    ASSUME HealthType, NEW i \in Idx, ReplaySkip(i)
    PROVE  /\ health[i].pc = "replay" /\ Enters(i, "replay")
           /\ pending' \subseteq pending
  <1>1. PICK a \in health[i].todo :
           /\ health[i].pc = "replay" /\ pending' = pending \ {a}
           /\ Health(i, [health[i] EXCEPT !.todo = @ \ {a}])
    BY DEF ReplaySkip
  <1> DEFINE rest == [health[i] EXCEPT !.todo = @ \ {a}]
  <1>2. rest \in HealthRecords /\ rest.pc = "replay"
    BY <1>1 DEF HealthType, HealthRecords
  <1>3. Health(i, rest)
    BY <1>1
  <1> HIDE DEF rest
  <1> QED BY <1>1, <1>2, <1>3, HealthSet

(* Reading the next action: it is given up or sent again.                  *)
LEMMA GetMoves ==
    ASSUME HealthType, ActionsType, NEW i \in Idx, ReplayGet(i)
    PROVE  /\ health[i].pc = "replay"
           /\ \E a \in Actions \cap pending :
                 \/ Enters(i, "delete") /\ health'[i].action = a
                 \/ /\ retries[a] <= ReplayLimit /\ Enters(i, "bump")
                    /\ health'[i].action = a /\ health'[i].seen = retries[a]
  <1>1. PICK a \in health[i].todo \cap pending :
           /\ health[i].pc = "replay"
           /\ \/ ReplayGoto(i, a, "delete", 0)
              \/ retries[a] <= ReplayLimit /\ ReplayGoto(i, a, "bump", retries[a])
    BY DEF ReplayGet
  <1> DEFINE h(pc, n) ==
           [health[i] EXCEPT !.todo = @ \ {a}, !.pc = pc, !.action = a, !.seen = n]
  <1>2. health[i] \in HealthRecords
    BY DEF HealthType
  <1>3. a \in Actions \cap pending /\ retries[a] \in Nat
    BY <1>1 DEF ActionsType
  <1>4. h("delete", 0) \in HealthRecords /\ h("delete", 0).pc = "delete"
        /\ h("delete", 0).action = a
    BY <1>2, <1>3 DEF HealthRecords, HealthSteps
  <1>5. /\ h("bump", retries[a]) \in HealthRecords /\ h("bump", retries[a]).pc = "bump"
        /\ h("bump", retries[a]).action = a /\ h("bump", retries[a]).seen = retries[a]
    BY <1>2, <1>3 DEF HealthRecords, HealthSteps
  <1>6. \/ Health(i, h("delete", 0))
        \/ retries[a] <= ReplayLimit /\ Health(i, h("bump", retries[a]))
    BY <1>1 DEF ReplayGoto
  <1> HIDE DEF h
  <1>7. CASE Health(i, h("delete", 0))
    BY <1>1, <1>3, <1>4, <1>7, HealthSet
  <1>8. CASE retries[a] <= ReplayLimit /\ Health(i, h("bump", retries[a]))
    BY <1>1, <1>3, <1>5, <1>8, HealthSet
  <1> QED BY <1>6, <1>7, <1>8

(* Counting the retry.                                                     *)
LEMMA BumpMoves ==
    ASSUME HealthType, NEW i \in Idx, ReplayBump(i)
    PROVE  health[i].pc = "bump" /\ Enters(i, "send") /\ health'[i].action = health[i].action
  <1> DEFINE h == [health[i] EXCEPT !.pc = "send", !.seen = 0]
  <1>1. health[i] \in HealthRecords
    BY DEF HealthType
  <1>2. h \in HealthRecords /\ h.pc = "send" /\ h.action = health[i].action
    BY <1>1 DEF HealthRecords, HealthSteps
  <1>3. Health(i, h) /\ health[i].pc = "bump"
    BY DEF ReplayBump
  <1> HIDE DEF h
  <1> QED BY <1>2, <1>3, HealthSet

(* Sending the action.                                                     *)
LEMMA SendMoves ==
    ASSUME HealthType, NEW i \in Idx, ReplaySend(i)
    PROVE  /\ health[i].pc = "send"
           /\ \E o \in Outcomes :
                 /\ Sends(health[i].to, o)
                 /\ \/ /\ o = "answered" /\ Enters(i, "delete")
                       /\ health'[i].action = health[i].action
                    \/ o # "answered" /\ (Enters(i, "stuck") \/ Enters(i, "replay"))
                 /\ sent' = [sent EXCEPT ![health[i].action] =
                                @ + IF o \in {"unsent", "never"} THEN 0 ELSE 1]
                 /\ answered' = IF o = "answered" THEN answered \cup {health[i].action}
                                ELSE answered
  <1>1. PICK o \in Outcomes :
           /\ Sends(health[i].to, o)
           /\ Health(i, CASE o = "answered" -> [health[i] EXCEPT !.pc = "delete"]
                          [] o = "never"    -> [health[i] EXCEPT !.pc = "stuck"]
                          [] OTHER -> [health[i] EXCEPT !.pc = "replay", !.action = NoAction])
           /\ sent' = [sent EXCEPT ![health[i].action] =
                          @ + IF o \in {"unsent", "never"} THEN 0 ELSE 1]
           /\ answered' = IF o = "answered" THEN answered \cup {health[i].action} ELSE answered
    BY DEF ReplaySend
  <1> DEFINE del == [health[i] EXCEPT !.pc = "delete"]
  <1> DEFINE stuck == [health[i] EXCEPT !.pc = "stuck"]
  <1> DEFINE back == [health[i] EXCEPT !.pc = "replay", !.action = NoAction]
  <1>2. health[i] \in HealthRecords
    BY DEF HealthType
  <1>3. del \in HealthRecords /\ del.pc = "delete" /\ del.action = health[i].action
    BY <1>2, HealthRecordFacts DEF HealthSteps
  <1>4. stuck \in HealthRecords /\ stuck.pc = "stuck"
    BY <1>2, HealthRecordFacts DEF HealthSteps
  <1>5. back \in HealthRecords /\ back.pc = "replay"
    BY <1>2 DEF HealthRecords, HealthSteps
  <1>6. /\ o = "answered" => Health(i, del)
        /\ o = "never" => Health(i, stuck)
        /\ o # "answered" /\ o # "never" => Health(i, back)
    BY <1>1
  <1>7. health[i].pc = "send"
    BY DEF ReplaySend
  <1> HIDE DEF del, stuck, back
  <1>8. CASE o = "answered"
    BY <1>1, <1>3, <1>6, <1>7, <1>8, HealthSet
  <1>9. CASE o = "never"
    BY <1>1, <1>4, <1>6, <1>7, <1>9, HealthSet
  <1>10. CASE o # "answered" /\ o # "never"
    BY <1>1, <1>5, <1>6, <1>7, <1>10, HealthSet
  <1> QED BY <1>8, <1>9, <1>10

(* Deleting the action.                                                    *)
LEMMA DeleteMoves ==
    ASSUME HealthType, NEW i \in Idx, ReplayDelete(i)
    PROVE  health[i].pc = "delete" /\ Enters(i, "replay")
  <1> DEFINE h == [health[i] EXCEPT !.pc = "replay", !.action = NoAction]
  <1>1. health[i] \in HealthRecords
    BY DEF HealthType
  <1>2. h \in HealthRecords /\ h.pc = "replay"
    BY <1>1 DEF HealthRecords, HealthSteps
  <1>3. Health(i, h) /\ health[i].pc = "delete"
    BY DEF ReplayDelete
  <1> HIDE DEF h
  <1> QED BY <1>2, <1>3, HealthSet

-----------------------------------------------------------------------------
(* A caller moves to a step at which its target is a client if the step    *)
(* uses it; the others stay where they are.                                *)
CallerMoves(u) ==
    /\ UserType'
    /\ user'[u].pc \in {"switch", "resend"} => user'[u].to \in Idx
    /\ \A v \in Users \ {u} : user'[v] = user[v]

(* Assigning the record of one caller.                                     *)
LEMMA CallerSet ==
    ASSUME UserType, NEW u \in Users, NEW r \in UserRecords,
           r.pc \in {"switch", "resend"} => r.to \in Idx, UserGoto(u, r)
    PROVE  CallerMoves(u)
  <1>1. user' = [user EXCEPT ![u] = r]
    BY DEF UserGoto
  <1>2. UserType' /\ user'[u] = r /\ \A v \in Users \ {u} : user'[v] = user[v]
    BY <1>1 DEF UserType
  <1> QED BY <1>2 DEF CallerMoves

(* The caller returns.                                                     *)
LEMMA CallerIdles ==
    ASSUME UserType, NEW u \in Users, UserGoto(u, UserIdle)
    PROVE  CallerMoves(u)
  <1>1. UserIdle \in UserRecords /\ UserIdle.pc = "idle"
    BY Indices DEF UserIdle, UserRecords, UserSteps
  <1> QED BY <1>1, CallerSet

(* It comes to another step.                                               *)
LEMMA CallerGoesOn ==
    ASSUME UserType, NEW u \in Users, NEW s \in UserSteps \ {"switch", "resend"},
           UserGoto(u, [user[u] EXCEPT !.pc = s])
    PROVE  CallerMoves(u)
  <1> DEFINE r == [user[u] EXCEPT !.pc = s]
  <1>1. user[u] \in UserRecords
    BY DEF UserType
  <1>2. r \in UserRecords /\ r.pc = s
    BY <1>1 DEF UserRecords
  <1> HIDE DEF r
  <1>3. UserGoto(u, r)
    BY DEF r
  <1> QED BY <1>2, <1>3, CallerSet

(* It begins a call.                                                       *)
LEMMA CallerBegins ==
    ASSUME UserType, NEW u \in Users, NEW s \in UserSteps \ {"switch", "resend"},
           NEW i \in Idx, NEW k \in Idx \cup {NoClient},
           UserGoto(u, [pc |-> s, from |-> i, to |-> k])
    PROVE  CallerMoves(u)
  <1> DEFINE r == [pc |-> s, from |-> i, to |-> k]
  <1>1. r \in UserRecords /\ r.pc = s
    BY DEF UserRecords
  <1> HIDE DEF r
  <1>2. UserGoto(u, r)
    BY DEF r
  <1> QED BY <1>1, <1>2, CallerSet

(* Every step of a caller is such a move.                                  *)
LEMMA CallersMove ==
    ASSUME CoreType, UserType, NEW u \in Users, Reconnect(u) \/ SendAction(u) \/ UserStep(u)
    PROVE  CallerMoves(u)
  <1>1. user[u] \in UserRecords
    BY DEF UserType
  <1>2. user[u].from \in Idx /\ user[u].to \in Idx \cup {NoClient}
    BY <1>1 DEF UserRecords
  <1>3. CASE Reconnect(u)
    <2>1. UserGoto(u, [pc |-> "active", from |-> active, to |-> 0])
      BY <1>3 DEF Reconnect
    <2>2. active \in Idx /\ 0 \in Idx \cup {NoClient}
      BY Indices DEF CoreType
    <2> QED BY <2>1, <2>2, CallerBegins DEF UserSteps
  <1>4. CASE SendAction(u)
    <2>1. UserGoto(u, [pc |-> "send", from |-> active, to |-> 0])
      BY <1>4 DEF SendAction
    <2>2. active \in Idx /\ 0 \in Idx \cup {NoClient}
      BY Indices DEF CoreType
    <2> QED BY <2>1, <2>2, CallerBegins DEF UserSteps
  <1>5. CASE ReconnectActive(u)
    <2>1. PICK k \in Idx \cup {NoClient} : k = NextBackup(user[u].from, -1)
      BY NextBackupFacts
    <2>2. UserGoto(u, UserIdle) \/ UserGoto(u, [pc |-> "others", from |-> user[u].from, to |-> k])
      BY <1>5, <2>1 DEF ReconnectActive
    <2>3. CASE UserGoto(u, UserIdle)
      BY <2>3, CallerIdles
    <2>4. CASE UserGoto(u, [pc |-> "others", from |-> user[u].from, to |-> k])
      <3>1. PICK i \in Idx : i = user[u].from
        BY <1>2
      <3>2. UserGoto(u, [pc |-> "others", from |-> i, to |-> k])
        BY <2>4, <3>1
      <3> QED BY <3>2, CallerBegins DEF UserSteps
    <2> QED BY <2>2, <2>3, <2>4
  <1>6. CASE ReconnectOther(u)
    <2> DEFINE sw == [user[u] EXCEPT !.pc = "switch"]
    <2> DEFINE nx == [user[u] EXCEPT !.to = NextBackup(user[u].from, user[u].to)]
    <2>1. \/ UserGoto(u, UserIdle)
          \/ user[u].to # NoClient /\ UserGoto(u, sw)
          \/ UserGoto(u, nx)
      BY <1>6 DEF ReconnectOther
    <2>2. user[u].pc = "others"
      BY <1>6 DEF ReconnectOther
    <2>3. sw \in UserRecords /\ sw.to = user[u].to
      BY <1>1 DEF UserRecords, UserSteps
    <2>4. nx \in UserRecords /\ nx.pc = "others"
      BY <1>1, <2>2, NextBackupFacts DEF UserRecords
    <2> HIDE DEF sw, nx
    <2>5. CASE UserGoto(u, UserIdle)
      BY <2>5, CallerIdles
    <2>6. CASE user[u].to # NoClient /\ UserGoto(u, sw)
      BY <1>2, <2>3, <2>6, CallerSet
    <2>7. CASE UserGoto(u, nx)
      BY <2>4, <2>7, CallerSet
    <2> QED BY <2>1, <2>5, <2>6, <2>7
  <1>7. CASE ReconnectSwitch(u)
    BY <1>7, CallerIdles DEF ReconnectSwitch
  <1>8. CASE SendFirst(u)
    <2>1. \/ UserGoto(u, UserIdle)
          \/ UserGoto(u, [user[u] EXCEPT !.pc = "stuck"])
          \/ UserGoto(u, [user[u] EXCEPT !.pc = "record"])
      BY <1>8 DEF SendFirst
    <2> QED BY <2>1, CallerIdles, CallerGoesOn DEF UserSteps
  <1>9. CASE recordClientFailure(u)
    <2>1. UserGoto(u, [user[u] EXCEPT !.pc = "failover"])
      BY <1>9 DEF recordClientFailure
    <2> QED BY <2>1, CallerGoesOn DEF UserSteps
  <1>10. CASE tryFailover(u)
    <2> DEFINE j == First(Candidates)
    <2> DEFINE re == [user[u] EXCEPT !.pc = "resend", !.to = j]
    <2>1. \/ UserGoto(u, UserIdle)
          \/ UserGoto(u, [user[u] EXCEPT !.pc = "stuck"])
          \/ j # NoClient /\ UserGoto(u, re)
      BY <1>10 DEF tryFailover
    <2>2. CASE UserGoto(u, UserIdle)
      BY <2>2, CallerIdles
    <2>3. CASE UserGoto(u, [user[u] EXCEPT !.pc = "stuck"])
      BY <2>3, CallerGoesOn DEF UserSteps
    <2>4. CASE j # NoClient /\ UserGoto(u, re)
      <3>1. j \in Idx
        BY <2>4, CandidateFacts
      <3>2. re \in UserRecords /\ re.to = j
        BY <1>1, <3>1 DEF UserRecords, UserSteps
      <3> HIDE DEF j, re
      <3> QED BY <2>4, <3>1, <3>2, CallerSet
    <2> QED BY <2>1, <2>2, <2>3, <2>4
  <1>11. CASE SendAgain(u)
    <2>1. UserGoto(u, UserIdle) \/ UserGoto(u, [user[u] EXCEPT !.pc = "stuck"])
      BY <1>11 DEF SendAgain
    <2> QED BY <2>1, CallerIdles, CallerGoesOn DEF UserSteps
  <1> QED
    BY <1>3, <1>4, <1>5, <1>6, <1>7, <1>8, <1>9, <1>10, <1>11 DEF UserStep

-----------------------------------------------------------------------------
(* Type correctness is inductive together with what the goroutines have in *)
(* hand.                                                                   *)
LEMMA TypesInductive == Types /\ TargetIsClient /\ ActionInHand /\ [Next]_vars => Types'
  <1> SUFFICES ASSUME Types, TargetIsClient, ActionInHand, [Next]_vars PROVE Types'
    OBVIOUS
  <1> USE DEF Types
  <1>1. CASE StartBanner
    <2>1. CoreType'
      BY <1>1, Indices DEF StartBanner, CoreType, Started, mgrVars
    <2>2. RetryType'
      BY <1>1, ManagerAssumption DEF StartBanner, RetryType, RetryRecords, RetrySteps
    <2> QED BY <1>1, <2>1, <2>2, TypeFrame DEF StartBanner, goVars, mgrVars, netVars,
               actionVars
  <1>2. CASE StartNoBanner
    <2>1. CoreType'
      BY <1>2, Indices DEF StartNoBanner, CoreType, Started, mgrVars
    <2>2. RetryType'
      BY <1>2, ManagerAssumption DEF StartNoBanner, RetryType, RetryRecords, RetrySteps
    <2> QED BY <1>2, <2>1, <2>2, TypeFrame DEF StartNoBanner, goVars, mgrVars, netVars,
               actionVars
  <1>3. CASE MonitorTick
    <2>1. MonitorType'
      BY <1>3 DEF MonitorTick, MonitorType, CoreType, MonitorRecords
    <2> QED BY <1>3, <2>1, TypeFrame DEF MonitorTick, goVars, mgrVars, netVars, actionVars
  <1>4. CASE MonitorSeek
    <2>1. CoreType'
      BY <1>4 DEF MonitorSeek, CoreType, mgrVars
    <2>2. MonitorType'
      <3> DEFINE j == First({i \in Idx \ {monitor.from} : conn[i] # "down"})
      <3>1. \/ monitor' = MonitorWait
            \/ j # NoClient /\ monitor' = [monitor EXCEPT !.pc = "switch", !.to = j]
        BY <1>4 DEF MonitorSeek
      <3>2. {i \in Idx \ {monitor.from} : conn[i] # "down"} \in SUBSET Idx
        OBVIOUS
      <3>3. j \in Idx \/ j = NoClient
        BY <3>2, FirstFacts
      <3>4. MonitorWait \in MonitorRecords
        BY Indices DEF MonitorWait, MonitorRecords
      <3> HIDE DEF j
      <3> QED BY <3>1, <3>3, <3>4 DEF MonitorType, MonitorRecords
    <2>3. ReconnType'
      BY <1>4 DEF MonitorSeek, ReconnType
    <2> QED BY <1>4, <2>1, <2>2, <2>3, TypeFrame DEF MonitorSeek, goVars, mgrVars, netVars,
               actionVars
  <1>5. CASE MonitorSwitch
    <2>1. CoreType'
      BY <1>5 DEF MonitorSwitch, CoreType, TargetIsClient, mgrVars
    <2>2. MonitorType'
      BY <1>5, Indices DEF MonitorSwitch, MonitorType, MonitorWait, MonitorRecords
    <2> QED BY <1>5, <2>1, <2>2, TypeFrame DEF MonitorSwitch, goVars, mgrVars, netVars,
               actionVars
  <1>6. ASSUME NEW i \in Idx, Hang(i) PROVE Types'
    <2>1. NetType'
      BY <1>6, ManagerAssumption DEF Hang, NetType, ConnStates, netVars
    <2> QED BY <1>6, <2>1, TypeFrame DEF Hang, goVars, mgrVars, netVars, actionVars
  <1>36. ASSUME NEW i \in Idx, ConnectStuck(i) PROVE Types'
    <2>1. NetType'
      BY <1>36, ManagerAssumption DEF ConnectStuck, NetType, ConnStates, netVars
    <2> QED BY <1>36, <2>1, TypeFrame DEF ConnectStuck, goVars, mgrVars, netVars, actionVars
  <1>7. ASSUME NEW i \in Idx, ReadDeadline(i) PROVE Types'
    <2>1. NetType'
      BY <1>7 DEF ReadDeadline, NetType, ConnStates, netVars
    <2> QED BY <1>7, <2>1, TypeFrame DEF ReadDeadline, goVars, mgrVars, netVars, actionVars
  <1>8. ASSUME NEW i \in Idx, Break(i) PROVE Types'
    <2>1. NetType'
      BY <1>8, ManagerAssumption DEF Break, Health, HealthGoto, HealthBackupFrom, NetType,
         ConnStates, netVars
    <2>2. HealthType'
      BY <1>8, BreakMoves, TypeFrame DEF Enters
    <2> QED BY <1>8, <2>1, <2>2, TypeFrame DEF Break, Health, HealthGoto, HealthBackupFrom,
               goVars, mgrVars, netVars, actionVars
  <1>9. ASSUME NEW i \in Idx, BackgroundConnect(i) PROVE Types'
    <2>1. CoreType'
      BY <1>9 DEF BackgroundConnect, CoreType, mgrVars
    <2>2. NetType'
      BY <1>9, NetMoves DEF BackgroundConnect, netVars
    <2> QED BY <1>9, <2>1, <2>2, TypeFrame DEF BackgroundConnect, goVars, mgrVars, netVars,
               actionVars
  <1>10. ASSUME NEW i \in Idx, RetryDial(i) PROVE Types'
    <2>1. NetType'
      BY <1>10, NetMoves, TypeFrame DEF RetryDial, RetryGoto, ConnectOk, ConnectFails,
         netVars
    <2>2. RetryType'
      <3>1. retry[i] \in RetryRecords /\ RetryOff \in RetryRecords
        BY ManagerAssumption DEF RetryType, RetryOff, RetryRecords, RetrySteps
      <3>2. [retry[i] EXCEPT !.pc = "check"] \in RetryRecords
        BY <3>1 DEF RetryRecords, RetrySteps
      <3>3. retry[i].n < MaxRetries => [retry[i] EXCEPT !.n = @ + 1] \in RetryRecords
        BY <3>1, ManagerAssumption DEF RetryRecords
      <3>4. PICK r \in RetryRecords : retry' = [retry EXCEPT ![i] = r]
        <4>1. \/ retry' = [retry EXCEPT ![i] = RetryOff]
              \/ retry' = [retry EXCEPT ![i] = [retry[i] EXCEPT !.pc = "check"]]
              \/ /\ retry[i].n < MaxRetries
                 /\ retry' = [retry EXCEPT ![i] = [retry[i] EXCEPT !.n = @ + 1]]
          BY <1>10 DEF RetryDial, RetryGoto
        <4> QED BY <3>1, <3>2, <3>3, <4>1
      <3> QED BY <3>4 DEF RetryType
    <2> QED BY <1>10, <2>1, <2>2, TypeFrame DEF RetryDial, RetryGoto, ConnectOk,
               ConnectFails, goVars, mgrVars, netVars, actionVars
  <1>11. ASSUME NEW i \in Idx, RetryCheck(i) PROVE Types'
    <2>1. RetryType'
      <3>1. retry[i] \in RetryRecords /\ RetryOff \in RetryRecords
        BY ManagerAssumption DEF RetryType, RetryOff, RetryRecords, RetrySteps
      <3>2. [retry[i] EXCEPT !.pc = "switch"] \in RetryRecords
        BY <3>1 DEF RetryRecords, RetrySteps
      <3>3. PICK r \in RetryRecords : retry' = [retry EXCEPT ![i] = r]
        BY <1>11, <3>1, <3>2 DEF RetryCheck, RetryGoto
      <3> QED BY <3>3 DEF RetryType
    <2> QED BY <1>11, <2>1, TypeFrame DEF RetryCheck, RetryGoto, goVars, mgrVars, netVars,
               actionVars
  <1>12. ASSUME NEW i \in Idx, RetrySwitch(i) PROVE Types'
    <2>1. CoreType'
      BY <1>12 DEF RetrySwitch, RetryGoto, CoreType, mgrVars
    <2>2. RetryType'
      BY <1>12, ManagerAssumption DEF RetrySwitch, RetryGoto, RetryType, RetryRecords,
         RetrySteps, RetryOff
    <2> QED BY <1>12, <2>1, <2>2, TypeFrame DEF RetrySwitch, RetryGoto, goVars, mgrVars,
               netVars, actionVars
  <1>13. ASSUME NEW i \in Idx, HealthPing(i) PROVE Types'
    <2>1. HealthType'
      BY <1>13, PingMoves DEF Enters
    <2> QED BY <1>13, <2>1, TypeFrame DEF HealthPing, Health, HealthGoto, goVars, mgrVars,
               netVars, actionVars
  <1>14. ASSUME NEW i \in Idx, HealthReconnect(i) PROVE Types'
    <2>1. NetType'
      BY <1>14, NetMoves DEF HealthReconnect, Health, HealthGoto, HealthBackupFrom, netVars
    <2>2. HealthType'
      BY <1>14, ReconnectMoves DEF Enters
    <2> QED BY <1>14, <2>1, <2>2, TypeFrame DEF HealthReconnect, Health, HealthGoto,
               HealthBackupFrom, goVars, mgrVars, netVars, actionVars
  <1>15. ASSUME NEW i \in Idx, HealthBackup(i) PROVE Types'
    <2>1. NetType'
      BY <1>15, NetMoves DEF HealthBackup, Health, HealthGoto, HealthBackupFrom, netVars
    <2>2. HealthType'
      BY <1>15, BackupMoves DEF Enters
    <2> QED BY <1>15, <2>1, <2>2, TypeFrame DEF HealthBackup, Health, HealthGoto,
               HealthBackupFrom, goVars, mgrVars, netVars, actionVars
  <1>16. ASSUME NEW i \in Idx, HealthSwitch(i) PROVE Types'
    <2>1. CoreType'
      BY <1>16 DEF HealthSwitch, Health, HealthGoto, CoreType, TargetIsClient, mgrVars
    <2>2. HealthType'
      BY <1>16, SwitchMoves DEF Enters
    <2> QED BY <1>16, <2>1, <2>2, TypeFrame DEF HealthSwitch, Health, HealthGoto, goVars,
               mgrVars, netVars, actionVars
  <1>17. ASSUME NEW i \in Idx, ReplayList(i) PROVE Types'
    <2>1. HealthType'
      BY <1>17, ListMoves DEF Enters
    <2>2. ActionsType'
      <3>1. pending' \subseteq pending /\ overlapped' \in BOOLEAN
        BY <1>17, ListMoves
      <3> QED BY <1>17, <3>1 DEF ReplayList, ActionsType
    <2> QED BY <1>17, <2>1, <2>2, TypeFrame DEF ReplayList, Health, HealthGoto, goVars,
               mgrVars, netVars, actionVars
  <1>18. ASSUME NEW i \in Idx, ReplayGet(i) PROVE Types'
    <2>1. HealthType'
      BY <1>18, GetMoves DEF Enters
    <2> QED BY <1>18, <2>1, TypeFrame DEF ReplayGet, ReplayGoto, Health, goVars, mgrVars,
               netVars, actionVars
  <1>37. ASSUME NEW i \in Idx, ReplaySkip(i) PROVE Types'
    <2>1. HealthType'
      BY <1>37, SkipMoves DEF Enters
    <2>2. ActionsType'
      BY <1>37, SkipMoves DEF ReplaySkip, ActionsType
    <2> QED BY <1>37, <2>1, <2>2, TypeFrame DEF ReplaySkip, Health, goVars, mgrVars,
               netVars, actionVars
  <1>19. ASSUME NEW i \in Idx, ReplayBump(i) PROVE Types'
    <2>1. HealthType'
      BY <1>19, BumpMoves DEF Enters
    <2>2. ActionsType'
      <3>1. health[i].pc = "bump" /\ health[i].action \in Actions
        BY <1>19 DEF ReplayBump, ActionInHand
      <3>2. PICK n \in {retries[health[i].action], health[i].seen} :
               retries' = [retries EXCEPT ![health[i].action] = n + 1]
        BY <1>19 DEF ReplayBump
      <3>3. health[i].seen \in Nat
        BY DEF HealthType, HealthRecords
      <3>4. n \in Nat
        BY <3>1, <3>2, <3>3 DEF ActionsType
      <3>5. n + 1 \in Nat
        BY <3>4
      <3>6. retries' \in [Actions -> Nat]
        BY <3>2, <3>5 DEF ActionsType
      <3> QED BY <1>19, <3>1, <3>6 DEF ReplayBump, ActionsType
    <2> QED BY <1>19, <2>1, <2>2, TypeFrame DEF ReplayBump, Health, HealthGoto, goVars,
               mgrVars, netVars, actionVars
  <1>20. ASSUME NEW i \in Idx, ReplaySend(i) PROVE Types'
    <2>1. NetType'
      BY <1>20, NetMoves DEF ReplaySend, Health, HealthGoto, netVars
    <2>2. HealthType'
      BY <1>20, SendMoves DEF Enters
    <2>3. ActionsType'
      <3>1. health[i].pc = "send" /\ health[i].action \in Actions
        BY <1>20 DEF ReplaySend, ActionInHand
      <3>2. PICK o \in Outcomes :
               /\ sent' = [sent EXCEPT ![health[i].action] =
                              @ + IF o \in {"unsent", "never"} THEN 0 ELSE 1]
               /\ answered' = IF o = "answered" THEN answered \cup {health[i].action}
                              ELSE answered
        BY <1>20, SendMoves
      <3>3. sent' \in [Actions -> Nat]
        BY <3>1, <3>2 DEF ActionsType
      <3>4. answered' \in SUBSET Actions
        BY <3>1, <3>2 DEF ActionsType
      <3> QED BY <1>20, <3>3, <3>4 DEF ReplaySend, ActionsType
    <2> QED BY <1>20, <2>1, <2>2, <2>3, TypeFrame DEF ReplaySend, Health, HealthGoto,
               goVars, mgrVars, netVars, actionVars
  <1>21. ASSUME NEW i \in Idx, ReplayDelete(i) PROVE Types'
    <2>1. HealthType'
      BY <1>21, DeleteMoves DEF Enters
    <2>2. ActionsType'
      BY <1>21 DEF ReplayDelete, Health, HealthGoto, ActionsType
    <2> QED BY <1>21, <2>1, <2>2, TypeFrame DEF ReplayDelete, Health, HealthGoto, goVars,
               mgrVars, netVars, actionVars
  <1>22. ASSUME NEW i \in Idx, ReplayDone(i) PROVE Types'
    <2>1. HealthType'
      BY <1>22, DoneMoves DEF Enters
    <2> QED BY <1>22, <2>1, TypeFrame DEF ReplayDone, Health, HealthGoto, goVars, mgrVars,
               netVars, actionVars
  <1>23. ASSUME NEW i \in Idx, ReconnDial(i) PROVE Types'
    <2>1. NetType'
      BY <1>23, NetMoves DEF ReconnDial, Reconn, netVars
    <2>2. ReconnType'
      BY <1>23 DEF ReconnDial, Reconn, ReconnType
    <2> QED BY <1>23, <2>1, <2>2, TypeFrame DEF ReconnDial, Reconn, goVars, mgrVars,
               netVars, actionVars
  <1>24. ASSUME NEW i \in Idx, ReconnTest(i) PROVE Types'
    <2>1. ReconnType'
      BY <1>24 DEF ReconnTest, Reconn, ReconnType
    <2> QED BY <1>24, <2>1, TypeFrame DEF ReconnTest, Reconn, goVars, mgrVars, netVars,
               actionVars
  <1>25. ASSUME NEW i \in Idx, ReconnSet(i) PROVE Types'
    <2>1. CoreType'
      BY <1>25 DEF ReconnSet, Reconn, CoreType, mgrVars
    <2>2. ReconnType'
      BY <1>25 DEF ReconnSet, Reconn, ReconnType
    <2> QED BY <1>25, <2>1, <2>2, TypeFrame DEF ReconnSet, Reconn, goVars, mgrVars, netVars,
               actionVars
  <1>26. ASSUME NEW u \in Users, Reconnect(u) PROVE Types'
    <2>1. UserType'
      BY <1>26, CallersMove DEF CallerMoves
    <2> QED BY <1>26, <2>1, TypeFrame DEF Reconnect, UserGoto, goVars, mgrVars, netVars,
               actionVars
  <1>27. ASSUME NEW u \in Users, SendAction(u) PROVE Types'
    <2>1. UserType'
      BY <1>27, CallersMove DEF CallerMoves
    <2> QED BY <1>27, <2>1, TypeFrame DEF SendAction, UserGoto, goVars, mgrVars, netVars,
               actionVars
  <1>28. ASSUME NEW u \in Users, ReconnectActive(u) PROVE Types'
    <2>1. NetType'
      BY <1>28, NetMoves DEF ReconnectActive, UserGoto, netVars
    <2>2. UserType'
      BY <1>28, CallersMove DEF CallerMoves, UserStep
    <2> QED BY <1>28, <2>1, <2>2, TypeFrame DEF ReconnectActive, UserGoto, goVars, mgrVars,
               netVars, actionVars
  <1>29. ASSUME NEW u \in Users, ReconnectOther(u) PROVE Types'
    <2>1. NetType'
      BY <1>29, NetMoves, TypeFrame DEF ReconnectOther, UserGoto, netVars
    <2>2. UserType'
      BY <1>29, CallersMove DEF CallerMoves, UserStep
    <2> QED BY <1>29, <2>1, <2>2, TypeFrame DEF ReconnectOther, UserGoto, goVars, mgrVars,
               netVars, actionVars
  <1>30. ASSUME NEW u \in Users, ReconnectSwitch(u) PROVE Types'
    <2>1. CoreType'
      BY <1>30 DEF ReconnectSwitch, UserGoto, CoreType, TargetIsClient, mgrVars
    <2>2. UserType'
      BY <1>30, CallersMove DEF CallerMoves, UserStep
    <2> QED BY <1>30, <2>1, <2>2, TypeFrame DEF ReconnectSwitch, UserGoto, goVars, mgrVars,
               netVars, actionVars
  <1>31. ASSUME NEW u \in Users, SendFirst(u) PROVE Types'
    <2>1. NetType'
      BY <1>31, NetMoves DEF SendFirst, UserGoto, netVars
    <2>2. UserType'
      BY <1>31, CallersMove DEF CallerMoves, UserStep
    <2> QED BY <1>31, <2>1, <2>2, TypeFrame DEF SendFirst, UserGoto, goVars, mgrVars,
               netVars, actionVars
  <1>32. ASSUME NEW u \in Users, recordClientFailure(u) PROVE Types'
    <2>1. CoreType'
      <3>1. user[u].from \in Idx
        BY DEF UserType, UserRecords
      <3>2. PICK i \in Idx : i = user[u].from
        BY <3>1
      <3>3. PICK n : n = IF Healthy(i) THEN failCount[i] + 1 ELSE failCount[i]
        OBVIOUS
      <3>4. failCount' = [failCount EXCEPT ![i] = n]
        BY <1>32, <3>2, <3>3 DEF recordClientFailure
      <3>5. n \in 0..FailThreshold
        BY <3>3, ManagerAssumption DEF CoreType, Healthy
      <3>6. failCount' \in [Idx -> 0..FailThreshold]
        BY <3>4, <3>5 DEF CoreType
      <3> QED BY <1>32, <3>6 DEF recordClientFailure, UserGoto, CoreType
    <2>2. UserType'
      BY <1>32, CallersMove DEF CallerMoves, UserStep
    <2> QED BY <1>32, <2>1, <2>2, TypeFrame DEF recordClientFailure, UserGoto, goVars,
               mgrVars, netVars, actionVars
  <1>33. ASSUME NEW u \in Users, tryFailover(u) PROVE Types'
    <2>1. CoreType'
      BY <1>33, CandidateFacts DEF tryFailover, UserGoto, CoreType, mgrVars
    <2>2. UserType'
      BY <1>33, CallersMove DEF CallerMoves, UserStep
    <2> QED BY <1>33, <2>1, <2>2, TypeFrame DEF tryFailover, UserGoto, goVars, mgrVars,
               netVars, actionVars
  <1>34. ASSUME NEW u \in Users, SendAgain(u) PROVE Types'
    <2>1. NetType'
      BY <1>34, NetMoves DEF SendAgain, UserGoto, netVars
    <2>2. UserType'
      BY <1>34, CallersMove DEF CallerMoves, UserStep
    <2> QED BY <1>34, <2>1, <2>2, TypeFrame DEF SendAgain, UserGoto, goVars, mgrVars,
               netVars, actionVars
  <1>35. CASE UNCHANGED vars
    BY <1>35, TypeFrame DEF vars, goVars, mgrVars, netVars, actionVars
  <1> QED
    BY <1>1, <1>2, <1>3, <1>4, <1>5, <1>6, <1>7, <1>8, <1>9, <1>10, <1>11, <1>12, <1>13,
       <1>14, <1>15, <1>16, <1>17, <1>18, <1>19, <1>20, <1>21, <1>22, <1>23, <1>24, <1>25,
       <1>26, <1>27, <1>28, <1>29, <1>30, <1>31, <1>32, <1>33, <1>34, <1>35, <1>36, <1>37
    DEF Next, MonitorStep, RetryStep, HealthStep, ReconnStep, UserStep

-----------------------------------------------------------------------------
(* What a step means for the health goroutines and the actions: nothing, a *)
(* step of a goroutine that replays nothing, or a step of a replay.        *)
Quiet(i) ==
    /\ health[i].pc \in {"wait", "reconnect", "backup", "switch"}
    /\ \E s \in {"wait", "reconnect", "backup", "switch", "list", "stuck"} : Enters(i, s)
    /\ health'[i].pc \in {"backup", "switch"} => health'[i].to \in Idx
    /\ UNCHANGED actionVars

ReplayStep(i) ==
    \/ ReplayList(i) \/ ReplaySkip(i) \/ ReplayGet(i) \/ ReplayBump(i) \/ ReplaySend(i)
    \/ ReplayDelete(i) \/ ReplayDone(i)

(* Every step is one of these.                                             *)
LEMMA HealthCases ==
    ASSUME Types, TargetIsClient, [Next]_vars
    PROVE  \/ UNCHANGED <<health, actionVars>>
           \/ \E i \in Idx : Quiet(i) \/ ReplayStep(i)
  <1> DEFINE Goal == \/ UNCHANGED <<health, actionVars>>
                     \/ \E i \in Idx : Quiet(i) \/ ReplayStep(i)
  <1> USE DEF Types
  <1>1. CASE StartBanner
    BY <1>1 DEF StartBanner, goVars
  <1>2. CASE StartNoBanner
    BY <1>2 DEF StartNoBanner, goVars
  <1>3. CASE MonitorTick
    BY <1>3 DEF MonitorTick, goVars
  <1>4. CASE MonitorSeek
    BY <1>4 DEF MonitorSeek, goVars
  <1>5. CASE MonitorSwitch
    BY <1>5 DEF MonitorSwitch, goVars
  <1>6. ASSUME NEW i \in Idx, Hang(i) PROVE Goal
    BY <1>6 DEF Hang, goVars
  <1>31. ASSUME NEW i \in Idx, ConnectStuck(i) PROVE Goal
    BY <1>31 DEF ConnectStuck, goVars
  <1>7. ASSUME NEW i \in Idx, ReadDeadline(i) PROVE Goal
    BY <1>7 DEF ReadDeadline, goVars
  <1>8. ASSUME NEW i \in Idx, Break(i) PROVE Goal
    <2>1. UNCHANGED actionVars
      BY <1>8 DEF Break
    <2>2. UNCHANGED health \/ Quiet(i)
      BY <1>8, <2>1, BreakMoves DEF Quiet, Enters
    <2> QED BY <2>1, <2>2
  <1>9. ASSUME NEW i \in Idx, BackgroundConnect(i) PROVE Goal
    BY <1>9 DEF BackgroundConnect, goVars
  <1>10. ASSUME NEW i \in Idx, RetryDial(i) PROVE Goal
    BY <1>10 DEF RetryDial, RetryGoto, ConnectOk, ConnectFails, goVars
  <1>11. ASSUME NEW i \in Idx, RetryCheck(i) PROVE Goal
    BY <1>11 DEF RetryCheck, RetryGoto, goVars
  <1>12. ASSUME NEW i \in Idx, RetrySwitch(i) PROVE Goal
    BY <1>12 DEF RetrySwitch, RetryGoto, goVars
  <1>13. ASSUME NEW i \in Idx, HealthPing(i) PROVE Goal
    <2>1. UNCHANGED actionVars
      BY <1>13 DEF HealthPing
    <2>2. Quiet(i)
      BY <1>13, <2>1, PingMoves DEF Quiet, Enters
    <2> QED BY <2>2
  <1>14. ASSUME NEW i \in Idx, HealthReconnect(i) PROVE Goal
    <2>1. UNCHANGED actionVars
      BY <1>14 DEF HealthReconnect
    <2>2. Quiet(i)
      BY <1>14, <2>1, ReconnectMoves DEF Quiet, Enters
    <2> QED BY <2>2
  <1>15. ASSUME NEW i \in Idx, HealthBackup(i) PROVE Goal
    <2>1. UNCHANGED actionVars
      BY <1>15 DEF HealthBackup
    <2>2. Quiet(i)
      BY <1>15, <2>1, BackupMoves DEF Quiet, Enters, TargetIsClient
    <2> QED BY <2>2
  <1>16. ASSUME NEW i \in Idx, HealthSwitch(i) PROVE Goal
    <2>1. UNCHANGED actionVars
      BY <1>16 DEF HealthSwitch
    <2>2. Quiet(i)
      BY <1>16, <2>1, SwitchMoves DEF Quiet, Enters
    <2> QED BY <2>2
  <1>17. ASSUME NEW i \in Idx, ReconnDial(i) PROVE Goal
    BY <1>17 DEF ReconnDial, Reconn, goVars
  <1>18. ASSUME NEW i \in Idx, ReconnTest(i) PROVE Goal
    BY <1>18 DEF ReconnTest, Reconn, goVars
  <1>19. ASSUME NEW i \in Idx, ReconnSet(i) PROVE Goal
    BY <1>19 DEF ReconnSet, Reconn, goVars
  <1>20. ASSUME NEW u \in Users, Reconnect(u) PROVE Goal
    BY <1>20 DEF Reconnect, UserGoto, goVars
  <1>21. ASSUME NEW u \in Users, SendAction(u) PROVE Goal
    BY <1>21 DEF SendAction, UserGoto, goVars
  <1>22. ASSUME NEW u \in Users, ReconnectActive(u) PROVE Goal
    BY <1>22 DEF ReconnectActive, UserGoto, goVars
  <1>23. ASSUME NEW u \in Users, ReconnectOther(u) PROVE Goal
    BY <1>23 DEF ReconnectOther, UserGoto, goVars
  <1>24. ASSUME NEW u \in Users, ReconnectSwitch(u) PROVE Goal
    BY <1>24 DEF ReconnectSwitch, UserGoto, goVars
  <1>25. ASSUME NEW u \in Users, SendFirst(u) PROVE Goal
    BY <1>25 DEF SendFirst, UserGoto, goVars
  <1>26. ASSUME NEW u \in Users, recordClientFailure(u) PROVE Goal
    BY <1>26 DEF recordClientFailure, UserGoto, goVars
  <1>27. ASSUME NEW u \in Users, tryFailover(u) PROVE Goal
    BY <1>27 DEF tryFailover, UserGoto, goVars
  <1>28. ASSUME NEW u \in Users, SendAgain(u) PROVE Goal
    BY <1>28 DEF SendAgain, UserGoto, goVars
  <1>29. ASSUME NEW i \in Idx, ReplayStep(i) PROVE Goal
    BY <1>29
  <1>30. CASE UNCHANGED vars
    BY <1>30 DEF vars, goVars
  <1> QED
    BY <1>1, <1>2, <1>3, <1>4, <1>5, <1>6, <1>7, <1>8, <1>9, <1>10, <1>11, <1>12, <1>13,
       <1>14, <1>15, <1>16, <1>17, <1>18, <1>19, <1>20, <1>21, <1>22, <1>23, <1>24, <1>25,
       <1>26, <1>27, <1>28, <1>29, <1>30, <1>31
    DEF Next, MonitorStep, RetryStep, HealthStep, ReconnStep, UserStep, ReplayStep

(* The monitor moves by its own steps only, and so do the callers.         *)
LEMMA OneGoroutineMoves ==
    ASSUME [Next]_vars
    PROVE  /\ UNCHANGED monitor \/ MonitorStep
           /\ UNCHANGED user \/ \E u \in Users : Reconnect(u) \/ SendAction(u) \/ UserStep(u)
  <1>1. ASSUME StartBanner PROVE UNCHANGED <<monitor, user>>
    BY <1>1 DEF StartBanner, goVars
  <1>2. ASSUME StartNoBanner PROVE UNCHANGED <<monitor, user>>
    BY <1>2 DEF StartNoBanner, goVars
  <1>3. ASSUME NEW i \in Idx, Hang(i) PROVE UNCHANGED <<monitor, user>>
    BY <1>3 DEF Hang, goVars
  <1>26. ASSUME NEW i \in Idx, ConnectStuck(i) PROVE UNCHANGED <<monitor, user>>
    BY <1>26 DEF ConnectStuck, goVars
  <1>4. ASSUME NEW i \in Idx, ReadDeadline(i) PROVE UNCHANGED <<monitor, user>>
    BY <1>4 DEF ReadDeadline, goVars
  <1>5. ASSUME NEW i \in Idx, Break(i) PROVE UNCHANGED <<monitor, user>>
    BY <1>5 DEF Break, HealthGoto, Health, goVars
  <1>6. ASSUME NEW i \in Idx, BackgroundConnect(i) PROVE UNCHANGED <<monitor, user>>
    BY <1>6 DEF BackgroundConnect, goVars
  <1>7. ASSUME NEW i \in Idx, RetryDial(i) PROVE UNCHANGED <<monitor, user>>
    BY <1>7 DEF RetryDial, RetryGoto, ConnectOk, ConnectFails, goVars
  <1>8. ASSUME NEW i \in Idx, RetryCheck(i) PROVE UNCHANGED <<monitor, user>>
    BY <1>8 DEF RetryCheck, RetryGoto, goVars
  <1>9. ASSUME NEW i \in Idx, RetrySwitch(i) PROVE UNCHANGED <<monitor, user>>
    BY <1>9 DEF RetrySwitch, RetryGoto, goVars
  <1>10. ASSUME NEW i \in Idx, HealthPing(i) PROVE UNCHANGED <<monitor, user>>
    BY <1>10 DEF HealthPing, Health, HealthGoto, goVars
  <1>11. ASSUME NEW i \in Idx, HealthReconnect(i) PROVE UNCHANGED <<monitor, user>>
    BY <1>11 DEF HealthReconnect, Health, HealthGoto, HealthBackupFrom, goVars
  <1>12. ASSUME NEW i \in Idx, HealthBackup(i) PROVE UNCHANGED <<monitor, user>>
    BY <1>12 DEF HealthBackup, Health, HealthGoto, HealthBackupFrom, goVars
  <1>13. ASSUME NEW i \in Idx, HealthSwitch(i) PROVE UNCHANGED <<monitor, user>>
    BY <1>13 DEF HealthSwitch, Health, HealthGoto, goVars
  <1>14. ASSUME NEW i \in Idx, ReplayList(i) PROVE UNCHANGED <<monitor, user>>
    BY <1>14 DEF ReplayList, Health, HealthGoto, goVars
  <1>15. ASSUME NEW i \in Idx, ReplayGet(i) PROVE UNCHANGED <<monitor, user>>
    BY <1>15 DEF ReplayGet, ReplayGoto, Health, goVars
  <1>27. ASSUME NEW i \in Idx, ReplaySkip(i) PROVE UNCHANGED <<monitor, user>>
    BY <1>27 DEF ReplaySkip, Health, goVars
  <1>16. ASSUME NEW i \in Idx, ReplayBump(i) PROVE UNCHANGED <<monitor, user>>
    BY <1>16 DEF ReplayBump, Health, HealthGoto, goVars
  <1>17. ASSUME NEW i \in Idx, ReplaySend(i) PROVE UNCHANGED <<monitor, user>>
    BY <1>17 DEF ReplaySend, Health, HealthGoto, goVars
  <1>18. ASSUME NEW i \in Idx, ReplayDelete(i) PROVE UNCHANGED <<monitor, user>>
    BY <1>18 DEF ReplayDelete, Health, HealthGoto, goVars
  <1>19. ASSUME NEW i \in Idx, ReplayDone(i) PROVE UNCHANGED <<monitor, user>>
    BY <1>19 DEF ReplayDone, Health, HealthGoto, goVars
  <1>20. ASSUME NEW i \in Idx, ReconnDial(i) PROVE UNCHANGED <<monitor, user>>
    BY <1>20 DEF ReconnDial, Reconn, goVars
  <1>21. ASSUME NEW i \in Idx, ReconnTest(i) PROVE UNCHANGED <<monitor, user>>
    BY <1>21 DEF ReconnTest, Reconn, goVars
  <1>22. ASSUME NEW i \in Idx, ReconnSet(i) PROVE UNCHANGED <<monitor, user>>
    BY <1>22 DEF ReconnSet, Reconn, goVars
  <1>23. ASSUME MonitorStep PROVE UNCHANGED user
    BY <1>23 DEF MonitorStep, MonitorTick, MonitorSeek, MonitorSwitch
  <1>24. ASSUME NEW u \in Users, Reconnect(u) \/ SendAction(u) \/ UserStep(u)
        PROVE  UNCHANGED monitor
    BY <1>24 DEF UserStep, Reconnect, SendAction, ReconnectActive, ReconnectOther,
       ReconnectSwitch, SendFirst, recordClientFailure, tryFailover, SendAgain, UserGoto
  <1>25. CASE UNCHANGED vars
    BY <1>25 DEF vars, goVars
  <1> QED
    BY <1>1, <1>2, <1>3, <1>4, <1>5, <1>6, <1>7, <1>8, <1>9, <1>10, <1>11, <1>12, <1>13,
       <1>14, <1>15, <1>16, <1>17, <1>18, <1>19, <1>20, <1>21, <1>22, <1>23, <1>24, <1>25,
       <1>26, <1>27
    DEF Next, RetryStep, HealthStep, ReconnStep

(* What is about to be written to activeIdx stays a client.                *)
LEMMA TargetInductive == Types /\ TargetIsClient /\ [Next]_vars => TargetIsClient'
  <1> SUFFICES ASSUME Types, TargetIsClient, [Next]_vars PROVE TargetIsClient'
    OBVIOUS
  <1>1. ASSUME NEW j \in Idx, health'[j].pc \in {"backup", "switch"} PROVE health'[j].to \in Idx
    <2>1. CASE UNCHANGED health
      BY <1>1, <2>1 DEF TargetIsClient
    <2>2. ASSUME NEW i \in Idx, Quiet(i) PROVE health'[j].to \in Idx
      <3>1. j # i => health'[j] = health[j]
        BY <2>2 DEF Quiet, Enters
      <3> QED BY <1>1, <2>2, <3>1 DEF Quiet, TargetIsClient
    <2>3. ASSUME NEW i \in Idx, ReplayStep(i) PROVE health'[j].to \in Idx
      <3>1. health'[i].pc \notin {"backup", "switch"} /\ (j # i => health'[j] = health[j])
        BY <2>3, ListMoves, SkipMoves, GetMoves, BumpMoves, SendMoves, DeleteMoves, DoneMoves
           DEF ReplayStep, Types, Enters
      <3> QED BY <1>1, <3>1 DEF TargetIsClient
    <2> QED BY <2>1, <2>2, <2>3, HealthCases
  <1>2. monitor'.pc = "switch" => monitor'.to \in Idx
    <2>1. CASE UNCHANGED monitor
      BY <2>1 DEF TargetIsClient
    <2>2. CASE MonitorTick
      <3>1. monitor'.pc = "seek"
        BY <2>2 DEF MonitorTick, Types, MonitorType, MonitorRecords
      <3> QED BY <3>1
    <2>3. CASE MonitorSeek
      <3> DEFINE j == First({i \in Idx \ {monitor.from} : conn[i] # "down"})
      <3>1. \/ monitor' = MonitorWait
            \/ j # NoClient /\ monitor' = [monitor EXCEPT !.pc = "switch", !.to = j]
        BY <2>3 DEF MonitorSeek
      <3>2. {i \in Idx \ {monitor.from} : conn[i] # "down"} \in SUBSET Idx
        OBVIOUS
      <3>3. j \in Idx \/ j = NoClient
        BY <3>2, FirstFacts
      <3> HIDE DEF j
      <3>4. CASE monitor' = MonitorWait
        BY <3>4 DEF MonitorWait
      <3>5. CASE j # NoClient /\ monitor' = [monitor EXCEPT !.pc = "switch", !.to = j]
        <4>1. monitor \in MonitorRecords
          BY DEF Types, MonitorType
        <4>2. monitor'.to = j
          BY <3>5, <4>1 DEF MonitorRecords
        <4> QED BY <3>3, <3>5, <4>2
      <3> QED BY <3>1, <3>4, <3>5
    <2>4. CASE MonitorSwitch
      BY <2>4 DEF MonitorSwitch, MonitorWait
    <2> QED BY <2>1, <2>2, <2>3, <2>4, OneGoroutineMoves DEF MonitorStep
  <1>3. ASSUME NEW v \in Users, user'[v].pc \in {"switch", "resend"} PROVE user'[v].to \in Idx
    <2>1. CASE UNCHANGED user
      BY <1>3, <2>1 DEF TargetIsClient
    <2>2. ASSUME NEW u \in Users, Reconnect(u) \/ SendAction(u) \/ UserStep(u)
          PROVE  user'[v].to \in Idx
      <3>1. CallerMoves(u)
        BY <2>2, CallersMove DEF Types
      <3>2. v # u => user'[v] = user[v]
        BY <3>1 DEF CallerMoves
      <3> QED BY <1>3, <3>1, <3>2 DEF CallerMoves, TargetIsClient
    <2> QED BY <2>1, <2>2, OneGoroutineMoves
  <1> QED BY <1>1, <1>2, <1>3 DEF TargetIsClient

-----------------------------------------------------------------------------
(* What makes replays bounded, but for the types.                          *)
Replays ==
    /\ ActionInHand /\ OverlapSeen
    /\ SentIsCounted /\ BumpIsFresh /\ SendIsCounted /\ AnsweredIsDeleted

(* While replays do not overlap, a goroutine that replays is the only one. *)
LEMMA OnlyReplay ==
    ASSUME OverlapSeen, ~ overlapped, NEW i \in Idx, Replaying(i), NEW j \in Idx, j # i
    PROVE  health[j].pc \notin {"replay", "bump", "send", "delete"}
  BY DEF OverlapSeen, Replaying

(* A step of a goroutine before or after its replay.                       *)
LEMMA QuietKeeps ==
    ASSUME HealthType, Replays, NEW i \in Idx, Quiet(i)
    PROVE  Replays'
  <1>1. /\ health[i].pc \notin {"replay", "bump", "send", "delete"}
        /\ health'[i].pc \notin {"replay", "bump", "send", "delete"}
        /\ \A j \in Idx : j # i => health'[j] = health[j]
        /\ UNCHANGED <<pending, retries, sent, answered, overlapped>>
    BY DEF Quiet, Enters, actionVars
  <1>2. ActionInHand'
    BY <1>1 DEF Replays, ActionInHand
  <1>3. OverlapSeen'
    BY <1>1 DEF Replays, OverlapSeen, Replaying
  <1>4. SentIsCounted'
    BY <1>1 DEF Replays, SentIsCounted
  <1>5. BumpIsFresh' /\ SendIsCounted'
    BY <1>1 DEF Replays, BumpIsFresh, SendIsCounted
  <1>6. AnsweredIsDeleted'
    BY <1>1 DEF Replays, AnsweredIsDeleted
  <1> QED BY <1>2, <1>3, <1>4, <1>5, <1>6 DEF Replays

(* Listing the actions begins a replay, and shows whether it is alone.     *)
LEMMA ListKeeps ==
    ASSUME CoreType, HealthType, ActionsType, Replays, NEW i \in Idx, ReplayList(i)
    PROVE  Replays'
  <1>1. /\ health[i].pc = "list"
        /\ health'[i].pc \in {"wait", "replay"}
        /\ pending' = {} => health'[i].pc = "wait"
        /\ \A j \in Idx : j # i => health'[j] = health[j]
    BY ListMoves DEF Enters
  <1>2. UNCHANGED <<retries, sent, answered>> /\ pending' \subseteq pending
    BY ListMoves DEF ReplayList
  <1>3. overlapped' = (overlapped \/ (pending' # {} /\ \E j \in Idx \ {i} : Replaying(j)))
    BY ListMoves
  <1>4. ~ overlapped' => ~ overlapped
    BY <1>3
  <1>5. ActionInHand'
    BY <1>1 DEF Replays, ActionInHand
  <1>6. OverlapSeen'
    BY <1>1, <1>3 DEF Replays, OverlapSeen, Replaying
  <1>7. SentIsCounted'
    BY <1>2, <1>4 DEF Replays, SentIsCounted
  <1>8. BumpIsFresh' /\ SendIsCounted'
    BY <1>1, <1>2, <1>4 DEF Replays, BumpIsFresh, SendIsCounted
  <1>9. AnsweredIsDeleted'
    BY <1>1, <1>2, <1>4 DEF Replays, AnsweredIsDeleted
  <1> QED BY <1>5, <1>6, <1>7, <1>8, <1>9 DEF Replays

(* Ending a replay.                                                        *)
LEMMA DoneKeeps ==
    ASSUME HealthType, Replays, NEW i \in Idx, ReplayDone(i)
    PROVE  Replays'
  <1>1. /\ health[i].pc = "replay"
        /\ health'[i].pc = "wait"
        /\ \A j \in Idx : j # i => health'[j] = health[j]
    BY DoneMoves DEF Enters
  <1>2. UNCHANGED <<pending, retries, sent, answered, overlapped>>
    BY DEF ReplayDone, actionVars
  <1>3. ActionInHand' /\ OverlapSeen'
    BY <1>1, <1>2 DEF Replays, ActionInHand, OverlapSeen, Replaying
  <1>4. SentIsCounted'
    BY <1>2 DEF Replays, SentIsCounted
  <1>5. BumpIsFresh' /\ SendIsCounted'
    BY <1>1, <1>2 DEF Replays, BumpIsFresh, SendIsCounted
  <1>6. AnsweredIsDeleted'
    BY <1>1, <1>2 DEF Replays, AnsweredIsDeleted
  <1> QED BY <1>3, <1>4, <1>5, <1>6 DEF Replays

(* Skipping an action.                                                     *)
LEMMA SkipKeeps ==
    ASSUME HealthType, Replays, NEW i \in Idx, ReplaySkip(i)
    PROVE  Replays'
  <1>1. /\ health[i].pc = "replay" /\ health'[i].pc = "replay"
        /\ \A j \in Idx : j # i => health'[j] = health[j]
    BY SkipMoves DEF Enters
  <1>2. UNCHANGED <<retries, sent, answered, overlapped>> /\ pending' \subseteq pending
    BY SkipMoves DEF ReplaySkip
  <1>3. ActionInHand' /\ OverlapSeen'
    BY <1>1, <1>2 DEF Replays, ActionInHand, OverlapSeen, Replaying
  <1>4. SentIsCounted'
    BY <1>2 DEF Replays, SentIsCounted
  <1>5. BumpIsFresh' /\ SendIsCounted'
    BY <1>1, <1>2 DEF Replays, BumpIsFresh, SendIsCounted
  <1>6. AnsweredIsDeleted'
    BY <1>1, <1>2 DEF Replays, AnsweredIsDeleted
  <1> QED BY <1>3, <1>4, <1>5, <1>6 DEF Replays

(* The action that is read is pending.  It was not answered: otherwise     *)
(* another goroutine would be about to delete it.                          *)
LEMMA GetKeeps ==
    ASSUME HealthType, ActionsType, Replays, NEW i \in Idx, ReplayGet(i)
    PROVE  Replays'
  <1>1. PICK a \in Actions \cap pending :
           \/ Enters(i, "delete") /\ health'[i].action = a
           \/ /\ retries[a] <= ReplayLimit /\ Enters(i, "bump")
              /\ health'[i].action = a /\ health'[i].seen = retries[a]
    BY GetMoves
  <1>2. health[i].pc = "replay"
    BY GetMoves
  <1>3. /\ health'[i].pc \in {"delete", "bump"} /\ health'[i].action = a
        /\ \A j \in Idx : j # i => health'[j] = health[j]
        /\ health'[i].pc = "bump" => retries[a] <= ReplayLimit /\ health'[i].seen = retries[a]
    BY <1>1 DEF Enters
  <1>4. UNCHANGED <<pending, retries, sent, answered, overlapped>>
    BY DEF ReplayGet, actionVars
  <1>5. ActionInHand'
    BY <1>3 DEF Replays, ActionInHand
  <1>6. OverlapSeen'
    BY <1>2, <1>3, <1>4 DEF Replays, OverlapSeen, Replaying
  <1>7. SentIsCounted'
    BY <1>4 DEF Replays, SentIsCounted
  <1>8. ~ overlapped => a \notin answered \cap pending
    BY <1>2, OnlyReplay DEF Replays, AnsweredIsDeleted, Replaying
  <1>9. BumpIsFresh'
    BY <1>3, <1>4, <1>8 DEF Replays, BumpIsFresh
  <1>10. SendIsCounted'
    BY <1>3, <1>4 DEF Replays, SendIsCounted
  <1>11. AnsweredIsDeleted'
    BY <1>2, <1>3, <1>4 DEF Replays, AnsweredIsDeleted
  <1> QED BY <1>5, <1>6, <1>7, <1>9, <1>10, <1>11 DEF Replays

(* Retries is what the replay has read, at most ReplayLimit, plus one.     *)
LEMMA BumpKeeps ==
    ASSUME HealthType, ActionsType, Replays, NEW i \in Idx, ReplayBump(i)
    PROVE  Replays'
  <1>1. /\ health[i].pc = "bump"
        /\ health'[i].pc = "send" /\ health'[i].action = health[i].action
        /\ \A j \in Idx : j # i => health'[j] = health[j]
    BY BumpMoves DEF Enters
  <1>2. PICK a \in Actions : a = health[i].action
    BY <1>1 DEF Replays, ActionInHand
  <1>3. PICK n \in {retries[a], health[i].seen} : retries' = [retries EXCEPT ![a] = n + 1]
    BY <1>2 DEF ReplayBump
  <1>4. UNCHANGED <<sent, answered, overlapped>> /\ pending' = pending \cup {a}
    BY <1>2 DEF ReplayBump
  <1>5. ActionInHand'
    BY <1>1, <1>2 DEF Replays, ActionInHand
  <1>6. OverlapSeen'
    BY <1>1, <1>4 DEF Replays, OverlapSeen, Replaying
  <1>7. ASSUME ~ overlapped
        PROVE  /\ \A b \in Actions : b # a => retries'[b] = retries[b]
               /\ retries'[a] = retries[a] + 1 /\ retries[a] <= ReplayLimit
               /\ a \notin answered
    <2>1. health[i].seen = retries[a] /\ retries[a] <= ReplayLimit /\ a \notin answered
      BY <1>1, <1>2, <1>7 DEF Replays, BumpIsFresh
    <2> QED BY <1>3, <2>1 DEF ActionsType
  <1>8. ASSUME ~ overlapped, NEW j \in Idx, j # i
        PROVE  health'[j].pc \notin {"replay", "bump", "send", "delete"}
    BY <1>1, <1>8, OnlyReplay DEF Replays, Replaying
  <1>9. SentIsCounted'
    <2>1. ASSUME ~ overlapped, NEW b \in Actions
          PROVE  sent[b] <= retries'[b] /\ retries'[b] <= ReplayLimit + 1
      <3>1. sent[b] <= retries[b] /\ retries[b] <= ReplayLimit + 1
        BY <2>1 DEF Replays, SentIsCounted
      <3>2. sent[b] \in Nat /\ retries[b] \in Nat
        BY DEF ActionsType
      <3> QED BY <1>7, <2>1, <3>1, <3>2, ManagerAssumption
    <2> QED BY <1>4, <2>1 DEF SentIsCounted
  <1>10. BumpIsFresh'
    BY <1>1, <1>4, <1>8 DEF BumpIsFresh
  <1>11. SendIsCounted'
    <2>1. ASSUME ~ overlapped PROVE sent[a] < retries'[a]
      <3>1. sent[a] <= retries[a] /\ sent[a] \in Nat /\ retries[a] \in Nat
        BY <2>1 DEF Replays, SentIsCounted, ActionsType
      <3> QED BY <1>7, <2>1, <3>1
    <2> QED BY <1>1, <1>2, <1>4, <1>7, <1>8, <2>1 DEF SendIsCounted
  <1>12. AnsweredIsDeleted'
    BY <1>1, <1>4, <1>7 DEF Replays, AnsweredIsDeleted
  <1> QED BY <1>5, <1>6, <1>9, <1>10, <1>11, <1>12 DEF Replays

(* What is sent was counted, and what is answered is deleted next.         *)
LEMMA SendKeeps ==
    ASSUME HealthType, ActionsType, Replays, NEW i \in Idx, ReplaySend(i)
    PROVE  Replays'
  <1>1. health[i].pc = "send"
    BY SendMoves
  <1>2. PICK a \in Actions : a = health[i].action
    BY <1>1 DEF Replays, ActionInHand
  <1>3. PICK o \in Outcomes :
           /\ \/ o = "answered" /\ Enters(i, "delete") /\ health'[i].action = a
              \/ o # "answered" /\ (Enters(i, "stuck") \/ Enters(i, "replay"))
           /\ sent' = [sent EXCEPT ![a] = @ + IF o \in {"unsent", "never"} THEN 0 ELSE 1]
           /\ answered' = IF o = "answered" THEN answered \cup {a} ELSE answered
    BY <1>2, SendMoves
  <1>4. /\ health'[i].pc \in {"delete", "stuck", "replay"}
        /\ health'[i].pc = "delete" => health'[i].action = a
        /\ o = "answered" => health'[i].pc = "delete"
        /\ \A j \in Idx : j # i => health'[j] = health[j]
    BY <1>3 DEF Enters
  <1>5. UNCHANGED <<pending, retries, overlapped>>
    BY DEF ReplaySend
  <1>6. ActionInHand'
    BY <1>2, <1>4 DEF Replays, ActionInHand
  <1>7. OverlapSeen'
    BY <1>1, <1>4, <1>5 DEF Replays, OverlapSeen, Replaying
  <1>8. ASSUME ~ overlapped, NEW j \in Idx
        PROVE  health'[j].pc \notin {"bump", "send"}
    BY <1>1, <1>4, <1>8, OnlyReplay DEF Replays, Replaying
  <1>9. SentIsCounted'
    <2>1. ASSUME ~ overlapped, NEW b \in Actions
          PROVE  sent'[b] <= retries[b] /\ retries[b] <= ReplayLimit + 1
      <3>1. sent[b] <= retries[b] /\ retries[b] <= ReplayLimit + 1
        BY <2>1 DEF Replays, SentIsCounted
      <3>2. sent[b] \in Nat /\ retries[b] \in Nat
        BY DEF ActionsType
      <3>3. b = a => sent[b] < retries[b]
        BY <1>1, <1>2, <2>1 DEF Replays, SendIsCounted
      <3>4. sent'[b] = sent[b] \/ (b = a /\ sent'[b] = sent[b] + 1)
        BY <1>3, <3>2 DEF ActionsType
      <3> QED BY <3>1, <3>2, <3>3, <3>4
    <2> QED BY <1>5, <2>1 DEF SentIsCounted
  <1>10. BumpIsFresh' /\ SendIsCounted'
    BY <1>5, <1>8 DEF BumpIsFresh, SendIsCounted
  <1>11. AnsweredIsDeleted'
    <2>1. ASSUME ~ overlapped, NEW b \in answered' \cap pending
          PROVE  \E j \in Idx : health'[j].pc = "delete" /\ health'[j].action = b
      <3>1. CASE b \in answered
        <4>1. PICK j \in Idx : health[j].pc = "delete" /\ health[j].action = b
          BY <2>1, <3>1 DEF Replays, AnsweredIsDeleted
        <4> QED BY <1>1, <1>4, <4>1
      <3>2. CASE b \notin answered
        BY <1>3, <1>4, <2>1, <3>2
      <3> QED BY <3>1, <3>2
    <2> QED BY <1>5, <2>1 DEF AnsweredIsDeleted
  <1> QED BY <1>6, <1>7, <1>9, <1>10, <1>11 DEF Replays

(* Deleting an action leaves the others as they are.                       *)
LEMMA DeleteKeeps ==
    ASSUME HealthType, Replays, NEW i \in Idx, ReplayDelete(i)
    PROVE  Replays'
  <1>1. /\ health[i].pc = "delete" /\ health'[i].pc = "replay"
        /\ \A j \in Idx : j # i => health'[j] = health[j]
    BY DeleteMoves DEF Enters
  <1>2. /\ UNCHANGED <<retries, sent, answered, overlapped>>
        /\ pending' = pending \ {health[i].action}
    BY DEF ReplayDelete
  <1>3. ActionInHand' /\ OverlapSeen'
    BY <1>1, <1>2 DEF Replays, ActionInHand, OverlapSeen, Replaying
  <1>4. SentIsCounted'
    BY <1>2 DEF Replays, SentIsCounted
  <1>5. BumpIsFresh' /\ SendIsCounted'
    BY <1>1, <1>2 DEF Replays, BumpIsFresh, SendIsCounted
  <1>6. AnsweredIsDeleted'
    BY <1>1, <1>2 DEF Replays, AnsweredIsDeleted
  <1> QED BY <1>3, <1>4, <1>5, <1>6 DEF Replays

(* Every step keeps replays bounded.                                       *)
LEMMA ReplaysInductive ==
    ASSUME Types, TargetIsClient, Replays, [Next]_vars
    PROVE  Replays'
  <1> USE DEF Types
  <1>1. CASE UNCHANGED <<health, actionVars>>
    BY <1>1 DEF actionVars, Replays, ActionInHand, OverlapSeen, SentIsCounted, BumpIsFresh,
       SendIsCounted, AnsweredIsDeleted, Replaying
  <1>2. ASSUME NEW i \in Idx, Quiet(i) \/ ReplayStep(i) PROVE Replays'
    BY <1>2, QuietKeeps, ListKeeps, SkipKeeps, GetKeeps, BumpKeeps, SendKeeps, DeleteKeeps,
       DoneKeeps
       DEF ReplayStep
  <1> QED BY <1>1, <1>2, HealthCases

-----------------------------------------------------------------------------
(* The invariant holds in every state the manager reaches.                 *)
THEOREM ManagerInvariant == Spec => []IInv
  <1>1. Init => IInv
    <2> SUFFICES ASSUME Init PROVE IInv
      OBVIOUS
    <2>1. /\ \A i \in Idx : health[i].pc = "wait"
          /\ \A u \in Users : user[u].pc = "idle"
          /\ monitor.pc = "wait"
      BY DEF Init, HealthWait, MonitorWait
    <2>2. CoreType /\ NetType /\ ReconnType
      <3>1. 0 \in Idx
        BY ManagerAssumption DEF Idx
      <3>2. 0 \in 0..FailThreshold /\ 0 \in 0..NumClients /\ 0 \in 0..MaxFaults
            /\ 0 \in 0..MaxRefusals
        BY ManagerAssumption
      <3> QED BY <3>1, <3>2 DEF Init, CoreType, NetType, ReconnType, ConnStates
    <2>3. RetryType
      BY ManagerAssumption DEF Init, RetryType, RetryRecords, RetrySteps
    <2>4. HealthType
      BY HealthRecordFacts DEF Init, HealthType
    <2>5. MonitorType /\ UserType
      BY ManagerAssumption DEF Init, Idx, MonitorType, MonitorRecords, MonitorWait, UserType,
         UserRecords, UserSteps
    <2>6. ActionsType
      BY DEF Init, ActionsType
    <2>7. TypeOK
      BY <2>2, <2>3, <2>4, <2>5, <2>6, TypeParts DEF Types
    <2>8. TargetIsClient /\ ActionInHand /\ OverlapSeen /\ BumpIsFresh /\ SendIsCounted
      BY <2>1 DEF TargetIsClient, ActionInHand, OverlapSeen, Replaying, BumpIsFresh, SendIsCounted
    <2>9. SentIsCounted
      BY ManagerAssumption DEF Init, SentIsCounted
    <2>10. AnsweredIsDeleted
      BY DEF Init, AnsweredIsDeleted
    <2> QED BY <2>7, <2>8, <2>9, <2>10 DEF IInv
  <1>2. IInv /\ [Next]_vars => IInv'
    <2> SUFFICES ASSUME IInv, [Next]_vars PROVE IInv'
      OBVIOUS
    <2>1. Types /\ TargetIsClient /\ Replays
      BY TypeParts DEF IInv, Replays
    <2>2. Types'
      BY <2>1, TypesInductive DEF Replays
    <2>3. TypeOK'
      BY <2>2, TypeParts, PTL
    <2> QED BY <2>1, <2>3, TargetInductive, ReplaysInductive DEF IInv, Replays
  <1> QED BY <1>1, <1>2, PTL DEF Spec

(* activeIdx always names a client, whichever goroutine wrote it last, and *)
(* every other variable stays of its type.                                 *)
THEOREM TypeCorrect == Spec => []TypeOK
  <1>1. IInv => TypeOK
    BY DEF IInv
  <1> QED BY <1>1, ManagerInvariant, PTL

(* replayPendingActions, one at a time, sends an action at most            *)
(* ReplayLimit + 1 times and never again after Success.                    *)
THEOREM ReplaysBounded == Spec => []ReplayBoundedUnlessOverlapped
  <1>1. IInv => ReplayBoundedUnlessOverlapped
    <2> SUFFICES ASSUME IInv, ~ overlapped PROVE ReplayBoundedUnlessOverlapped
      BY DEF ReplayBoundedUnlessOverlapped
    <2>1. ASSUME NEW a \in Actions PROVE sent[a] <= ReplayLimit + 1
      <3>1. sent[a] \in Nat /\ retries[a] \in Nat
        BY DEF IInv, TypeOK
      <3>2. sent[a] <= retries[a] /\ retries[a] <= ReplayLimit + 1
        BY DEF IInv, SentIsCounted
      <3> QED BY <3>1, <3>2, ManagerAssumption
    <2> QED BY <2>1 DEF IInv, AnsweredIsDeleted, ReplayBoundedUnlessOverlapped
  <1> QED BY <1>1, ManagerInvariant, PTL

=============================================================================
