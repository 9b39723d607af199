---------------------------- MODULE AMIManager -----------------------------
(***************************************************************************)
(* The AMI manager, pkg/ami/manager.go: which of several AMI clients is    *)
(* the active one.  activeIdx is written by Start, by one health goroutine *)
(* per client, by the connection monitor and the goroutines it starts, by  *)
(* the retry goroutines of Start, by Reconnect and by SendAction.  After   *)
(* a failover the actions pending in the storage are sent again.           *)
(*                                                                         *)
(* A client is down, up, or hung: connected for the gateway, but without   *)
(* an answer from the server.  Connect holds the client's mutex, so a call *)
(* of it is one step.  It returns at once, without error, if the client is *)
(* connected.  SendAction of a client that is down blocks on that mutex,   *)
(* and so may a failed login (see AMIClient): the client is then locked,   *)
(* and whoever asks it anything blocks too.  Storage calls are atomic;     *)
(* MemoryStorage looks inside.                                             *)
(*                                                                         *)
(* Two things AMIClient shows are not repeated here.  After a failed login *)
(* the next Connect may panic: a behaviour of this module ends there.  And *)
(* a client as it is written hears no answer before its timeout, since     *)
(* SendAction keeps the mutex that readLoop needs; the manager is modelled *)
(* for clients that may answer.                                            *)
(***************************************************************************)
EXTENDS Integers, FiniteSets

CONSTANTS
    NumClients,
    Users,          \* goroutines that call SendAction or Reconnect
    Actions,        \* the actions pending in the storage at the start
    NoAction,
    ReplayLimit,    \* an action with more Retries is given up (3 in the code)
    FailThreshold,  \* failures that make a client unhealthy (3 in the code)
    MaxRetries,     \* attempts of a retry goroutine
    MaxBusy,        \* bound: health checks and calls begin when fewer are busy
    MaxFaults,      \* bound on how often a connection breaks or hangs
    MaxRefusals     \* bound on failed connection attempts; then all succeed

ASSUME ManagerAssumption ==
    /\ NumClients \in Nat \ {0}
    /\ NoAction \notin Actions
    /\ ReplayLimit \in Nat
    /\ FailThreshold \in Nat \ {0}
    /\ MaxRetries \in Nat
    /\ MaxBusy \in Nat
    /\ MaxFaults \in Nat
    /\ MaxRefusals \in Nat

Idx == 0..(NumClients - 1)
NoClient == NumClients

VARIABLES
    active,     \* activeIdx
    conn,       \* state of each client
    failCount,  \* clientStatus[i].FailCount
    muHeld,     \* the manager's mutex is held by a goroutine that blocks
    starting,   \* program counter of Start: the client it waits for, or done
    background, \* clients with a ConnectNonBlocking under way
    retry,      \* retryAllConnections: one goroutine per client
    health,     \* the health goroutines
    monitor,    \* monitorConnections: program counter and target
    found,      \* foundConnected of the monitor's last round
    reconn,     \* the goroutines of that round
    user,       \* the callers of Reconnect and SendAction
    pending,    \* the stored actions
    retries,    \* their Retries fields
    faults, refusals,
    sent,       \* history: how often a replay has sent an action
    answered,   \* history: actions whose replay was answered with Success
    overlapped  \* history: two replays were under way at once

goVars == <<starting, background, retry, health, monitor, found, reconn, user>>
actionVars == <<pending, retries, sent, answered, overlapped>>
netVars == <<conn, faults, refusals>>
mgrVars == <<failCount, muHeld>>
vars == <<active, netVars, mgrVars, goVars, actionVars>>

Outcomes == {"answered", "rejected", "lost", "unsent", "never"}

TypeOK ==
    /\ active \in Idx
    /\ conn \in [Idx -> {"down", "up", "hung", "locked"}]
    /\ failCount \in [Idx -> 0..FailThreshold]
    /\ muHeld \in BOOLEAN
    /\ starting \in 0..NumClients
    /\ background \in SUBSET Idx
    /\ retry \in [Idx -> [pc : {"off", "dial", "check", "switch"}, n : 0..MaxRetries]]
    /\ health \in [Idx -> [pc : {"wait", "reconnect", "backup", "switch", "list",
                                 "replay", "bump", "send", "delete", "stuck"},
                           to : Idx \cup {NoClient}, todo : SUBSET Actions,
                           action : Actions \cup {NoAction}, seen : Nat]]
    /\ monitor \in [pc : {"wait", "seek", "switch"}, from : Idx, to : Idx \cup {NoClient}]
    /\ found \in BOOLEAN
    /\ reconn \in [Idx -> {"off", "dial", "test", "set"}]
    /\ user \in [Users -> [pc : {"idle", "active", "others", "switch", "send", "record",
                                "failover", "resend", "stuck"}, from : Idx, to : Idx \cup {NoClient}]]
    /\ pending \in SUBSET Actions
    /\ retries \in [Actions -> Nat]
    /\ faults \in 0..MaxFaults
    /\ refusals \in 0..MaxRefusals
    /\ sent \in [Actions -> Nat]
    /\ answered \in SUBSET Actions
    /\ overlapped \in BOOLEAN

HealthWait == [pc |-> "wait", to |-> NoClient, todo |-> {}, action |-> NoAction, seen |-> 0]
MonitorWait == [pc |-> "wait", from |-> 0, to |-> NoClient]

(* Only the replay itself calls StoreAMIAction in the repository: the      *)
(* actions pending at the start come from another user of the storage, and *)
(* the shipped program is the instance Actions = {}.                       *)
Init ==
    /\ active = 0
    /\ conn = [i \in Idx |-> "down"]
    /\ failCount = [i \in Idx |-> 0]
    /\ muHeld = FALSE
    /\ starting = 0
    /\ background = {0}
    /\ retry = [i \in Idx |-> [pc |-> "off", n |-> 0]]
    /\ health = [i \in Idx |-> HealthWait]
    /\ monitor = MonitorWait
    /\ found = TRUE
    /\ reconn = [i \in Idx |-> "off"]
    /\ user = [u \in Users |-> [pc |-> "idle", from |-> 0, to |-> 0]]
    /\ pending = Actions
    /\ retries = [a \in Actions |-> 0]
    /\ faults = 0
    /\ refusals = 0
    /\ sent = [a \in Actions |-> 0]
    /\ answered = {}
    /\ overlapped = FALSE

-----------------------------------------------------------------------------
(* The clients                                                             *)

Locked(i) == conn[i] = "locked"
IsConnected(i) == conn[i] \in {"up", "hung"}
Healthy(i) == failCount[i] < FailThreshold
Started == starting = NumClients

(* How many may be about to write activeIdx, those of Start left aside:    *)
(* the health goroutines, the monitor with its round, the callers.         *)
Busy ==
    (IF monitor.pc # "wait" \/ \E i \in Idx : reconn[i] # "off" THEN 1 ELSE 0)
    + Cardinality({i \in Idx : health[i].pc # "wait"})
    + Cardinality({u \in Users : user[u].pc # "idle"})

(* A bound: health checks and calls begin after the goroutines of Start    *)
(* have ended or are blocked, and when fewer than MaxBusy others are under way.  Breaking *)
(* connections, Start and the monitor overlap with everything.             *)
MayBegin ==
    /\ Started
    /\ \A i \in background : Locked(i)
    /\ \A i \in Idx : retry[i].pc = "off" \/ Locked(i)
    /\ Busy < MaxBusy

(* The lowest index in S, or NoClient.                                     *)
First(S) == IF S = {} THEN NoClient ELSE CHOOSE i \in S : \A j \in S : i <= j

ConnectOk(i) ==
    /\ ~ Locked(i)
    /\ conn' = [conn EXCEPT ![i] = IF @ = "down" THEN "up" ELSE @]
    /\ UNCHANGED <<faults, refusals>>

(* The server refuses, the breaker is open, or the last attempt was less   *)
(* than five seconds ago.                                                  *)
ConnectFails(i) ==
    /\ conn[i] = "down"
    /\ refusals < MaxRefusals
    /\ refusals' = refusals + 1
    /\ UNCHANGED <<conn, faults>>

(* A goroutine is in Connect of client i.                                  *)
Connecting(i) ==
    \/ i \in background
    \/ retry[i].pc = "dial" /\ retry[i].n < MaxRetries
    \/ reconn[i] = "dial"
    \/ health[i].pc = "reconnect"
    \/ \E j \in Idx : health[j].pc = "backup" /\ health[j].to = i
    \/ \E u \in Users : user[u].pc = "active" /\ user[u].from = i
    \/ \E u \in Users : user[u].pc = "others" /\ user[u].to = i

(* The login fails, and Connect waits for doneChan with the mutex that the *)
(* dispatcher needs before it closes doneChan.  The caller stays there.    *)
ConnectStuck(i) ==
    /\ conn[i] = "down"
    /\ Connecting(i)
    /\ refusals < MaxRefusals
    /\ refusals' = refusals + 1
    /\ conn' = [conn EXCEPT ![i] = "locked"]
    /\ UNCHANGED <<active, faults, mgrVars, goVars, actionVars>>

(* The server stops answering.                                             *)
Hang(i) ==
    /\ conn[i] = "up"
    /\ faults < MaxFaults
    /\ faults' = faults + 1
    /\ conn' = [conn EXCEPT ![i] = "hung"]
    /\ UNCHANGED <<active, refusals, mgrVars, goVars, actionVars>>

(* A connection on which nothing arrives for five minutes is given up.     *)
ReadDeadline(i) ==
    /\ conn[i] = "hung"
    /\ conn' = [conn EXCEPT ![i] = "down"]
    /\ UNCHANGED <<active, faults, refusals, mgrVars, goVars, actionVars>>

(* SendAction on client i comes to o: an answer, a rejection, which is an  *)
(* error too, a timeout although the server may have acted, a write that   *)
(* fails, which makes the client disconnected, or no end.                  *)
Sends(i, o) ==
    /\ CASE o \in {"answered", "rejected"} -> conn[i] = "up" /\ UNCHANGED <<conn, faults>>
         [] o = "lost"   -> IsConnected(i) /\ UNCHANGED <<conn, faults>>
         [] o = "unsent" -> /\ IsConnected(i)
                            /\ faults < MaxFaults
                            /\ faults' = faults + 1
                            /\ conn' = [conn EXCEPT ![i] = "down"]
         [] o = "never"  -> /\ conn[i] = "down"
                            /\ conn' = [conn EXCEPT ![i] = "locked"]
                            /\ UNCHANGED faults
    /\ UNCHANGED refusals

-----------------------------------------------------------------------------
(* Start                                                                   *)

(* ConnectNonBlocking connects in the background.                          *)
BackgroundConnect(i) ==
    /\ i \in background
    /\ background' = background \ {i}
    /\ ConnectOk(i) \/ ConnectFails(i)
    /\ UNCHANGED <<active, mgrVars, starting, retry, health, monitor, found, reconn,
                   user, actionVars>>

(* WaitForBanner says yes: the banner came, the login may still fail.      *)
StartBanner ==
    /\ ~ Started
    /\ active' = starting
    /\ starting' = NumClients
    /\ retry' = IF starting = 0 THEN retry
                ELSE [i \in Idx |-> [pc |-> IF IsConnected(i) THEN "off" ELSE "dial", n |-> 0]]
    /\ UNCHANGED <<netVars, mgrVars, background, health, monitor, found, reconn,
                   user, actionVars>>

(* No banner in time: the next client is tried.  After the last one the    *)
(* clients that are not connected get a retry goroutine each.              *)
StartNoBanner ==
    /\ ~ Started
    /\ starting' = starting + 1
    /\ background' = (background \cup {starting + 1}) \cap Idx
    /\ retry' = IF starting + 1 < NumClients THEN retry
                ELSE [i \in Idx |-> [pc |-> IF IsConnected(i) THEN "off" ELSE "dial", n |-> 0]]
    /\ UNCHANGED <<active, netVars, mgrVars, health, monitor, found, reconn, user, actionVars>>

-----------------------------------------------------------------------------
(* retryAllConnections                                                     *)

RetryGoto(i, r) ==
    /\ retry' = [retry EXCEPT ![i] = r]
    /\ UNCHANGED <<mgrVars, starting, background, health, monitor, found, reconn, user, actionVars>>

RetryOff == [pc |-> "off", n |-> 0]

RetryDial(i) ==
    /\ retry[i].pc = "dial"
    /\ ~ Locked(i)
    /\ UNCHANGED active
    /\ \/ /\ IsConnected(i) \/ retry[i].n >= MaxRetries
          /\ RetryGoto(i, RetryOff)
          /\ UNCHANGED netVars
       \/ /\ ~ IsConnected(i) /\ retry[i].n < MaxRetries
          /\ ConnectOk(i)
          /\ RetryGoto(i, [retry[i] EXCEPT !.pc = "check"])
       \/ /\ retry[i].n < MaxRetries
          /\ ConnectFails(i)
          /\ RetryGoto(i, [retry[i] EXCEPT !.n = @ + 1])

RetryCheck(i) ==
    /\ retry[i].pc = "check"
    /\ ~ Locked(active)
    /\ RetryGoto(i, IF (i = 0 /\ active = 0) \/ IsConnected(active)
                    THEN RetryOff ELSE [retry[i] EXCEPT !.pc = "switch"])
    /\ UNCHANGED <<active, netVars>>

RetrySwitch(i) ==
    /\ retry[i].pc = "switch"
    /\ active' = i
    /\ RetryGoto(i, RetryOff)
    /\ UNCHANGED netVars

RetryStep(i) == RetryDial(i) \/ RetryCheck(i) \/ RetrySwitch(i)

-----------------------------------------------------------------------------
(* The health goroutine of client i and tryReconnectOrFailover             *)

Health(i, h) ==
    /\ health' = [health EXCEPT ![i] = h]
    /\ UNCHANGED <<starting, background, retry, monitor, found, reconn, user>>

HealthGoto(i, pc) == Health(i, [health[i] EXCEPT !.pc = pc])

(* The server answers a ping with an error.  Only this, and a connection   *)
(* that breaks, makes a ping fail: a timeout counts as success.  It        *)
(* matters only if the client is the active one.                           *)
HealthPing(i) ==
    /\ MayBegin
    /\ health[i].pc = "wait"
    /\ conn[i] = "up"
    /\ active = i
    /\ HealthGoto(i, "reconnect")
    /\ UNCHANGED <<active, netVars, mgrVars, actionVars>>

(* The connection breaks: between two pings, which skip a client that is   *)
(* not connected; during a ping; or after IsConnected and before the ping. *)
Break(i) ==
    /\ IsConnected(i)
    /\ faults < MaxFaults
    /\ faults' = faults + 1
    /\ \/ UNCHANGED goVars /\ conn' = [conn EXCEPT ![i] = "down"]
       \/ /\ MayBegin /\ health[i].pc = "wait" /\ active = i
          /\ HealthGoto(i, "reconnect") /\ conn' = [conn EXCEPT ![i] = "down"]
       \/ /\ MayBegin /\ health[i].pc = "wait"
          /\ HealthGoto(i, "stuck") /\ conn' = [conn EXCEPT ![i] = "locked"]
    /\ UNCHANGED <<active, refusals, mgrVars, actionVars>>

NextBackup(i, j) == First({k \in Idx : k > j /\ k # i})

HealthBackupFrom(i, j) ==
    Health(i, IF NextBackup(i, j) = NoClient THEN HealthWait
              ELSE [HealthWait EXCEPT !.pc = "backup", !.to = NextBackup(i, j)])

(* Reconnect is Connect: of a hung client it says at once that all is well.*)
HealthReconnect(i) ==
    /\ health[i].pc = "reconnect"
    /\ \/ ConnectOk(i) /\ Health(i, HealthWait)
       \/ ConnectFails(i) /\ HealthBackupFrom(i, -1)
    /\ UNCHANGED <<mgrVars, active, actionVars>>

HealthBackup(i) ==
    LET j == health[i].to IN
        /\ health[i].pc = "backup"
        /\ \/ ConnectOk(j) /\ HealthGoto(i, "switch")
           \/ ConnectFails(j) /\ HealthBackupFrom(i, j)
        /\ UNCHANGED <<mgrVars, active, actionVars>>

HealthSwitch(i) ==
    /\ health[i].pc = "switch"
    /\ active' = health[i].to
    /\ HealthGoto(i, "list")
    /\ UNCHANGED <<mgrVars, netVars, actionVars>>

-----------------------------------------------------------------------------
(* replayPendingActions                                                    *)

(* Time is not modelled: an action may turn out to be expired whenever its *)
(* ExpireTime is looked at, and whoever finds it expired deletes it.       *)

Replaying(i) == health[i].pc \in {"replay", "bump", "send", "delete"}

(* The list of actions and the client to use are fixed here.  The storage  *)
(* deletes expired actions instead of listing them.                        *)
ReplayList(i) ==
    \E live \in SUBSET pending :
        /\ health[i].pc = "list"
        /\ pending' = live
        /\ Health(i, IF live = {} THEN HealthWait
                     ELSE [health[i] EXCEPT !.pc = "replay", !.to = active, !.todo = live])
        /\ overlapped' = (overlapped \/ (live # {} /\ \E j \in Idx \ {i} : Replaying(j)))
        /\ UNCHANGED <<mgrVars, active, netVars, retries, sent, answered>>

ReplayDone(i) ==
    /\ health[i].pc = "replay"
    /\ health[i].todo = {}
    /\ Health(i, HealthWait)
    /\ UNCHANGED <<mgrVars, active, netVars, actionVars>>

(* GetAMIAction fails: the action is gone, or expired and deleted now.     *)
ReplaySkip(i) ==
    \E a \in health[i].todo :
        /\ health[i].pc = "replay"
        /\ pending' = pending \ {a}
        /\ Health(i, [health[i] EXCEPT !.todo = @ \ {a}])
        /\ UNCHANGED <<mgrVars, active, netVars, retries, sent, answered, overlapped>>

ReplayGoto(i, a, pc, seen) ==
    Health(i, [health[i] EXCEPT !.todo = @ \ {a}, !.pc = pc, !.action = a, !.seen = seen])

(* Mutant of ReplayGet: the number of retries is not limited.              *)
ReplayGetUnlimited(i) ==
    \E a \in health[i].todo \cap pending :
        /\ health[i].pc = "replay"
        /\ ReplayGoto(i, a, "delete", 0) \/ ReplayGoto(i, a, "bump", retries[a])
        /\ UNCHANGED <<mgrVars, active, netVars, actionVars>>

(* An action that has expired since it was read, or has too many retries,  *)
(* is deleted.                                                             *)
ReplayGet(i) ==
    \E a \in health[i].todo \cap pending :
        /\ health[i].pc = "replay"
        /\ \/ ReplayGoto(i, a, "delete", 0)
           \/ retries[a] <= ReplayLimit /\ ReplayGoto(i, a, "bump", retries[a])
        /\ UNCHANGED <<mgrVars, active, netVars, actionVars>>

(* Retries++ on the shared object, which another replay may have changed   *)
(* since it was read, and StoreAMIAction, which puts the action back if it *)
(* was deleted meanwhile.                                                  *)
ReplayBump(i) ==
    LET a == health[i].action IN
        /\ health[i].pc = "bump"
        /\ \E n \in {retries[a], health[i].seen} : retries' = [retries EXCEPT ![a] = n + 1]
        /\ pending' = pending \cup {a}
        /\ Health(i, [health[i] EXCEPT !.pc = "send", !.seen = 0])
        /\ UNCHANGED <<mgrVars, active, netVars, sent, answered, overlapped>>

(* Only an action that was answered with Success is deleted.               *)
ReplaySend(i) ==
    LET a == health[i].action IN
        /\ health[i].pc = "send"
        /\ \E o \in Outcomes :
              /\ Sends(health[i].to, o)
              /\ Health(i, CASE o = "answered" -> [health[i] EXCEPT !.pc = "delete"]
                             [] o = "never"    -> [health[i] EXCEPT !.pc = "stuck"]
                             [] OTHER -> [health[i] EXCEPT !.pc = "replay", !.action = NoAction])
              /\ sent' = [sent EXCEPT ![a] = @ + IF o \in {"unsent", "never"} THEN 0 ELSE 1]
              /\ answered' = IF o = "answered" THEN answered \cup {a} ELSE answered
        /\ UNCHANGED <<active, mgrVars, pending, retries, overlapped>>

ReplayDelete(i) ==
    /\ health[i].pc = "delete"
    /\ pending' = pending \ {health[i].action}
    /\ Health(i, [health[i] EXCEPT !.pc = "replay", !.action = NoAction])
    /\ UNCHANGED <<mgrVars, active, netVars, retries, sent, answered, overlapped>>

HealthStep(i) ==
    \/ HealthReconnect(i) \/ HealthBackup(i)
    \/ HealthSwitch(i)
    \/ ReplayList(i) \/ ReplaySkip(i) \/ ReplayGet(i) \/ ReplayBump(i) \/ ReplaySend(i)
    \/ ReplayDelete(i) \/ ReplayDone(i)

-----------------------------------------------------------------------------
(* monitorConnections                                                      *)

(* The active client is looked at on every tick.  The round before is over *)
(* by then, 30 seconds against 5, but for goroutines that are blocked.     *)
MonitorTick ==
    /\ Started
    /\ monitor.pc = "wait"
    /\ \A i \in Idx : reconn[i] = "off" \/ (reconn[i] = "dial" /\ Locked(i))
    /\ conn[active] = "down"
    /\ monitor' = [monitor EXCEPT !.pc = "seek", !.from = active]
    /\ UNCHANGED <<active, netVars, mgrVars, starting, background, retry, health, found,
                   reconn, user, actionVars>>

(* Mutant of MonitorSeek: clients are not reconnected.                     *)
MonitorSeekOnly ==
    LET j == First({i \in Idx \ {monitor.from} : conn[i] # "down"}) IN
        /\ monitor.pc = "seek"
        /\ j # NoClient => ~ Locked(j)
        /\ monitor' = [monitor EXCEPT !.pc = IF j = NoClient THEN "wait" ELSE "switch", !.to = j]
        /\ UNCHANGED <<active, netVars, mgrVars, starting, background, retry, health, found,
                       reconn, user, actionVars>>

(* The first other client that is connected, or a round of reconnections.  *)
MonitorSeek ==
    LET j == First({i \in Idx \ {monitor.from} : conn[i] # "down"}) IN
        /\ monitor.pc = "seek"
        /\ j # NoClient => ~ Locked(j)
        /\ IF j # NoClient
           THEN /\ monitor' = [monitor EXCEPT !.pc = "switch", !.to = j]
                /\ UNCHANGED <<found, reconn>>
           ELSE /\ monitor' = MonitorWait
                /\ found' = FALSE
                /\ reconn' = [i \in Idx |-> "dial"]
        /\ UNCHANGED <<active, netVars, mgrVars, starting, background, retry, health,
                       user, actionVars>>

MonitorSwitch ==
    /\ monitor.pc = "switch"
    /\ active' = monitor.to
    /\ monitor' = MonitorWait
    /\ UNCHANGED <<netVars, mgrVars, starting, background, retry, health, found, reconn,
                   user, actionVars>>

(* One goroutine of the round.  found is shared by all without a lock.     *)
Reconn(i, pc) ==
    /\ reconn' = [reconn EXCEPT ![i] = pc]
    /\ UNCHANGED <<mgrVars, starting, background, retry, health, monitor, user,
                   actionVars>>

ReconnDial(i) ==
    /\ reconn[i] = "dial"
    /\ \/ ConnectOk(i) /\ Reconn(i, "test")
       \/ ConnectFails(i) /\ Reconn(i, "off")
    /\ UNCHANGED <<active, found>>

ReconnTest(i) ==
    /\ reconn[i] = "test"
    /\ Reconn(i, IF found THEN "off" ELSE "set")
    /\ UNCHANGED <<active, netVars, found>>

ReconnSet(i) ==
    /\ reconn[i] = "set"
    /\ active' = i
    /\ found' = TRUE
    /\ Reconn(i, "off")
    /\ UNCHANGED netVars

MonitorStep == MonitorTick \/ MonitorSeek \/ MonitorSwitch
ReconnStep(i) == ReconnDial(i) \/ ReconnTest(i) \/ ReconnSet(i)

-----------------------------------------------------------------------------
(* Reconnect and SendAction, called by other components                    *)

UserGoto(u, r) ==
    /\ user' = [user EXCEPT ![u] = r]
    /\ UNCHANGED <<starting, background, retry, health, monitor, found, reconn, actionVars>>

UserIdle == [pc |-> "idle", from |-> 0, to |-> 0]

Reconnect(u) ==
    /\ MayBegin
    /\ user[u].pc = "idle"
    /\ UserGoto(u, [pc |-> "active", from |-> active, to |-> 0])
    /\ UNCHANGED <<active, netVars, mgrVars>>

ReconnectActive(u) ==
    LET i == user[u].from IN
        /\ user[u].pc = "active"
        /\ \/ ConnectOk(i) /\ UserGoto(u, UserIdle)
           \/ ConnectFails(i) /\ UserGoto(u, [pc |-> "others", from |-> i, to |-> NextBackup(i, -1)])
        /\ UNCHANGED <<active, mgrVars>>

ReconnectOther(u) ==
    LET i == user[u].from
        j == user[u].to
    IN  /\ user[u].pc = "others"
        /\ \/ /\ j = NoClient
              /\ UserGoto(u, UserIdle)
              /\ UNCHANGED netVars
           \/ /\ j # NoClient
              /\ ConnectOk(j)
              /\ UserGoto(u, [user[u] EXCEPT !.pc = "switch"])
           \/ /\ j # NoClient
              /\ ConnectFails(j)
              /\ UserGoto(u, [user[u] EXCEPT !.to = NextBackup(i, j)])
        /\ UNCHANGED <<active, mgrVars>>

ReconnectSwitch(u) ==
    /\ user[u].pc = "switch"
    /\ active' = user[u].to
    /\ UserGoto(u, UserIdle)
    /\ UNCHANGED <<netVars, mgrVars>>

SendAction(u) ==
    /\ MayBegin
    /\ ~ muHeld
    /\ user[u].pc = "idle"
    /\ UserGoto(u, [pc |-> "send", from |-> active, to |-> 0])
    /\ UNCHANGED <<active, netVars, mgrVars>>

SendFirst(u) ==
    /\ user[u].pc = "send"
    /\ \E o \in Outcomes :
          /\ Sends(user[u].from, o)
          /\ UserGoto(u, CASE o = "answered" -> UserIdle
                           [] o = "never" -> [user[u] EXCEPT !.pc = "stuck"]
                           [] OTHER       -> [user[u] EXCEPT !.pc = "record"])
    /\ UNCHANGED <<active, mgrVars>>

(* FailCount is never lowered again.  It saturates at the threshold, the   *)
(* only value it is compared with.                                         *)
recordClientFailure(u) ==
    LET i == user[u].from IN
        /\ user[u].pc = "record"
        /\ ~ muHeld
        /\ failCount' = [failCount EXCEPT ![i] = IF Healthy(i) THEN @ + 1 ELSE @]
        /\ UserGoto(u, [user[u] EXCEPT !.pc = "failover"])
        /\ UNCHANGED <<active, netVars, muHeld>>

Candidates == {i \in Idx \ {active} : Locked(i) \/ (IsConnected(i) /\ Healthy(i))}

(* Mutant of tryFailover: that no client was found is not noticed.         *)
tryFailoverUnchecked(u) ==
    LET j == First(Candidates) IN
        /\ user[u].pc = "failover"
        /\ active' = j
        /\ UserGoto(u, [user[u] EXCEPT !.pc = "resend", !.to = j])
        /\ UNCHANGED <<netVars, mgrVars>>

(* Away from the client that is active now, to the first one that is       *)
(* connected and healthy.  A locked client that comes first blocks the     *)
(* loop, with the manager's mutex held.                                    *)
tryFailover(u) ==
    LET j == First(Candidates) IN
        /\ user[u].pc = "failover"
        /\ ~ muHeld
        /\ CASE j = NoClient -> /\ UserGoto(u, UserIdle)
                               /\ UNCHANGED <<active, muHeld>>
             [] j # NoClient /\ Locked(j) -> /\ UserGoto(u, [user[u] EXCEPT !.pc = "stuck"])
                                            /\ muHeld' = TRUE
                                            /\ UNCHANGED active
             [] OTHER -> /\ UserGoto(u, [user[u] EXCEPT !.pc = "resend", !.to = j])
                         /\ active' = j
                         /\ UNCHANGED muHeld
        /\ UNCHANGED <<netVars, failCount>>

(* Whatever the second attempt comes to is returned to the caller.         *)
SendAgain(u) ==
    /\ user[u].pc = "resend"
    /\ \E o \in Outcomes :
          /\ Sends(user[u].to, o)
          /\ UserGoto(u, IF o = "never" THEN [user[u] EXCEPT !.pc = "stuck"] ELSE UserIdle)
    /\ UNCHANGED <<active, mgrVars>>

UserStep(u) ==
    \/ ReconnectActive(u) \/ ReconnectOther(u) \/ ReconnectSwitch(u)
    \/ SendFirst(u) \/ recordClientFailure(u) \/ tryFailover(u) \/ SendAgain(u)

-----------------------------------------------------------------------------

Next ==
    \/ StartBanner \/ StartNoBanner
    \/ MonitorStep
    \/ \E i \in Idx :
          \/ ConnectStuck(i) \/ Hang(i) \/ ReadDeadline(i) \/ Break(i) \/ BackgroundConnect(i) \/ RetryStep(i)
          \/ HealthPing(i) \/ HealthStep(i) \/ ReconnStep(i)
    \/ \E u \in Users : Reconnect(u) \/ SendAction(u) \/ UserStep(u)

Spec == Init /\ [][Next]_vars

(* Goroutines that can run do.  Nobody has to call the manager.            *)
FairSpec ==
    /\ Spec
    /\ WF_vars(StartBanner \/ StartNoBanner)
    /\ WF_vars(MonitorStep)
    /\ \A i \in Idx :
          /\ WF_vars(ReadDeadline(i))
          /\ WF_vars(BackgroundConnect(i))
          /\ WF_vars(RetryStep(i))
          /\ WF_vars(HealthStep(i))
          /\ WF_vars(ReconnStep(i))
    /\ \A u \in Users : WF_vars(UserStep(u))

-----------------------------------------------------------------------------
(* As long as replays do not overlap, a pending action is sent at most     *)
(* ReplayLimit + 1 times, and never again once it was answered with        *)
(* success.  Two health goroutines that fail over one after the other can  *)
(* make replays overlap; then an action that was already deleted is stored *)
(* and sent again.                                                         *)
ReplayBoundedUnlessOverlapped ==
    ~ overlapped =>
        \A a \in Actions :
            /\ sent[a] <= ReplayLimit + 1
            /\ a \in answered /\ a \in pending =>
                  \E i \in Idx : health[i].pc = "delete" /\ health[i].action = a

(* Whatever the order in which the goroutines that write activeIdx finish, *)
(* once connections stop breaking the active client ends up connected to a *)
(* server that answers, and stays so, unless a client has locked itself.   *)
ServiceRestored ==
    <>[](conn[active] = "up") \/ <>(\E i \in Idx : Locked(i))

=============================================================================
