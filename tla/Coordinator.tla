---------------------------- MODULE Coordinator ----------------------------
(***************************************************************************)
(* Leader election by lease, pkg/coordinator/coordination.go.  Several     *)
(* gateway instances share the storage key "coordinator:leader".  Each     *)
(* runs a leadership-monitor goroutine that, on every heartbeat, renews    *)
(* the lease it holds or tries to acquire a free one, and Stop.  Every     *)
(* storage call and critical section of leaderLock is one action.          *)
(*                                                                         *)
(* Absolute times only matter through their distance to now, so every      *)
(* deadline is a countdown that Tick lowers: exp (the expireTime written   *)
(* in the key, truncated to whole seconds by Unix()), ttl (the storage     *)
(* expiration of the key), lease (leaseExpiration) and beat (the ticker).  *)
(* phase is the current time within its second.                            *)
(***************************************************************************)
EXTENDS Integers, FiniteSets

CONSTANTS
    Instances,
    NoOne,          \* the owner of an absent key
    TicksPerSec,    \* clock ticks in a second
    LeaseTimeout,   \* in ticks
    Heartbeat,      \* in ticks
    MaxStalls,      \* bound on the ticks by which running steps are delayed
    MaxCrashes      \* bound on the number of crashes

(* A lease is at least a second, so that a record does not expire before   *)
(* it is written.  The code compares the two intervals nowhere.            *)
ASSUME CoordinatorAssumption ==
    /\ NoOne \notin Instances
    /\ TicksPerSec \in Nat \ {0}
    /\ LeaseTimeout \in Nat
    /\ Heartbeat \in Nat \ {0}
    /\ TicksPerSec <= LeaseTimeout
    /\ MaxStalls \in Nat
    /\ MaxCrashes \in Nat

VARIABLES
    key,         \* "coordinator:leader": owner, exp and ttl
    phase,       \* ticks since the last full second
    isLeader,
    lease,       \* ticks until leaseExpiration
    draft,       \* ticks until the expireTime of the record to be written
    monitor,     \* program counter of the leadership-monitor goroutine
    beat,        \* ticks until its ticker fires
    stopping,    \* program counter of Stop
    superseded,  \* history: ticks as leader since the key was another's
    stalls, crashes

clockVars == <<phase, beat, superseded, stalls>>
vars == <<key, phase, isLeader, lease, draft, monitor, beat, stopping,
          superseded, stalls, crashes>>

NoKey == [owner |-> NoOne, exp |-> 0, ttl |-> 0]

MonitorSteps == {"off", "wait", "acqGet", "acqInfo", "acqSet", "acqVerify", "acqCommit",
                 "renGet", "renInfo", "renSet", "renCommit", "drop", "done"}
StopSteps == {"up", "relGet", "relDelete", "relLocal", "shutdown", "join", "stopped"}

TypeOK ==
    /\ key \in [owner : Instances \cup {NoOne}, exp : 0..LeaseTimeout, ttl : 0..LeaseTimeout]
    /\ phase \in 0..(TicksPerSec - 1)
    /\ isLeader \in [Instances -> BOOLEAN]
    /\ lease \in [Instances -> 0..LeaseTimeout]
    /\ draft \in [Instances -> 0..LeaseTimeout]
    /\ monitor \in [Instances -> MonitorSteps]
    /\ beat \in [Instances -> 0..Heartbeat]
    /\ stopping \in [Instances -> StopSteps]
    /\ superseded \in [Instances -> Nat]
    /\ stalls \in 0..MaxStalls
    /\ crashes \in 0..MaxCrashes

Init ==
    /\ key = NoKey
    /\ phase = 0
    /\ isLeader = [i \in Instances |-> FALSE]
    /\ lease = [i \in Instances |-> 0]
    /\ draft = [i \in Instances |-> 0]
    /\ monitor = [i \in Instances |-> "off"]
    /\ beat = [i \in Instances |-> Heartbeat]
    /\ stopping = [i \in Instances |-> "up"]
    /\ superseded = [i \in Instances |-> 0]
    /\ stalls = 0
    /\ crashes = 0

-----------------------------------------------------------------------------

IsLeader(i) == isLeader[i] /\ lease[i] > 0

(* Mutant of ExpireTime: rounded up to the next second.                    *)
ExpireTimeRoundsUp ==
    LeaseTimeout + TicksPerSec - ((phase + LeaseTimeout) % TicksPerSec)

(* The expireTime of a record made now: now + leaseTimeout, cut to a whole *)
(* second.                                                                 *)
ExpireTime == LeaseTimeout - ((phase + LeaseTimeout) % TicksPerSec)

(* The leader record as Set writes it: its storage expiration counts from  *)
(* the Set, its expireTime from before.                                    *)
LeaderInfo(i) == [owner |-> i, exp |-> draft[i], ttl |-> LeaseTimeout]

MonitorGoto(i, step) == monitor' = [monitor EXCEPT ![i] = step]
StopGoto(i, step) == stopping' = [stopping EXCEPT ![i] = step]

Alive(i) == monitor[i] \notin {"off", "done"}

(* Start: register the instance and launch the goroutines; the monitor     *)
(* tries to acquire leadership at once.                                    *)
Start(i) ==
    /\ monitor[i] = "off"
    /\ stopping[i] = "up"
    /\ MonitorGoto(i, "acqGet")
    /\ beat' = [beat EXCEPT ![i] = Heartbeat]
    /\ UNCHANGED <<key, phase, isLeader, lease, draft, stopping, superseded,
                   stalls, crashes>>

(* The ticker fires: renew or acquire.                                     *)
OnHeartbeat(i) ==
    /\ monitor[i] = "wait"
    /\ beat[i] = 0
    /\ MonitorGoto(i, IF IsLeader(i) THEN "renGet" ELSE "acqGet")
    /\ beat' = [beat EXCEPT ![i] = Heartbeat]
    /\ UNCHANGED <<key, phase, isLeader, lease, draft, stopping, superseded,
                   stalls, crashes>>

-----------------------------------------------------------------------------
(* tryAcquireLeadership                                                    *)

(* Get: a leader whose expireTime has not passed is respected.  An error   *)
(* is taken for a free key; the storage of src/, in memory, fails to Get   *)
(* an absent key only.                                                     *)
AcquireGet(i) ==
    /\ monitor[i] = "acqGet"
    /\ MonitorGoto(i, IF key # NoKey /\ key.exp > 0 THEN "wait" ELSE "acqInfo")
    /\ UNCHANGED <<key, clockVars, isLeader, lease, draft, stopping, crashes>>

(* The new record, before it is stored.                                    *)
AcquireInfo(i) ==
    /\ monitor[i] = "acqInfo"
    /\ draft' = [draft EXCEPT ![i] = ExpireTime]
    /\ MonitorGoto(i, "acqSet")
    /\ UNCHANGED <<key, clockVars, isLeader, lease, stopping, crashes>>

AcquireSet(i) ==
    /\ monitor[i] = "acqSet"
    /\ key' = LeaderInfo(i)
    /\ draft' = [draft EXCEPT ![i] = 0]
    /\ MonitorGoto(i, "acqVerify")
    /\ UNCHANGED <<clockVars, isLeader, lease, stopping, crashes>>

(* Get again: "Verify we're the leader (could be a race)".                 *)
AcquireVerify(i) ==
    /\ monitor[i] = "acqVerify"
    /\ MonitorGoto(i, IF key.owner = i THEN "acqCommit" ELSE "wait")
    /\ UNCHANGED <<key, clockVars, isLeader, lease, draft, stopping, crashes>>

(* Mutant of AcquireCommit: leaseExpiration is not set.                    *)
AcquireCommitNoLease(i) ==
    /\ monitor[i] = "acqCommit"
    /\ isLeader' = [isLeader EXCEPT ![i] = TRUE]
    /\ MonitorGoto(i, "wait")
    /\ UNCHANGED <<key, clockVars, lease, draft, stopping, crashes>>

AcquireCommit(i) ==
    /\ monitor[i] = "acqCommit"
    /\ isLeader' = [isLeader EXCEPT ![i] = TRUE]
    /\ lease' = [lease EXCEPT ![i] = LeaseTimeout]
    /\ MonitorGoto(i, "wait")
    /\ UNCHANGED <<key, clockVars, draft, stopping, crashes>>

-----------------------------------------------------------------------------
(* renewLeadership                                                         *)

(* Mutant of RenewGet: a lost key ends the renewal but not the leadership. *)
RenewGetKeepsFlag(i) ==
    /\ monitor[i] = "renGet"
    /\ MonitorGoto(i, IF key.owner = i THEN "renInfo" ELSE "wait")
    /\ UNCHANGED <<key, clockVars, isLeader, lease, draft, stopping, crashes>>

(* Get: a key that is gone or owned by another instance ends leadership.   *)
RenewGet(i) ==
    /\ monitor[i] = "renGet"
    /\ MonitorGoto(i, IF key.owner = i THEN "renInfo" ELSE "drop")
    /\ UNCHANGED <<key, clockVars, isLeader, lease, draft, stopping, crashes>>

(* A new expireTime in the record that was read.                           *)
RenewInfo(i) ==
    /\ monitor[i] = "renInfo"
    /\ draft' = [draft EXCEPT ![i] = ExpireTime]
    /\ MonitorGoto(i, "renSet")
    /\ UNCHANGED <<key, clockVars, isLeader, lease, stopping, crashes>>

RenewSet(i) ==
    /\ monitor[i] = "renSet"
    /\ key' = LeaderInfo(i)
    /\ draft' = [draft EXCEPT ![i] = 0]
    /\ MonitorGoto(i, "renCommit")
    /\ UNCHANGED <<clockVars, isLeader, lease, stopping, crashes>>

(* Mutant of RenewCommit: the lease is added to what was left of it.       *)
RenewCommitExtends(i) ==
    /\ monitor[i] = "renCommit"
    /\ lease' = [lease EXCEPT ![i] = lease[i] + LeaseTimeout]
    /\ MonitorGoto(i, "wait")
    /\ UNCHANGED <<key, clockVars, isLeader, draft, stopping, crashes>>

RenewCommit(i) ==
    /\ monitor[i] = "renCommit"
    /\ lease' = [lease EXCEPT ![i] = LeaseTimeout]
    /\ MonitorGoto(i, "wait")
    /\ UNCHANGED <<key, clockVars, isLeader, draft, stopping, crashes>>

RenewDrop(i) ==
    /\ monitor[i] = "drop"
    /\ isLeader' = [isLeader EXCEPT ![i] = FALSE]
    /\ superseded' = [superseded EXCEPT ![i] = 0]
    /\ MonitorGoto(i, "wait")
    /\ UNCHANGED <<key, phase, beat, stalls, lease, draft, stopping, crashes>>

-----------------------------------------------------------------------------
(* Stop                                                                    *)

Stop(i) ==
    /\ stopping[i] = "up"
    /\ Alive(i)
    /\ StopGoto(i, IF IsLeader(i) THEN "relGet" ELSE "shutdown")
    /\ UNCHANGED <<key, clockVars, isLeader, lease, draft, monitor, crashes>>

(* releaseLeadership returns early when the key is not this instance's.    *)
ReleaseGet(i) ==
    /\ stopping[i] = "relGet"
    /\ StopGoto(i, IF key.owner = i THEN "relDelete" ELSE "shutdown")
    /\ UNCHANGED <<key, clockVars, isLeader, lease, draft, monitor, crashes>>

(* Delete removes the key whoever owns it by now.                          *)
ReleaseDelete(i) ==
    /\ stopping[i] = "relDelete"
    /\ key' = NoKey
    /\ StopGoto(i, "relLocal")
    /\ UNCHANGED <<clockVars, isLeader, lease, draft, monitor, crashes>>

ReleaseLocal(i) ==
    /\ stopping[i] = "relLocal"
    /\ isLeader' = [isLeader EXCEPT ![i] = FALSE]
    /\ StopGoto(i, "shutdown")
    /\ UNCHANGED <<key, clockVars, lease, draft, monitor, crashes>>

(* registry.Shutdown cancels the context; the monitor notices in select.   *)
Shutdown(i) ==
    /\ stopping[i] = "shutdown"
    /\ StopGoto(i, "join")
    /\ UNCHANGED <<key, clockVars, isLeader, lease, draft, monitor, crashes>>

(* Mutant of CancelSeen: a leader goes on renewing its lease.              *)
CancelSeenByFollower(i) == stopping[i] \in {"join", "stopped"} /\ ~ IsLeader(i)

(* ctx.Done() of the monitor's select is ready.                            *)
CancelSeen(i) == stopping[i] \in {"join", "stopped"}

MonitorExit(i) ==
    /\ monitor[i] = "wait"
    /\ CancelSeen(i)
    /\ MonitorGoto(i, "done")
    /\ UNCHANGED <<key, clockVars, isLeader, lease, draft, stopping, crashes>>

(* Shutdown waits for the monitor.                                         *)
Stopped(i) ==
    /\ stopping[i] = "join"
    /\ monitor[i] = "done"
    /\ StopGoto(i, "stopped")
    /\ UNCHANGED <<key, clockVars, isLeader, lease, draft, monitor, crashes>>

(* Or it gives up: the monitor goes on with what it is doing.  The length  *)
(* of the timeout is left open.                                            *)
StopTimesOut(i) ==
    /\ stopping[i] = "join"
    /\ monitor[i] # "done"
    /\ StopGoto(i, "stopped")
    /\ UNCHANGED <<key, clockVars, isLeader, lease, draft, monitor, crashes>>

(* The process dies: its memory is gone, the key stays behind.             *)
Crash(i) ==
    /\ Alive(i)
    /\ crashes < MaxCrashes
    /\ crashes' = crashes + 1
    /\ isLeader' = [isLeader EXCEPT ![i] = FALSE]
    /\ lease' = [lease EXCEPT ![i] = 0]
    /\ draft' = [draft EXCEPT ![i] = 0]
    /\ MonitorGoto(i, "done")
    /\ StopGoto(i, "stopped")
    /\ UNCHANGED <<key, clockVars>>

-----------------------------------------------------------------------------
(* Time                                                                    *)

(* A step that the scheduler would run now.                                *)
Urgent(i) ==
    \/ monitor[i] \notin {"off", "wait", "done"}
    \/ monitor[i] = "wait" /\ (beat[i] = 0 \/ CancelSeen(i))
    \/ stopping[i] \notin {"up", "join", "stopped"}
    \/ stopping[i] = "join" /\ monitor[i] = "done"

Down(x) == IF x > 0 THEN x - 1 ELSE 0

(* Time passes while nothing is ready to run, or, up to MaxStalls times,   *)
(* although something is: a slow storage call, a long pause.               *)
Tick ==
    /\ \/ /\ \A i \in Instances : ~ Urgent(i)
          /\ UNCHANGED stalls
       \/ /\ \E i \in Instances : Urgent(i)
          /\ stalls < MaxStalls
          /\ stalls' = stalls + 1
    /\ phase' = (phase + 1) % TicksPerSec
    /\ key' = IF key.ttl = 0 THEN NoKey
              ELSE [key EXCEPT !.exp = Down(@), !.ttl = Down(@)]
    /\ lease' = [i \in Instances |-> Down(lease[i])]
    /\ draft' = [i \in Instances |-> Down(draft[i])]
    /\ beat' = [i \in Instances |-> Down(beat[i])]
    /\ superseded' = [i \in Instances |->
          IF isLeader[i] /\ lease[i] > 1 /\ key.owner # i
          THEN superseded[i] + 1 ELSE 0]
    /\ UNCHANGED <<isLeader, monitor, stopping, crashes>>

MonitorStep(i) ==
    \/ OnHeartbeat(i)
    \/ AcquireGet(i) \/ AcquireInfo(i) \/ AcquireSet(i)
    \/ AcquireVerify(i) \/ AcquireCommit(i)
    \/ RenewGet(i) \/ RenewInfo(i) \/ RenewSet(i) \/ RenewCommit(i) \/ RenewDrop(i)
    \/ MonitorExit(i)

StopStep(i) ==
    ReleaseGet(i) \/ ReleaseDelete(i) \/ ReleaseLocal(i) \/ Shutdown(i) \/ Stopped(i)

Next ==
    \/ \E i \in Instances :
          \/ Start(i) \/ Stop(i) \/ StopTimesOut(i) \/ Crash(i)
          \/ MonitorStep(i) \/ StopStep(i)
    \/ Tick

Spec == Init /\ [][Next]_vars

(* Goroutines that can run do, and time goes on.                           *)
FairSpec ==
    /\ Spec
    /\ WF_vars(Tick)
    /\ \A i \in Instances :
          /\ WF_vars(MonitorStep(i))
          /\ WF_vars(StopStep(i))

-----------------------------------------------------------------------------
(* At no time do two instances consider themselves the leader.             *)
AtMostOneLeader ==
    \A i, j \in Instances : IsLeader(i) /\ IsLeader(j) => i = j

(* The verification after Set does not make the election exclusive (see    *)
(* AtMostOneLeader), but it bounds the damage: a running instance whose    *)
(* key was taken over stands down at its next heartbeat.                   *)
SupersededStandsDown ==
    \A i \in Instances :
        stopping[i] = "up" => superseded[i] <= Heartbeat + MaxStalls

(* The holder believes in its lease longer than the others respect it, as  *)
(* expireTime is cut to a whole second and computed before the Set, and    *)
(* leaseExpiration after it: by less than a second plus the delays.        *)
LeaseSkewBounded ==
    \A i \in Instances :
        IsLeader(i) /\ key.owner = i => lease[i] - key.exp < TicksPerSec + MaxStalls

(* As long as an instance runs, leadership is taken up again and again:    *)
(* crashes, stops and races between acquirers never end the election.      *)
LeaderElected ==
    []<>((\E i \in Instances : IsLeader(i)) \/ (\A i \in Instances : ~ Alive(i)))

(* Stop may leave a key behind (the monitor can write it after the release *)
(* and before it notices that the context is cancelled, even after a Stop  *)
(* that gave up waiting), but never one that stays.                        *)
StoppedKeyGoes ==
    \A i \in Instances : (stopping[i] = "stopped") ~> [](key.owner # i)

=============================================================================
