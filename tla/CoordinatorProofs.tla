------------------------- MODULE CoordinatorProofs -------------------------
(***************************************************************************)
(* Theorems about Coordinator for any instances, intervals, delays and     *)
(* crashes: how much longer than the others respect it an instance trusts  *)
(* its lease, and how long an instance that lost the key goes on leading.  *)
(***************************************************************************)
EXTENDS Coordinator, TLAPS

(* A delay between the making of a record, the storage call and the lock   *)
(* is a stall, so the record that an instance is about to write, or has    *)
(* just written, is younger than the stalls so far, and so is the lease    *)
(* that it bases on the record.                                            *)
Writing == {"acqSet", "renSet"}
Committing == {"acqVerify", "acqCommit", "renCommit"}

DraftIsRecent ==
    \A i \in Instances :
        monitor[i] \in Writing => LeaseTimeout - draft[i] < TicksPerSec + stalls

RecordIsRecent ==
    \A i \in Instances :
        key.owner = i /\ monitor[i] \in Committing =>
            LeaseTimeout - key.exp < TicksPerSec + stalls

LeaseNearRecord ==
    \A i \in Instances :
        key.owner = i /\ IsLeader(i) => lease[i] - key.exp < TicksPerSec + stalls

SkewInv == TypeOK /\ DraftIsRecent /\ RecordIsRecent /\ LeaseNearRecord

(* A monitor that has not begun, or has ended.                             *)
MonitorLife ==
    \A i \in Instances :
        /\ monitor[i] = "off" => ~ isLeader[i]
        /\ monitor[i] = "done" => stopping[i] # "up"

(* Time without the key is counted for leaders only.                       *)
OnlyLeadersSuperseded ==
    \A i \in Instances : stopping[i] = "up" /\ ~ IsLeader(i) => superseded[i] = 0

(* Whoever has the key, or is about to write it, was without it for no     *)
(* longer than its steps were delayed.                                     *)
BeforeWrite == {"acqGet", "acqInfo", "acqSet", "renInfo", "renSet"}

BriefBeforeWrite ==
    \A i \in Instances :
        stopping[i] = "up"
          /\ (key.owner = i \/ monitor[i] \in BeforeWrite)
            => superseded[i] <= stalls

(* Until the heartbeat comes round, the time without the key and the time  *)
(* to the heartbeat are one heartbeat and the delays; while the monitor    *)
(* finds out, every further tick is a delay.                               *)
FindingOut == {"renGet", "drop"}

NoticedAtHeartbeat ==
    \A i \in Instances :
        stopping[i] = "up" =>
            superseded[i] + (IF monitor[i] \in FindingOut THEN 0 ELSE beat[i])
                <= Heartbeat + stalls

StandDownInv ==
    /\ TypeOK /\ MonitorLife /\ OnlyLeadersSuperseded
    /\ BriefBeforeWrite /\ NoticedAtHeartbeat

-----------------------------------------------------------------------------
(* The remainder of a whole number by the ticks of a second.               *)
LEMMA Remainder == \A n \in Nat : n % TicksPerSec \in 0..(TicksPerSec - 1)
  BY CoordinatorAssumption

(* The expireTime of a new record is not over yet, and less than a second  *)
(* short of the lease.                                                     *)
LEMMA ExpireFacts ==
    ASSUME TypeOK
    PROVE  /\ ExpireTime \in 0..LeaseTimeout
           /\ LeaseTimeout - ExpireTime < TicksPerSec
  <1>1. phase + LeaseTimeout \in Nat
    BY CoordinatorAssumption DEF TypeOK
  <1> DEFINE r == (phase + LeaseTimeout) % TicksPerSec
  <1>2. r \in 0..(TicksPerSec - 1)
    BY <1>1, Remainder
  <1>3. ExpireTime = LeaseTimeout - r
    BY DEF ExpireTime
  <1> HIDE DEF r
  <1> QED BY <1>2, <1>3, CoordinatorAssumption

(* What Set writes.                                                        *)
LEMMA InfoFacts ==
    ASSUME TypeOK, NEW i \in Instances
    PROVE  /\ LeaderInfo(i).owner = i
           /\ LeaderInfo(i).exp = draft[i]
           /\ LeaderInfo(i) \in [owner : Instances \cup {NoOne}, exp : 0..LeaseTimeout,
                                 ttl : 0..LeaseTimeout]
  BY CoordinatorAssumption DEF LeaderInfo, TypeOK

(* Down counts to zero.                                                    *)
LEMMA DownFacts == \A n \in Nat : Down(n) \in 0..n /\ (n > 0 => Down(n) = n - 1)
  BY DEF Down

(* What a tick does to the key: it goes, or ages by one.                   *)
LEMMA TickKey ==
    ASSUME TypeOK, Tick
    PROVE  \/ key' = NoKey
           \/ /\ key'.owner = key.owner
              /\ key'.exp = Down(key.exp)
              /\ key'.ttl = Down(key.ttl)
              /\ key' \in [owner : Instances \cup {NoOne}, exp : 0..LeaseTimeout,
                           ttl : 0..LeaseTimeout]
  <1>1. CASE key.ttl = 0
    BY <1>1 DEF Tick
  <1>2. CASE key.ttl # 0
    <2>1. key' = [key EXCEPT !.exp = Down(@), !.ttl = Down(@)]
      BY <1>2 DEF Tick
    <2>2. key'.owner = key.owner /\ key'.exp = Down(key.exp) /\ key'.ttl = Down(key.ttl)
      BY <2>1 DEF TypeOK
    <2>3. Down(key.exp) \in 0..LeaseTimeout /\ Down(key.ttl) \in 0..LeaseTimeout
      BY DownFacts, CoordinatorAssumption DEF TypeOK
    <2> QED BY <2>1, <2>2, <2>3 DEF TypeOK
  <1> QED BY <1>1, <1>2

(* A tick during which a step of i is ready is a delay.                    *)
LEMMA TickStalls ==
    ASSUME TypeOK, Tick
    PROVE  /\ stalls' \in {stalls, stalls + 1}
           /\ \A i \in Instances : Urgent(i) => stalls' = stalls + 1
  BY CoordinatorAssumption DEF TypeOK, Tick

(* Type correctness is inductive.                                          *)
LEMMA TypeInductive == TypeOK /\ [Next]_vars => TypeOK'
  <1> SUFFICES ASSUME TypeOK, [Next]_vars PROVE TypeOK'
    OBVIOUS
  <1> USE CoordinatorAssumption DEF TypeOK, MonitorSteps, StopSteps, NoKey, clockVars
  <1>1. ASSUME NEW i \in Instances, Start(i) PROVE TypeOK'
    BY <1>1 DEF Start, MonitorGoto
  <1>2. ASSUME NEW i \in Instances, Stop(i) PROVE TypeOK'
    BY <1>2 DEF Stop, StopGoto, Alive
  <1>3. ASSUME NEW i \in Instances, Crash(i) PROVE TypeOK'
    BY <1>3 DEF Crash, MonitorGoto, StopGoto, Alive
  <1>4. ASSUME NEW i \in Instances, OnHeartbeat(i) PROVE TypeOK'
    BY <1>4 DEF OnHeartbeat, MonitorGoto
  <1>5. ASSUME NEW i \in Instances, AcquireGet(i) PROVE TypeOK'
    BY <1>5 DEF AcquireGet, MonitorGoto
  <1>6. ASSUME NEW i \in Instances, AcquireSet(i) PROVE TypeOK'
    BY <1>6, InfoFacts DEF AcquireSet, MonitorGoto
  <1>7. ASSUME NEW i \in Instances, AcquireVerify(i) PROVE TypeOK'
    BY <1>7 DEF AcquireVerify, MonitorGoto
  <1>8. ASSUME NEW i \in Instances, AcquireCommit(i) PROVE TypeOK'
    BY <1>8 DEF AcquireCommit, MonitorGoto
  <1>9. ASSUME NEW i \in Instances, RenewGet(i) PROVE TypeOK'
    BY <1>9 DEF RenewGet, MonitorGoto
  <1>10. ASSUME NEW i \in Instances, RenewSet(i) PROVE TypeOK'
    BY <1>10, InfoFacts DEF RenewSet, MonitorGoto
  <1>11. ASSUME NEW i \in Instances, RenewCommit(i) PROVE TypeOK'
    BY <1>11 DEF RenewCommit, MonitorGoto
  <1>12. ASSUME NEW i \in Instances, RenewDrop(i) PROVE TypeOK'
    BY <1>12 DEF RenewDrop, MonitorGoto
  <1>13. ASSUME NEW i \in Instances, MonitorExit(i) PROVE TypeOK'
    BY <1>13 DEF MonitorExit, MonitorGoto, CancelSeen
  <1>14. ASSUME NEW i \in Instances, ReleaseGet(i) PROVE TypeOK'
    BY <1>14 DEF ReleaseGet, StopGoto
  <1>15. ASSUME NEW i \in Instances, ReleaseDelete(i) PROVE TypeOK'
    BY <1>15 DEF ReleaseDelete, StopGoto
  <1>16. ASSUME NEW i \in Instances, ReleaseLocal(i) PROVE TypeOK'
    BY <1>16 DEF ReleaseLocal, StopGoto
  <1>17. ASSUME NEW i \in Instances, Shutdown(i) PROVE TypeOK'
    BY <1>17 DEF Shutdown, StopGoto
  <1>18. ASSUME NEW i \in Instances, Stopped(i) PROVE TypeOK'
    BY <1>18 DEF Stopped, StopGoto
  <1>19. CASE Tick
    <2>1. key' \in [owner : Instances \cup {NoOne}, exp : 0..LeaseTimeout, ttl : 0..LeaseTimeout]
      BY <1>19, TickKey DEF NoKey
    <2>2. phase' \in 0..(TicksPerSec - 1)
      BY <1>19, Remainder DEF Tick
    <2>3. stalls' \in 0..MaxStalls
      BY <1>19 DEF Tick
    <2>4. superseded' \in [Instances -> Nat]
      BY <1>19 DEF Tick
    <2>5. /\ lease' \in [Instances -> 0..LeaseTimeout]
          /\ draft' \in [Instances -> 0..LeaseTimeout]
          /\ beat' \in [Instances -> 0..Heartbeat]
      BY <1>19, DownFacts DEF Tick
    <2> QED BY <1>19, <2>1, <2>2, <2>3, <2>4, <2>5 DEF Tick
  <1>20. CASE UNCHANGED vars
    BY <1>20 DEF vars
  <1>21. ASSUME NEW i \in Instances, AcquireInfo(i) PROVE TypeOK'
    BY <1>21, ExpireFacts DEF AcquireInfo, MonitorGoto
  <1>22. ASSUME NEW i \in Instances, RenewInfo(i) PROVE TypeOK'
    BY <1>22, ExpireFacts DEF RenewInfo, MonitorGoto
  <1>23. ASSUME NEW i \in Instances, StopTimesOut(i) PROVE TypeOK'
    BY <1>23 DEF StopTimesOut, StopGoto
  <1> QED
    BY <1>1, <1>2, <1>3, <1>4, <1>5, <1>6, <1>7, <1>8, <1>9,
       <1>10, <1>11, <1>12, <1>13, <1>14, <1>15, <1>16, <1>17, <1>18, <1>19,
       <1>20, <1>21, <1>22, <1>23 DEF Next, MonitorStep, StopStep

(* The record that an instance is about to write is no older than the      *)
(* delays.                                                                 *)
LEMMA DraftInductive == TypeOK /\ DraftIsRecent /\ [Next]_vars => DraftIsRecent'
  <1> SUFFICES ASSUME TypeOK, DraftIsRecent, [Next]_vars PROVE DraftIsRecent'
    OBVIOUS
  <1> USE CoordinatorAssumption DEF TypeOK, DraftIsRecent, Writing, NoKey, clockVars
  <1>1. ASSUME NEW i \in Instances, Start(i) PROVE DraftIsRecent'
    BY <1>1 DEF Start, MonitorGoto
  <1>2. ASSUME NEW i \in Instances, Stop(i) PROVE DraftIsRecent'
    BY <1>2 DEF Stop, StopGoto, Alive
  <1>3. ASSUME NEW i \in Instances, Crash(i) PROVE DraftIsRecent'
    BY <1>3 DEF Crash, MonitorGoto, StopGoto, Alive
  <1>4. ASSUME NEW i \in Instances, OnHeartbeat(i) PROVE DraftIsRecent'
    BY <1>4 DEF OnHeartbeat, MonitorGoto
  <1>5. ASSUME NEW i \in Instances, AcquireGet(i) PROVE DraftIsRecent'
    BY <1>5 DEF AcquireGet, MonitorGoto
  <1>6. ASSUME NEW i \in Instances, AcquireSet(i) PROVE DraftIsRecent'
    BY <1>6, InfoFacts DEF AcquireSet, MonitorGoto
  <1>7. ASSUME NEW i \in Instances, AcquireVerify(i) PROVE DraftIsRecent'
    BY <1>7 DEF AcquireVerify, MonitorGoto
  <1>8. ASSUME NEW i \in Instances, AcquireCommit(i) PROVE DraftIsRecent'
    BY <1>8 DEF AcquireCommit, MonitorGoto
  <1>9. ASSUME NEW i \in Instances, RenewGet(i) PROVE DraftIsRecent'
    BY <1>9 DEF RenewGet, MonitorGoto
  <1>10. ASSUME NEW i \in Instances, RenewSet(i) PROVE DraftIsRecent'
    BY <1>10, InfoFacts DEF RenewSet, MonitorGoto
  <1>11. ASSUME NEW i \in Instances, RenewCommit(i) PROVE DraftIsRecent'
    BY <1>11 DEF RenewCommit, MonitorGoto
  <1>12. ASSUME NEW i \in Instances, RenewDrop(i) PROVE DraftIsRecent'
    BY <1>12 DEF RenewDrop, MonitorGoto
  <1>13. ASSUME NEW i \in Instances, MonitorExit(i) PROVE DraftIsRecent'
    BY <1>13 DEF MonitorExit, MonitorGoto, CancelSeen
  <1>14. ASSUME NEW i \in Instances, ReleaseGet(i) PROVE DraftIsRecent'
    BY <1>14 DEF ReleaseGet, StopGoto
  <1>15. ASSUME NEW i \in Instances, ReleaseDelete(i) PROVE DraftIsRecent'
    BY <1>15 DEF ReleaseDelete, StopGoto
  <1>16. ASSUME NEW i \in Instances, ReleaseLocal(i) PROVE DraftIsRecent'
    BY <1>16 DEF ReleaseLocal, StopGoto
  <1>17. ASSUME NEW i \in Instances, Shutdown(i) PROVE DraftIsRecent'
    BY <1>17 DEF Shutdown, StopGoto
  <1>18. ASSUME NEW i \in Instances, Stopped(i) PROVE DraftIsRecent'
    BY <1>18 DEF Stopped, StopGoto
  <1>19. CASE Tick
    <2> SUFFICES ASSUME NEW i \in Instances, monitor[i] \in Writing
                 PROVE  LeaseTimeout - draft'[i] < TicksPerSec + stalls'
      BY <1>19 DEF Tick
    <2>1. stalls' = stalls + 1
      BY <1>19, TickStalls DEF Urgent
    <2>2. draft'[i] >= draft[i] - 1 /\ draft'[i] \in Nat
      BY <1>19, DownFacts DEF Tick
    <2> QED BY <2>1, <2>2
  <1>20. CASE UNCHANGED vars
    BY <1>20 DEF vars
  <1>21. ASSUME NEW i \in Instances, AcquireInfo(i) PROVE DraftIsRecent'
    BY <1>21, ExpireFacts DEF AcquireInfo, MonitorGoto
  <1>22. ASSUME NEW i \in Instances, RenewInfo(i) PROVE DraftIsRecent'
    BY <1>22, ExpireFacts DEF RenewInfo, MonitorGoto
  <1>23. ASSUME NEW i \in Instances, StopTimesOut(i) PROVE DraftIsRecent'
    BY <1>23 DEF StopTimesOut, StopGoto
  <1> QED
    BY <1>1, <1>2, <1>3, <1>4, <1>5, <1>6, <1>7, <1>8, <1>9,
       <1>10, <1>11, <1>12, <1>13, <1>14, <1>15, <1>16, <1>17, <1>18, <1>19,
       <1>20, <1>21, <1>22, <1>23 DEF Next, MonitorStep, StopStep

(* The record of a committing instance is no older than the delays.        *)
LEMMA RecordInductive ==
    TypeOK /\ DraftIsRecent /\ RecordIsRecent /\ [Next]_vars => RecordIsRecent'
  <1> SUFFICES ASSUME TypeOK, DraftIsRecent, RecordIsRecent, [Next]_vars PROVE RecordIsRecent'
    OBVIOUS
  <1> USE CoordinatorAssumption DEF TypeOK, RecordIsRecent, Committing, NoKey, clockVars
  <1>1. ASSUME NEW i \in Instances, Start(i) PROVE RecordIsRecent'
    BY <1>1 DEF Start, MonitorGoto
  <1>2. ASSUME NEW i \in Instances, Stop(i) PROVE RecordIsRecent'
    BY <1>2 DEF Stop, StopGoto, Alive
  <1>3. ASSUME NEW i \in Instances, Crash(i) PROVE RecordIsRecent'
    BY <1>3 DEF Crash, MonitorGoto, StopGoto, Alive
  <1>4. ASSUME NEW i \in Instances, OnHeartbeat(i) PROVE RecordIsRecent'
    BY <1>4 DEF OnHeartbeat, MonitorGoto
  <1>5. ASSUME NEW i \in Instances, AcquireGet(i) PROVE RecordIsRecent'
    BY <1>5 DEF AcquireGet, MonitorGoto
  <1>6. ASSUME NEW i \in Instances, AcquireSet(i) PROVE RecordIsRecent'
    BY <1>6, InfoFacts DEF AcquireSet, MonitorGoto, DraftIsRecent, Writing
  <1>7. ASSUME NEW i \in Instances, AcquireVerify(i) PROVE RecordIsRecent'
    BY <1>7 DEF AcquireVerify, MonitorGoto
  <1>8. ASSUME NEW i \in Instances, AcquireCommit(i) PROVE RecordIsRecent'
    BY <1>8 DEF AcquireCommit, MonitorGoto
  <1>9. ASSUME NEW i \in Instances, RenewGet(i) PROVE RecordIsRecent'
    BY <1>9 DEF RenewGet, MonitorGoto
  <1>10. ASSUME NEW i \in Instances, RenewSet(i) PROVE RecordIsRecent'
    BY <1>10, InfoFacts DEF RenewSet, MonitorGoto, DraftIsRecent, Writing
  <1>11. ASSUME NEW i \in Instances, RenewCommit(i) PROVE RecordIsRecent'
    BY <1>11 DEF RenewCommit, MonitorGoto
  <1>12. ASSUME NEW i \in Instances, RenewDrop(i) PROVE RecordIsRecent'
    BY <1>12 DEF RenewDrop, MonitorGoto
  <1>13. ASSUME NEW i \in Instances, MonitorExit(i) PROVE RecordIsRecent'
    BY <1>13 DEF MonitorExit, MonitorGoto, CancelSeen
  <1>14. ASSUME NEW i \in Instances, ReleaseGet(i) PROVE RecordIsRecent'
    BY <1>14 DEF ReleaseGet, StopGoto
  <1>15. ASSUME NEW i \in Instances, ReleaseDelete(i) PROVE RecordIsRecent'
    BY <1>15 DEF ReleaseDelete, StopGoto
  <1>16. ASSUME NEW i \in Instances, ReleaseLocal(i) PROVE RecordIsRecent'
    BY <1>16 DEF ReleaseLocal, StopGoto
  <1>17. ASSUME NEW i \in Instances, Shutdown(i) PROVE RecordIsRecent'
    BY <1>17 DEF Shutdown, StopGoto
  <1>18. ASSUME NEW i \in Instances, Stopped(i) PROVE RecordIsRecent'
    BY <1>18 DEF Stopped, StopGoto
  <1>19. CASE Tick
    <2> SUFFICES ASSUME NEW i \in Instances, key'.owner = i, monitor'[i] \in Committing
                 PROVE  LeaseTimeout - key'.exp < TicksPerSec + stalls'
      BY DEF Committing
    <2>1. key.owner = i /\ key'.exp = Down(key.exp)
      BY <1>19, TickKey
    <2>2. monitor[i] \in Committing
      BY <1>19 DEF Tick
    <2>3. stalls' = stalls + 1
      BY <1>19, <2>2, TickStalls DEF Urgent
    <2>4. key'.exp >= key.exp - 1 /\ key'.exp \in Nat
      BY <2>1, DownFacts
    <2> QED BY <2>1, <2>2, <2>3, <2>4
  <1>20. CASE UNCHANGED vars
    BY <1>20 DEF vars
  <1>21. ASSUME NEW i \in Instances, AcquireInfo(i) PROVE RecordIsRecent'
    BY <1>21 DEF AcquireInfo, MonitorGoto
  <1>22. ASSUME NEW i \in Instances, RenewInfo(i) PROVE RecordIsRecent'
    BY <1>22 DEF RenewInfo, MonitorGoto
  <1>23. ASSUME NEW i \in Instances, StopTimesOut(i) PROVE RecordIsRecent'
    BY <1>23 DEF StopTimesOut, StopGoto
  <1> QED
    BY <1>1, <1>2, <1>3, <1>4, <1>5, <1>6, <1>7, <1>8, <1>9,
       <1>10, <1>11, <1>12, <1>13, <1>14, <1>15, <1>16, <1>17, <1>18, <1>19,
       <1>20, <1>21, <1>22, <1>23 DEF Next, MonitorStep, StopStep

(* A lease is based on such a record, and both count down together.        *)
LEMMA LeaseInductive ==
    TypeOK /\ DraftIsRecent /\ RecordIsRecent /\ LeaseNearRecord /\ [Next]_vars
      => LeaseNearRecord'
  <1> SUFFICES ASSUME TypeOK, DraftIsRecent, RecordIsRecent, LeaseNearRecord, [Next]_vars
               PROVE  LeaseNearRecord'
    OBVIOUS
  <1> USE CoordinatorAssumption DEF TypeOK, LeaseNearRecord, IsLeader, NoKey, clockVars
  <1>1. ASSUME NEW i \in Instances, Start(i) PROVE LeaseNearRecord'
    BY <1>1 DEF Start, MonitorGoto
  <1>2. ASSUME NEW i \in Instances, Stop(i) PROVE LeaseNearRecord'
    BY <1>2 DEF Stop, StopGoto, Alive
  <1>3. ASSUME NEW i \in Instances, Crash(i) PROVE LeaseNearRecord'
    BY <1>3 DEF Crash, MonitorGoto, StopGoto, Alive
  <1>4. ASSUME NEW i \in Instances, OnHeartbeat(i) PROVE LeaseNearRecord'
    BY <1>4 DEF OnHeartbeat, MonitorGoto
  <1>5. ASSUME NEW i \in Instances, AcquireGet(i) PROVE LeaseNearRecord'
    BY <1>5 DEF AcquireGet, MonitorGoto
  <1>6. ASSUME NEW i \in Instances, AcquireSet(i) PROVE LeaseNearRecord'
    BY <1>6, InfoFacts DEF AcquireSet, MonitorGoto, DraftIsRecent, Writing
  <1>7. ASSUME NEW i \in Instances, AcquireVerify(i) PROVE LeaseNearRecord'
    BY <1>7 DEF AcquireVerify, MonitorGoto
  <1>8. ASSUME NEW i \in Instances, AcquireCommit(i) PROVE LeaseNearRecord'
    BY <1>8 DEF AcquireCommit, MonitorGoto, RecordIsRecent, Committing
  <1>9. ASSUME NEW i \in Instances, RenewGet(i) PROVE LeaseNearRecord'
    BY <1>9 DEF RenewGet, MonitorGoto
  <1>10. ASSUME NEW i \in Instances, RenewSet(i) PROVE LeaseNearRecord'
    BY <1>10, InfoFacts DEF RenewSet, MonitorGoto, DraftIsRecent, Writing
  <1>11. ASSUME NEW i \in Instances, RenewCommit(i) PROVE LeaseNearRecord'
    BY <1>11 DEF RenewCommit, MonitorGoto, RecordIsRecent, Committing
  <1>12. ASSUME NEW i \in Instances, RenewDrop(i) PROVE LeaseNearRecord'
    BY <1>12 DEF RenewDrop, MonitorGoto
  <1>13. ASSUME NEW i \in Instances, MonitorExit(i) PROVE LeaseNearRecord'
    BY <1>13 DEF MonitorExit, MonitorGoto, CancelSeen
  <1>14. ASSUME NEW i \in Instances, ReleaseGet(i) PROVE LeaseNearRecord'
    BY <1>14 DEF ReleaseGet, StopGoto
  <1>15. ASSUME NEW i \in Instances, ReleaseDelete(i) PROVE LeaseNearRecord'
    BY <1>15 DEF ReleaseDelete, StopGoto
  <1>16. ASSUME NEW i \in Instances, ReleaseLocal(i) PROVE LeaseNearRecord'
    BY <1>16 DEF ReleaseLocal, StopGoto
  <1>17. ASSUME NEW i \in Instances, Shutdown(i) PROVE LeaseNearRecord'
    BY <1>17 DEF Shutdown, StopGoto
  <1>18. ASSUME NEW i \in Instances, Stopped(i) PROVE LeaseNearRecord'
    BY <1>18 DEF Stopped, StopGoto
  <1>19. CASE Tick
    <2> SUFFICES ASSUME NEW i \in Instances, key'.owner = i, isLeader'[i], lease'[i] > 0
                 PROVE  lease'[i] - key'.exp < TicksPerSec + stalls'
      OBVIOUS
    <2>1. key.owner = i /\ key'.exp = Down(key.exp)
      BY <1>19, TickKey
    <2>2. key'.exp >= key.exp - 1 /\ key'.exp \in Nat
      BY <2>1, DownFacts
    <2>3. isLeader[i] /\ lease'[i] = Down(lease[i])
      BY <1>19 DEF Tick
    <2>4. lease[i] > 0 /\ lease'[i] = lease[i] - 1
      BY <2>3 DEF Down
    <2>5. stalls' >= stalls /\ stalls' \in Nat
      BY <1>19, TickStalls
    <2>6. lease[i] - key.exp < TicksPerSec + stalls
      BY <2>1, <2>3, <2>4
    <2> QED BY <2>2, <2>4, <2>5, <2>6
  <1>20. CASE UNCHANGED vars
    BY <1>20 DEF vars
  <1>21. ASSUME NEW i \in Instances, AcquireInfo(i) PROVE LeaseNearRecord'
    BY <1>21 DEF AcquireInfo, MonitorGoto
  <1>22. ASSUME NEW i \in Instances, RenewInfo(i) PROVE LeaseNearRecord'
    BY <1>22 DEF RenewInfo, MonitorGoto
  <1>23. ASSUME NEW i \in Instances, StopTimesOut(i) PROVE LeaseNearRecord'
    BY <1>23 DEF StopTimesOut, StopGoto
  <1> QED
    BY <1>1, <1>2, <1>3, <1>4, <1>5, <1>6, <1>7, <1>8, <1>9,
       <1>10, <1>11, <1>12, <1>13, <1>14, <1>15, <1>16, <1>17, <1>18, <1>19,
       <1>20, <1>21, <1>22, <1>23 DEF Next, MonitorStep, StopStep

(* Type correctness and SkewInv hold at the start.                         *)
LEMMA SkewInit == Init => SkewInv
  BY CoordinatorAssumption
     DEF Init, SkewInv, TypeOK, DraftIsRecent, RecordIsRecent, LeaseNearRecord,
         IsLeader, NoKey, MonitorSteps, StopSteps, Writing, Committing

(* Every variable keeps its type: the truncated expireTime of the leader   *)
(* record is never negative nor beyond the lease, for any clock and lease. *)
THEOREM TypeCorrect == Spec => []TypeOK
  <1>1. Init => TypeOK
    BY SkewInit DEF SkewInv
  <1> QED BY <1>1, TypeInductive, PTL DEF Spec

(* The holder of the key trusts its lease for less than a second, plus the *)
(* delays of its own steps, longer than the others respect the record, for *)
(* any number of instances: leaseExpiration (lines 360 and 423) against    *)
(* the expireTime cut by Unix() (lines 327 and 407).                       *)
THEOREM SkewBounded == Spec => []LeaseSkewBounded
  <1>1. SkewInv /\ [Next]_vars => SkewInv'
    BY TypeInductive, DraftInductive, RecordInductive, LeaseInductive DEF SkewInv
  <1>2. SkewInv => LeaseSkewBounded
    <2> SUFFICES ASSUME SkewInv, NEW i \in Instances, IsLeader(i), key.owner = i
                 PROVE  lease[i] - key.exp < TicksPerSec + MaxStalls
      BY DEF LeaseSkewBounded
    <2>1. lease[i] - key.exp < TicksPerSec + stalls
      BY DEF SkewInv, LeaseNearRecord
    <2> QED BY <2>1, CoordinatorAssumption DEF SkewInv, TypeOK
  <1> QED BY SkewInit, <1>1, <1>2, PTL DEF Spec

-----------------------------------------------------------------------------
(* Monitors begin as followers, and end only for an instance that stops.   *)
LEMMA LifeInductive == TypeOK /\ MonitorLife /\ [Next]_vars => MonitorLife'
  <1> SUFFICES ASSUME TypeOK, MonitorLife, [Next]_vars PROVE MonitorLife'
    OBVIOUS
  <1> USE CoordinatorAssumption DEF TypeOK, MonitorLife, clockVars
  <1>1. ASSUME NEW i \in Instances, Start(i) PROVE MonitorLife'
    BY <1>1 DEF Start, MonitorGoto
  <1>2. ASSUME NEW i \in Instances, Stop(i) PROVE MonitorLife'
    BY <1>2 DEF Stop, StopGoto, Alive
  <1>3. ASSUME NEW i \in Instances, Crash(i) PROVE MonitorLife'
    BY <1>3 DEF Crash, MonitorGoto, StopGoto, Alive
  <1>4. ASSUME NEW i \in Instances, OnHeartbeat(i) PROVE MonitorLife'
    BY <1>4 DEF OnHeartbeat, MonitorGoto
  <1>5. ASSUME NEW i \in Instances, AcquireGet(i) PROVE MonitorLife'
    BY <1>5 DEF AcquireGet, MonitorGoto
  <1>6. ASSUME NEW i \in Instances, AcquireSet(i) PROVE MonitorLife'
    BY <1>6 DEF AcquireSet, MonitorGoto
  <1>7. ASSUME NEW i \in Instances, AcquireVerify(i) PROVE MonitorLife'
    BY <1>7 DEF AcquireVerify, MonitorGoto
  <1>8. ASSUME NEW i \in Instances, AcquireCommit(i) PROVE MonitorLife'
    BY <1>8 DEF AcquireCommit, MonitorGoto
  <1>9. ASSUME NEW i \in Instances, RenewGet(i) PROVE MonitorLife'
    BY <1>9 DEF RenewGet, MonitorGoto
  <1>10. ASSUME NEW i \in Instances, RenewSet(i) PROVE MonitorLife'
    BY <1>10 DEF RenewSet, MonitorGoto
  <1>11. ASSUME NEW i \in Instances, RenewCommit(i) PROVE MonitorLife'
    BY <1>11 DEF RenewCommit, MonitorGoto
  <1>12. ASSUME NEW i \in Instances, RenewDrop(i) PROVE MonitorLife'
    BY <1>12 DEF RenewDrop, MonitorGoto
  <1>13. ASSUME NEW i \in Instances, MonitorExit(i) PROVE MonitorLife'
    BY <1>13 DEF MonitorExit, MonitorGoto, CancelSeen
  <1>14. ASSUME NEW i \in Instances, ReleaseGet(i) PROVE MonitorLife'
    BY <1>14 DEF ReleaseGet, StopGoto
  <1>15. ASSUME NEW i \in Instances, ReleaseDelete(i) PROVE MonitorLife'
    BY <1>15 DEF ReleaseDelete, StopGoto
  <1>16. ASSUME NEW i \in Instances, ReleaseLocal(i) PROVE MonitorLife'
    BY <1>16 DEF ReleaseLocal, StopGoto
  <1>17. ASSUME NEW i \in Instances, Shutdown(i) PROVE MonitorLife'
    BY <1>17 DEF Shutdown, StopGoto
  <1>18. ASSUME NEW i \in Instances, Stopped(i) PROVE MonitorLife'
    BY <1>18 DEF Stopped, StopGoto
  <1>19. CASE Tick
    BY <1>19 DEF Tick
  <1>20. CASE UNCHANGED vars
    BY <1>20 DEF vars
  <1>21. ASSUME NEW i \in Instances, AcquireInfo(i) PROVE MonitorLife'
    BY <1>21 DEF AcquireInfo, MonitorGoto
  <1>22. ASSUME NEW i \in Instances, RenewInfo(i) PROVE MonitorLife'
    BY <1>22 DEF RenewInfo, MonitorGoto
  <1>23. ASSUME NEW i \in Instances, StopTimesOut(i) PROVE MonitorLife'
    BY <1>23 DEF StopTimesOut, StopGoto
  <1> QED
    BY <1>1, <1>2, <1>3, <1>4, <1>5, <1>6, <1>7, <1>8, <1>9,
       <1>10, <1>11, <1>12, <1>13, <1>14, <1>15, <1>16, <1>17, <1>18, <1>19,
       <1>20, <1>21, <1>22, <1>23 DEF Next, MonitorStep, StopStep

(* A tick counts only for an instance that still leads after it.           *)
LEMMA LeadersInductive == TypeOK /\ OnlyLeadersSuperseded /\ [Next]_vars => OnlyLeadersSuperseded'
  <1> SUFFICES ASSUME TypeOK, OnlyLeadersSuperseded, [Next]_vars PROVE OnlyLeadersSuperseded'
    OBVIOUS
  <1> USE CoordinatorAssumption DEF TypeOK, OnlyLeadersSuperseded, IsLeader, clockVars
  <1>1. ASSUME NEW i \in Instances, Start(i) PROVE OnlyLeadersSuperseded'
    BY <1>1 DEF Start, MonitorGoto
  <1>2. ASSUME NEW i \in Instances, Stop(i) PROVE OnlyLeadersSuperseded'
    BY <1>2 DEF Stop, StopGoto, Alive
  <1>3. ASSUME NEW i \in Instances, Crash(i) PROVE OnlyLeadersSuperseded'
    BY <1>3 DEF Crash, MonitorGoto, StopGoto, Alive
  <1>4. ASSUME NEW i \in Instances, OnHeartbeat(i) PROVE OnlyLeadersSuperseded'
    BY <1>4 DEF OnHeartbeat, MonitorGoto
  <1>5. ASSUME NEW i \in Instances, AcquireGet(i) PROVE OnlyLeadersSuperseded'
    BY <1>5 DEF AcquireGet, MonitorGoto
  <1>6. ASSUME NEW i \in Instances, AcquireSet(i) PROVE OnlyLeadersSuperseded'
    BY <1>6 DEF AcquireSet, MonitorGoto
  <1>7. ASSUME NEW i \in Instances, AcquireVerify(i) PROVE OnlyLeadersSuperseded'
    BY <1>7 DEF AcquireVerify, MonitorGoto
  <1>8. ASSUME NEW i \in Instances, AcquireCommit(i) PROVE OnlyLeadersSuperseded'
    BY <1>8 DEF AcquireCommit, MonitorGoto
  <1>9. ASSUME NEW i \in Instances, RenewGet(i) PROVE OnlyLeadersSuperseded'
    BY <1>9 DEF RenewGet, MonitorGoto
  <1>10. ASSUME NEW i \in Instances, RenewSet(i) PROVE OnlyLeadersSuperseded'
    BY <1>10 DEF RenewSet, MonitorGoto
  <1>11. ASSUME NEW i \in Instances, RenewCommit(i) PROVE OnlyLeadersSuperseded'
    BY <1>11 DEF RenewCommit, MonitorGoto
  <1>12. ASSUME NEW i \in Instances, RenewDrop(i) PROVE OnlyLeadersSuperseded'
    BY <1>12 DEF RenewDrop, MonitorGoto
  <1>13. ASSUME NEW i \in Instances, MonitorExit(i) PROVE OnlyLeadersSuperseded'
    BY <1>13 DEF MonitorExit, MonitorGoto, CancelSeen
  <1>14. ASSUME NEW i \in Instances, ReleaseGet(i) PROVE OnlyLeadersSuperseded'
    BY <1>14 DEF ReleaseGet, StopGoto
  <1>15. ASSUME NEW i \in Instances, ReleaseDelete(i) PROVE OnlyLeadersSuperseded'
    BY <1>15 DEF ReleaseDelete, StopGoto
  <1>16. ASSUME NEW i \in Instances, ReleaseLocal(i) PROVE OnlyLeadersSuperseded'
    BY <1>16 DEF ReleaseLocal, StopGoto
  <1>17. ASSUME NEW i \in Instances, Shutdown(i) PROVE OnlyLeadersSuperseded'
    BY <1>17 DEF Shutdown, StopGoto
  <1>18. ASSUME NEW i \in Instances, Stopped(i) PROVE OnlyLeadersSuperseded'
    BY <1>18 DEF Stopped, StopGoto
  <1>19. CASE Tick
    <2> SUFFICES ASSUME NEW i \in Instances, ~ (isLeader'[i] /\ lease'[i] > 0)
                 PROVE  superseded'[i] = 0
      OBVIOUS
    <2>1. isLeader'[i] = isLeader[i] /\ lease'[i] = Down(lease[i])
      BY <1>19 DEF Tick
    <2>2. ~ (isLeader[i] /\ lease[i] > 1)
      BY <2>1, DownFacts
    <2> QED BY <1>19, <2>2 DEF Tick
  <1>20. CASE UNCHANGED vars
    BY <1>20 DEF vars
  <1>21. ASSUME NEW i \in Instances, AcquireInfo(i) PROVE OnlyLeadersSuperseded'
    BY <1>21 DEF AcquireInfo, MonitorGoto
  <1>22. ASSUME NEW i \in Instances, RenewInfo(i) PROVE OnlyLeadersSuperseded'
    BY <1>22 DEF RenewInfo, MonitorGoto
  <1>23. ASSUME NEW i \in Instances, StopTimesOut(i) PROVE OnlyLeadersSuperseded'
    BY <1>23 DEF StopTimesOut, StopGoto
  <1> QED
    BY <1>1, <1>2, <1>3, <1>4, <1>5, <1>6, <1>7, <1>8, <1>9,
       <1>10, <1>11, <1>12, <1>13, <1>14, <1>15, <1>16, <1>17, <1>18, <1>19,
       <1>20, <1>21, <1>22, <1>23 DEF Next, MonitorStep, StopStep

(* A write of the key comes soon after the instance found it its own or    *)
(* free.                                                                   *)
LEMMA BriefInductive ==
    TypeOK /\ MonitorLife /\ OnlyLeadersSuperseded
      /\ BriefBeforeWrite /\ [Next]_vars => BriefBeforeWrite'
  <1> SUFFICES ASSUME TypeOK, MonitorLife, OnlyLeadersSuperseded, BriefBeforeWrite, [Next]_vars
               PROVE  BriefBeforeWrite'
    OBVIOUS
  <1> USE CoordinatorAssumption DEF TypeOK, BriefBeforeWrite, BeforeWrite, NoKey, clockVars
  <1>1. ASSUME NEW i \in Instances, Start(i) PROVE BriefBeforeWrite'
    BY <1>1 DEF Start, MonitorGoto, OnlyLeadersSuperseded, MonitorLife, IsLeader
  <1>2. ASSUME NEW i \in Instances, Stop(i) PROVE BriefBeforeWrite'
    BY <1>2 DEF Stop, StopGoto, Alive
  <1>3. ASSUME NEW i \in Instances, Crash(i) PROVE BriefBeforeWrite'
    BY <1>3 DEF Crash, MonitorGoto, StopGoto, Alive
  <1>4. ASSUME NEW i \in Instances, OnHeartbeat(i) PROVE BriefBeforeWrite'
    BY <1>4 DEF OnHeartbeat, MonitorGoto, OnlyLeadersSuperseded
  <1>5. ASSUME NEW i \in Instances, AcquireGet(i) PROVE BriefBeforeWrite'
    BY <1>5 DEF AcquireGet, MonitorGoto
  <1>6. ASSUME NEW i \in Instances, AcquireSet(i) PROVE BriefBeforeWrite'
    BY <1>6, InfoFacts DEF AcquireSet, MonitorGoto
  <1>7. ASSUME NEW i \in Instances, AcquireVerify(i) PROVE BriefBeforeWrite'
    BY <1>7 DEF AcquireVerify, MonitorGoto
  <1>8. ASSUME NEW i \in Instances, AcquireCommit(i) PROVE BriefBeforeWrite'
    BY <1>8 DEF AcquireCommit, MonitorGoto
  <1>9. ASSUME NEW i \in Instances, RenewGet(i) PROVE BriefBeforeWrite'
    BY <1>9 DEF RenewGet, MonitorGoto
  <1>10. ASSUME NEW i \in Instances, RenewSet(i) PROVE BriefBeforeWrite'
    BY <1>10, InfoFacts DEF RenewSet, MonitorGoto
  <1>11. ASSUME NEW i \in Instances, RenewCommit(i) PROVE BriefBeforeWrite'
    BY <1>11 DEF RenewCommit, MonitorGoto
  <1>12. ASSUME NEW i \in Instances, RenewDrop(i) PROVE BriefBeforeWrite'
    BY <1>12 DEF RenewDrop, MonitorGoto
  <1>13. ASSUME NEW i \in Instances, MonitorExit(i) PROVE BriefBeforeWrite'
    BY <1>13 DEF MonitorExit, MonitorGoto, CancelSeen
  <1>14. ASSUME NEW i \in Instances, ReleaseGet(i) PROVE BriefBeforeWrite'
    BY <1>14 DEF ReleaseGet, StopGoto
  <1>15. ASSUME NEW i \in Instances, ReleaseDelete(i) PROVE BriefBeforeWrite'
    BY <1>15 DEF ReleaseDelete, StopGoto
  <1>16. ASSUME NEW i \in Instances, ReleaseLocal(i) PROVE BriefBeforeWrite'
    BY <1>16 DEF ReleaseLocal, StopGoto
  <1>17. ASSUME NEW i \in Instances, Shutdown(i) PROVE BriefBeforeWrite'
    BY <1>17 DEF Shutdown, StopGoto
  <1>18. ASSUME NEW i \in Instances, Stopped(i) PROVE BriefBeforeWrite'
    BY <1>18 DEF Stopped, StopGoto
  <1>19. CASE Tick
    <2> SUFFICES ASSUME NEW i \in Instances, stopping'[i] = "up",
                        key'.owner = i \/ monitor'[i] \in BeforeWrite
                 PROVE  superseded'[i] <= stalls'
      OBVIOUS
    <2>1. stopping[i] = "up" /\ monitor'[i] = monitor[i]
      BY <1>19 DEF Tick
    <2>2. stalls' >= stalls /\ stalls' \in Nat
      BY <1>19, TickStalls
    <2>3. CASE key'.owner = i
      <3>1. key.owner = i
        BY <1>19, <2>3, TickKey
      <3>2. superseded'[i] = 0
        BY <1>19, <3>1 DEF Tick
      <3> QED BY <2>2, <3>2
    <2>4. CASE monitor[i] \in BeforeWrite
      <3>1. stalls' = stalls + 1
        BY <1>19, <2>4, TickStalls DEF Urgent
      <3>2. superseded'[i] <= superseded[i] + 1
        BY <1>19 DEF Tick
      <3>3. superseded'[i] \in Nat
        BY <1>19 DEF Tick
      <3> QED BY <2>1, <2>4, <3>1, <3>2, <3>3
    <2> QED BY <2>1, <2>3, <2>4
  <1>20. CASE UNCHANGED vars
    BY <1>20 DEF vars
  <1>21. ASSUME NEW i \in Instances, AcquireInfo(i) PROVE BriefBeforeWrite'
    BY <1>21 DEF AcquireInfo, MonitorGoto
  <1>22. ASSUME NEW i \in Instances, RenewInfo(i) PROVE BriefBeforeWrite'
    BY <1>22 DEF RenewInfo, MonitorGoto
  <1>23. ASSUME NEW i \in Instances, StopTimesOut(i) PROVE BriefBeforeWrite'
    BY <1>23 DEF StopTimesOut, StopGoto
  <1> QED
    BY <1>1, <1>2, <1>3, <1>4, <1>5, <1>6, <1>7, <1>8, <1>9,
       <1>10, <1>11, <1>12, <1>13, <1>14, <1>15, <1>16, <1>17, <1>18, <1>19,
       <1>20, <1>21, <1>22, <1>23 DEF Next, MonitorStep, StopStep

(* A tick that is no delay brings the heartbeat nearer.                    *)
LEMMA NoticedInductive ==
    TypeOK /\ MonitorLife /\ OnlyLeadersSuperseded /\ BriefBeforeWrite
      /\ NoticedAtHeartbeat /\ [Next]_vars => NoticedAtHeartbeat'
  <1> SUFFICES ASSUME TypeOK, MonitorLife, OnlyLeadersSuperseded, BriefBeforeWrite,
                      NoticedAtHeartbeat, [Next]_vars
               PROVE  NoticedAtHeartbeat'
    OBVIOUS
  <1> USE CoordinatorAssumption DEF TypeOK, NoticedAtHeartbeat, FindingOut, clockVars
  <1>1. ASSUME NEW i \in Instances, Start(i) PROVE NoticedAtHeartbeat'
    BY <1>1 DEF Start, MonitorGoto, OnlyLeadersSuperseded, MonitorLife, IsLeader
  <1>2. ASSUME NEW i \in Instances, Stop(i) PROVE NoticedAtHeartbeat'
    BY <1>2 DEF Stop, StopGoto, Alive
  <1>3. ASSUME NEW i \in Instances, Crash(i) PROVE NoticedAtHeartbeat'
    BY <1>3 DEF Crash, MonitorGoto, StopGoto, Alive
  <1>4. ASSUME NEW i \in Instances, OnHeartbeat(i) PROVE NoticedAtHeartbeat'
    BY <1>4 DEF OnHeartbeat, MonitorGoto, OnlyLeadersSuperseded
  <1>5. ASSUME NEW i \in Instances, AcquireGet(i) PROVE NoticedAtHeartbeat'
    BY <1>5 DEF AcquireGet, MonitorGoto
  <1>6. ASSUME NEW i \in Instances, AcquireSet(i) PROVE NoticedAtHeartbeat'
    BY <1>6 DEF AcquireSet, MonitorGoto
  <1>7. ASSUME NEW i \in Instances, AcquireVerify(i) PROVE NoticedAtHeartbeat'
    BY <1>7 DEF AcquireVerify, MonitorGoto
  <1>8. ASSUME NEW i \in Instances, AcquireCommit(i) PROVE NoticedAtHeartbeat'
    BY <1>8 DEF AcquireCommit, MonitorGoto
  <1>9. ASSUME NEW i \in Instances, RenewGet(i) PROVE NoticedAtHeartbeat'
    BY <1>9 DEF RenewGet, MonitorGoto, BriefBeforeWrite, BeforeWrite
  <1>10. ASSUME NEW i \in Instances, RenewSet(i) PROVE NoticedAtHeartbeat'
    BY <1>10 DEF RenewSet, MonitorGoto
  <1>11. ASSUME NEW i \in Instances, RenewCommit(i) PROVE NoticedAtHeartbeat'
    BY <1>11 DEF RenewCommit, MonitorGoto
  <1>12. ASSUME NEW i \in Instances, RenewDrop(i) PROVE NoticedAtHeartbeat'
    BY <1>12 DEF RenewDrop, MonitorGoto
  <1>13. ASSUME NEW i \in Instances, MonitorExit(i) PROVE NoticedAtHeartbeat'
    BY <1>13 DEF MonitorExit, MonitorGoto, CancelSeen
  <1>14. ASSUME NEW i \in Instances, ReleaseGet(i) PROVE NoticedAtHeartbeat'
    BY <1>14 DEF ReleaseGet, StopGoto
  <1>15. ASSUME NEW i \in Instances, ReleaseDelete(i) PROVE NoticedAtHeartbeat'
    BY <1>15 DEF ReleaseDelete, StopGoto
  <1>16. ASSUME NEW i \in Instances, ReleaseLocal(i) PROVE NoticedAtHeartbeat'
    BY <1>16 DEF ReleaseLocal, StopGoto
  <1>17. ASSUME NEW i \in Instances, Shutdown(i) PROVE NoticedAtHeartbeat'
    BY <1>17 DEF Shutdown, StopGoto
  <1>18. ASSUME NEW i \in Instances, Stopped(i) PROVE NoticedAtHeartbeat'
    BY <1>18 DEF Stopped, StopGoto
  <1>19. CASE Tick
    <2> SUFFICES ASSUME NEW i \in Instances, stopping[i] = "up"
                 PROVE  superseded'[i] + (IF monitor[i] \in FindingOut THEN 0 ELSE beat'[i])
                            <= Heartbeat + stalls'
      BY <1>19 DEF Tick
    <2>1. /\ superseded'[i] \in Nat
          /\ superseded'[i] = 0 \/ (isLeader[i] /\ superseded'[i] = superseded[i] + 1)
      BY <1>19 DEF Tick
    <2>2. beat'[i] \in 0..beat[i] /\ (beat[i] > 0 => beat'[i] = beat[i] - 1)
      BY <1>19, DownFacts DEF Tick
    <2>3. stalls' \in {stalls, stalls + 1}
      BY <1>19, TickStalls
    <2>4. CASE superseded'[i] = 0
      BY <2>2, <2>3, <2>4
    <2>5. CASE isLeader[i] /\ superseded'[i] = superseded[i] + 1
      <3>1. CASE stalls' = stalls + 1
        BY <2>1, <2>2, <2>5, <3>1
      <3>2. CASE stalls' = stalls
        <4>1. ~ Urgent(i)
          BY <1>19, <3>2, TickStalls
        <4>2. monitor[i] = "wait" /\ beat[i] > 0
          BY <2>5, <4>1 DEF Urgent, MonitorSteps, MonitorLife
        <4> QED BY <2>1, <2>2, <2>5, <3>2, <4>2
      <3> QED BY <2>3, <3>1, <3>2
    <2> QED BY <2>1, <2>4, <2>5
  <1>20. CASE UNCHANGED vars
    BY <1>20 DEF vars
  <1>21. ASSUME NEW i \in Instances, AcquireInfo(i) PROVE NoticedAtHeartbeat'
    BY <1>21 DEF AcquireInfo, MonitorGoto
  <1>22. ASSUME NEW i \in Instances, RenewInfo(i) PROVE NoticedAtHeartbeat'
    BY <1>22 DEF RenewInfo, MonitorGoto
  <1>23. ASSUME NEW i \in Instances, StopTimesOut(i) PROVE NoticedAtHeartbeat'
    BY <1>23 DEF StopTimesOut, StopGoto
  <1> QED
    BY <1>1, <1>2, <1>3, <1>4, <1>5, <1>6, <1>7, <1>8, <1>9,
       <1>10, <1>11, <1>12, <1>13, <1>14, <1>15, <1>16, <1>17, <1>18, <1>19,
       <1>20, <1>21, <1>22, <1>23 DEF Next, MonitorStep, StopStep

(* A running instance whose key was taken over stands down within one      *)
(* heartbeat and the delays, for any number of instances that race for the *)
(* key: renewLeadership (lines 376-426) finds it out at the next tick of   *)
(* the monitor.                                                            *)
THEOREM StandsDown == Spec => []SupersededStandsDown
  <1>1. Init => StandDownInv
    BY SkewInit, CoordinatorAssumption
       DEF Init, SkewInv, StandDownInv, MonitorLife, OnlyLeadersSuperseded,
           BriefBeforeWrite, BeforeWrite, NoticedAtHeartbeat, FindingOut
  <1>2. StandDownInv /\ [Next]_vars => StandDownInv'
    BY TypeInductive, LifeInductive, LeadersInductive, BriefInductive, NoticedInductive
       DEF StandDownInv
  <1>3. StandDownInv => SupersededStandsDown
    <2> SUFFICES ASSUME StandDownInv, NEW i \in Instances, stopping[i] = "up"
                 PROVE  superseded[i] <= Heartbeat + MaxStalls
      BY DEF SupersededStandsDown
    <2>1. superseded[i] + (IF monitor[i] \in FindingOut THEN 0 ELSE beat[i])
            <= Heartbeat + stalls
      BY DEF StandDownInv, NoticedAtHeartbeat
    <2> QED BY <2>1, CoordinatorAssumption DEF StandDownInv, TypeOK
  <1> QED BY <1>1, <1>2, <1>3, PTL DEF Spec

=============================================================================
