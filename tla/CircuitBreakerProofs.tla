------------------------ MODULE CircuitBreakerProofs ------------------------
(***************************************************************************)
(* Theorems about CircuitBreaker for every set of goroutines, threshold,   *)
(* timeout and half-open limit.                                            *)
(***************************************************************************)
EXTENDS CircuitBreaker, TLAPS

(* Bump stays within its limit and counts exactly below it: the saturating *)
(* representation of the breaker's two counters and of its age.            *)
LEMMA BumpBounds ==
    ASSUME NEW limit \in Nat, NEW x \in 0..limit
    PROVE  /\ Bump(x, limit) \in 0..limit
           /\ Bump(x, limit) >= x
           /\ x < limit => Bump(x, limit) = x + 1
           /\ Bump(x, limit) < limit => Bump(x, limit) = x + 1
  BY DEF Bump

(* Every step of AllowRequest, RecordSuccess, RecordFailure and Reset      *)
(* keeps the breaker's fields and the goroutines' locals in their types.   *)
LEMMA TypeInductive == TypeOK /\ [Next]_vars => TypeOK'
  <1> SUFFICES ASSUME TypeOK, [Next]_vars
               PROVE  TypeOK'
    OBVIOUS
  <1> USE BreakerAssumption DEF TypeOK, States, Steps, AllowSteps, SuccessSteps,
          FailureSteps, ResetSteps, Goto, shared, locals, history, opening
  <1>1. ASSUME NEW p \in Procs, BeginRequest(p) PROVE TypeOK'
    BY <1>1 DEF BeginRequest
  <1>2. ASSUME NEW p \in Procs, LoadState(p) PROVE TypeOK'
    BY <1>2 DEF LoadState
  <1>3. ASSUME NEW p \in Procs, CheckTimeout(p) PROVE TypeOK'
    BY <1>3 DEF CheckTimeout
  <1>4. ASSUME NEW p \in Procs, CasHalfOpen(p) PROVE TypeOK'
    BY <1>4 DEF CasHalfOpen, NewPeriod
  <1>5. ASSUME NEW p \in Procs, ClearHalfOpen(p) PROVE TypeOK'
    BY <1>5 DEF ClearHalfOpen, InPeriod
  <1>6. ASSUME NEW p \in Procs, AddHalfOpenReq(p) PROVE TypeOK'
    <2>1. halfOpenReqs' \in 0..(HalfOpenMaxReqs + 1)
      BY <1>6, BumpBounds DEF AddHalfOpenReq
    <2>2. probes' \in Nat
      BY <1>6 DEF AddHalfOpenReq, InPeriod
    <2> QED BY <1>6, <2>1, <2>2 DEF AddHalfOpenReq
  <1>7. ASSUME NEW p \in Procs, RequestSucceeds(p) PROVE TypeOK'
    BY <1>7 DEF RequestSucceeds
  <1>8. ASSUME NEW p \in Procs, RequestFails(p) PROVE TypeOK'
    BY <1>8 DEF RequestFails
  <1>9. ASSUME NEW p \in Procs, Abandon(p) PROVE TypeOK'
    BY <1>9 DEF Abandon, InPeriod
  <1>10. ASSUME NEW p \in Procs, SuccessZero(p) PROVE TypeOK'
    BY <1>10 DEF SuccessZero
  <1>11. ASSUME NEW p \in Procs, SuccessLoad(p) PROVE TypeOK'
    BY <1>11 DEF SuccessLoad
  <1>12. ASSUME NEW p \in Procs, SuccessCas(p) PROVE TypeOK'
    BY <1>12 DEF SuccessCas, NewPeriod
  <1>13. ASSUME NEW p \in Procs, Stamp(p) PROVE TypeOK'
    BY <1>13 DEF Stamp
  <1>14. ASSUME NEW p \in Procs, FailureCount(p) PROVE TypeOK'
    <2>1. consecutiveFailures' \in 0..FailureThreshold
      BY <1>14, BumpBounds DEF FailureCount
    <2> QED BY <1>14, <2>1 DEF FailureCount
  <1>15. ASSUME NEW p \in Procs, FailureLoad(p) PROVE TypeOK'
    BY <1>15 DEF FailureLoad
  <1>16. ASSUME NEW p \in Procs, FailureCas(p) PROVE TypeOK'
    BY <1>16 DEF FailureCas, NewPeriod
  <1>17. ASSUME NEW p \in Procs, ResetState(p) PROVE TypeOK'
    BY <1>17 DEF ResetState, NewPeriod
  <1>18. ASSUME NEW p \in Procs, ResetZero(p) PROVE TypeOK'
    BY <1>18 DEF ResetZero
  <1>19. CASE Tick
    <2>1. age' \in 0..(ResetTimeout + 1)
      BY <1>19, BumpBounds DEF Tick
    <2>2. since' \in 0..(ResetTimeout + 1)
      BY <1>19, BumpBounds DEF Tick
    <2> QED BY <1>19, <2>1, <2>2 DEF Tick
  <1>20. CASE UNCHANGED vars
    BY <1>20 DEF vars
  <1> QED
    BY <1>1, <1>2, <1>3, <1>4, <1>5, <1>6, <1>7, <1>8, <1>9, <1>10, <1>11, <1>12,
       <1>13, <1>14, <1>15, <1>16, <1>17, <1>18, <1>19, <1>20 DEF Next, Proceed

(* The breaker's state, counters and the goroutines' locals keep their     *)
(* types for any number of goroutines and any settings.                    *)
THEOREM TypeCorrect == Spec => []TypeOK
  <1>1. Init => TypeOK
    BY BreakerAssumption DEF Init, TypeOK, States, Steps
  <1> QED
    BY <1>1, TypeInductive, PTL DEF Spec

-----------------------------------------------------------------------------
(* A step of one goroutine leaves the others' program counters and locals  *)
(* alone.                                                                  *)
LEMMA OthersUnmoved ==
    ASSUME TypeOK, NEW p \in Procs, NEW q \in Procs, q # p,
           \/ BeginRequest(p) \/ ResetState(p) \/ Abandon(p) \/ Proceed(p)
    PROVE  pc'[q] = pc[q] /\ seen'[q] = seen[q]
  BY DEF TypeOK, Goto, locals, Proceed, BeginRequest, ResetState, Abandon, LoadState,
         CheckTimeout, CasHalfOpen, ClearHalfOpen, AddHalfOpenReq, RequestSucceeds,
         RequestFails, SuccessZero, SuccessLoad, SuccessCas, Stamp, FailureCount,
         FailureLoad, FailureCas, ResetZero

(* HalfOpenHasProber is inductive: a goroutine that can decide the breaker *)
(* keeps that ability until it has used it, and one that takes the last    *)
(* fresh admission becomes such a goroutine itself.                        *)
LEMMA ProberInductive == TypeOK /\ HalfOpenHasProber /\ [Next]_vars => HalfOpenHasProber'
  <1> SUFFICES ASSUME TypeOK, HalfOpenHasProber, [Next]_vars, state' = "halfOpen"
               PROVE  leaks' > 0 \/ \E p \in Procs : Prober(p)'
    BY DEF HalfOpenHasProber
  <1> USE BreakerAssumption
  <1>1. ASSUME NEW p \in Procs, CasHalfOpen(p), state = "open" PROVE Prober(p)'
    BY <1>1 DEF CasHalfOpen, Prober, Goto, TypeOK
  <1>2. CASE UNCHANGED vars
    BY <1>2 DEF vars, shared, locals, history, HalfOpenHasProber, Prober
  <1>3. CASE Tick
    BY <1>3 DEF Tick, locals, history, HalfOpenHasProber, Prober
  <1>4. ASSUME NEW p \in Procs,
               BeginRequest(p) \/ ResetState(p) \/ Abandon(p) \/ Proceed(p),
               state = "halfOpen"
        PROVE  leaks' > 0 \/ \E q \in Procs : Prober(q)'
    <2>1. CASE leaks > 0
      <3>1. leaks' = leaks \/ leaks' = leaks + 1
        BY <1>4 DEF TypeOK, history, Proceed, BeginRequest, ResetState, Abandon, InPeriod,
             LoadState, CheckTimeout, CasHalfOpen, ClearHalfOpen, AddHalfOpenReq,
             RequestSucceeds, RequestFails, SuccessZero, SuccessLoad, SuccessCas, Stamp,
             FailureCount, FailureLoad, FailureCas, ResetZero
      <3> QED BY <2>1, <3>1 DEF TypeOK
    <2>2. CASE \E q \in Procs : Prober(q)
      <3> PICK q \in Procs : Prober(q)
        BY <2>2
      <3>1. CASE q # p
        <4>1. pc'[q] = pc[q] /\ seen'[q] = seen[q]
          BY <1>4, <3>1, OthersUnmoved
        <4>2. CASE halfOpenReqs' = halfOpenReqs \/ halfOpenReqs' = 0
          BY <4>1, <4>2 DEF Prober
        <4>3. CASE AddHalfOpenReq(p) /\ halfOpenReqs = 0
          <5>1. halfOpenReqs' = 1
            BY <4>3 DEF AddHalfOpenReq, Bump
          <5>2. pc'[p] = "running"
            BY <4>3, <5>1 DEF AddHalfOpenReq, Goto, TypeOK
          <5> QED BY <5>2 DEF Prober
        <4>4. CASE AddHalfOpenReq(p) /\ halfOpenReqs # 0
          BY <4>1, <4>4 DEF Prober
        <4> QED
          BY <1>4, <4>2, <4>3, <4>4 DEF shared, Proceed, BeginRequest, ResetState, Abandon,
             LoadState, CheckTimeout, CasHalfOpen, ClearHalfOpen, AddHalfOpenReq,
             RequestSucceeds, RequestFails, SuccessZero, SuccessLoad, SuccessCas, Stamp,
             FailureCount, FailureLoad, FailureCas, ResetZero
      <3>2. CASE q = p
        <4>1. CASE Abandon(p)
          BY <1>4, <4>1 DEF Abandon, InPeriod, TypeOK
        <4>2. CASE Proceed(p)
          BY <1>4, <3>2, <4>2 DEF Proceed, Prober, TypeOK, Goto, shared, locals, Bump,
             LoadState, CheckTimeout, CasHalfOpen, ClearHalfOpen, AddHalfOpenReq,
             RequestSucceeds, RequestFails, SuccessZero, SuccessLoad, SuccessCas, Stamp,
             FailureCount, FailureLoad, FailureCas, ResetZero
        <4>3. CASE BeginRequest(p) \/ ResetState(p)
          BY <3>2, <4>3 DEF BeginRequest, ResetState, Prober
        <4> QED BY <1>4, <4>1, <4>2, <4>3
      <3> QED BY <3>1, <3>2
    <2> QED BY <1>4, <2>1, <2>2 DEF HalfOpenHasProber
  <1>5. ASSUME NEW p \in Procs,
               BeginRequest(p) \/ ResetState(p) \/ Abandon(p) \/ Proceed(p),
               state # "halfOpen"
        PROVE  CasHalfOpen(p) /\ state = "open"
    BY <1>5 DEF TypeOK, shared, Proceed, BeginRequest, ResetState, Abandon, LoadState,
       CheckTimeout, CasHalfOpen, ClearHalfOpen, AddHalfOpenReq, RequestSucceeds,
       RequestFails, SuccessZero, SuccessLoad, SuccessCas, Stamp, FailureCount,
       FailureLoad, FailureCas, ResetZero
  <1> QED
    BY <1>1, <1>2, <1>3, <1>4, <1>5 DEF Next

(* Whatever the number of goroutines, a half-open breaker is never left    *)
(* without a goroutine that will decide it, unless a caller returned       *)
(* without recording an outcome.                                           *)
THEOREM HalfOpenAlwaysHasProber == Spec => []HalfOpenHasProber
  <1>1. Init => HalfOpenHasProber
    BY DEF Init, HalfOpenHasProber
  <1> QED
    BY <1>1, TypeCorrect, ProberInductive, PTL DEF Spec

-----------------------------------------------------------------------------
(* The strengthening of ProbesPerClear: since the counter was last reset   *)
(* no more requests were admitted than it has counted, and outside a       *)
(* half-open period nothing is counted.                                    *)
ProbeAccount ==
    /\ probes <= HalfOpenMaxReqs * clears + halfOpenReqs
    /\ probes <= HalfOpenMaxReqs * clears + HalfOpenMaxReqs
    /\ state # "halfOpen" => probes = 0 /\ clears = 0

(* Each admission raises the counter by one below the limit; each reset    *)
(* pays for what was admitted before it.                                   *)
LEMMA AccountInductive == TypeOK /\ ProbeAccount /\ [Next]_vars => ProbeAccount'
  <1> SUFFICES ASSUME TypeOK, ProbeAccount, [Next]_vars
               PROVE  ProbeAccount'
    OBVIOUS
  <1> USE BreakerAssumption
  <1> DEFINE M == HalfOpenMaxReqs
             Paid == M * clears
  <1>0. /\ M \in Nat /\ probes \in Nat /\ clears \in Nat /\ halfOpenReqs \in Nat
        /\ Paid \in Nat
        /\ M * 0 = 0
        /\ M * (clears + 1) = Paid + M
    BY DEF TypeOK
  <1>1. ASSUME NEW p \in Procs, ClearHalfOpen(p) PROVE ProbeAccount'
    <2>1. CASE state = "halfOpen"
      <3>1. /\ state' = state /\ probes' = probes
            /\ halfOpenReqs' = 0 /\ clears' = clears + 1
        BY <1>1, <2>1 DEF ClearHalfOpen, InPeriod
      <3>2. M * clears' = Paid + M
        BY <1>0, <3>1
      <3> QED BY <1>0, <2>1, <3>1, <3>2 DEF ProbeAccount
    <2>2. CASE state # "halfOpen"
      <3>1. /\ state' = state /\ probes' = 0
            /\ halfOpenReqs' = 0 /\ clears' = 0
        BY <1>1, <2>2 DEF ClearHalfOpen, InPeriod, ProbeAccount
      <3>2. M * clears' = 0
        BY <1>0, <3>1
      <3> QED BY <1>0, <2>2, <3>1, <3>2 DEF ProbeAccount
    <2> QED BY <2>1, <2>2
  <1>2. ASSUME NEW p \in Procs, AddHalfOpenReq(p) PROVE ProbeAccount'
    <2>1. state' = state /\ clears' = clears
      BY <1>2 DEF AddHalfOpenReq
    <2>2. /\ halfOpenReqs' \in Nat /\ halfOpenReqs' >= halfOpenReqs
          /\ halfOpenReqs' <= M => halfOpenReqs' = halfOpenReqs + 1
      BY <1>2 DEF AddHalfOpenReq, Bump, TypeOK
    <2>3. \/ probes' = probes
          \/ state = "halfOpen" /\ probes' = probes + 1 /\ halfOpenReqs' <= M
      BY <1>2 DEF AddHalfOpenReq, InPeriod
    <2>4. M * clears' = Paid
      BY <2>1
    <2> QED BY <1>0, <2>1, <2>2, <2>3, <2>4 DEF ProbeAccount
  <1>3. ASSUME NewPeriod, halfOpenReqs' = halfOpenReqs PROVE ProbeAccount'
    <2>1. probes' = 0 /\ clears' = 0
      BY <1>3 DEF NewPeriod
    <2>2. M * clears' = 0
      BY <1>0, <2>1
    <2> QED BY <1>0, <1>3, <2>1, <2>2 DEF ProbeAccount
  <1>4. ASSUME state' = state, halfOpenReqs' = halfOpenReqs, probes' = probes,
               clears' = clears
        PROVE  ProbeAccount'
    BY <1>4 DEF ProbeAccount
  <1>5. ASSUME NEW p \in Procs,
               BeginRequest(p) \/ ResetState(p) \/ Abandon(p) \/ Proceed(p),
               ~ ClearHalfOpen(p), ~ AddHalfOpenReq(p)
        PROVE  /\ halfOpenReqs' = halfOpenReqs
               /\ NewPeriod \/ (state' = state /\ probes' = probes /\ clears' = clears)
    BY <1>5 DEF shared, history, Proceed, BeginRequest, ResetState, Abandon, LoadState,
       CheckTimeout, CasHalfOpen, RequestSucceeds, RequestFails, SuccessZero,
       SuccessLoad, SuccessCas, Stamp, FailureCount, FailureLoad, FailureCas, ResetZero
  <1>6. CASE Tick
    BY <1>4, <1>6 DEF Tick, history
  <1>7. CASE UNCHANGED vars
    BY <1>4, <1>7 DEF vars, shared, history
  <1> QED
    BY <1>1, <1>2, <1>3, <1>4, <1>5, <1>6, <1>7 DEF Next

(* A half-open period admits at most halfOpenMaxReqs requests, plus that   *)
(* many again for each reset of the counter executed during the period.    *)
THEOREM ProbesBoundedByClears == Spec => []ProbesPerClear
  <1>1. Init => ProbeAccount
    BY BreakerAssumption DEF Init, ProbeAccount
  <1>2. TypeOK /\ ProbeAccount => ProbesPerClear
    BY BreakerAssumption DEF TypeOK, ProbeAccount, ProbesPerClear
  <1> QED
    BY <1>1, <1>2, TypeCorrect, AccountInductive, PTL DEF Spec

-----------------------------------------------------------------------------
(* While the breaker is open and its opening stamped, lastStateChange is   *)
(* no older than the opening.                                              *)
StampedSinceOpen == state = "open" => Unstamped # {} \/ age <= since

(* The inductive form of EarlyProbeIsStale: what a goroutine that read an  *)
(* elapsed timeout can conclude rests on the age of the stamp it read.     *)
OpenLasts == StampedSinceOpen /\ EarlyProbeIsStale

(* Openings make every earlier reading stale; all other steps only make    *)
(* the stamp younger, or let both clocks advance.                          *)
LEMMA OpenLastsInductive == TypeOK /\ OpenLasts /\ [Next]_vars => OpenLasts'
  <1> SUFFICES ASSUME TypeOK, OpenLasts, [Next]_vars
               PROVE  OpenLasts'
    OBVIOUS
  <1> USE BreakerAssumption DEF OpenLasts, StampedSinceOpen, EarlyProbeIsStale, Unstamped
  <1>0. /\ pc \in [Procs -> Steps] /\ stale \subseteq Procs
        /\ age \in Nat /\ since \in Nat /\ ResetTimeout \in Nat
    BY DEF TypeOK
  <1>1. ASSUME NEW p \in Procs, CheckTimeout(p) PROVE OpenLasts'
    BY <1>0, <1>1 DEF CheckTimeout, Goto, shared
  <1>2. ASSUME NEW p \in Procs, CasHalfOpen(p) PROVE OpenLasts'
    BY <1>0, <1>2 DEF CasHalfOpen, Goto
  <1>3. ASSUME NEW p \in Procs, ClearHalfOpen(p) PROVE OpenLasts'
    BY <1>0, <1>3 DEF ClearHalfOpen, Goto, opening
  <1>4. ASSUME NEW p \in Procs, Stamp(p) PROVE OpenLasts'
    BY <1>0, <1>4 DEF Stamp, Goto, opening
  <1>5. ASSUME NEW p \in Procs, FailureCas(p) PROVE OpenLasts'
    <2>1. CASE state = seen[p]
      <3>1. pc'[p] = "fStamp" /\ p \in Unstamped'
        BY <1>0, <1>5, <2>1 DEF FailureCas, Goto
      <3>2. EarlyProbeIsStale'
        BY <1>0, <1>5, <2>1 DEF FailureCas, Goto
      <3> QED BY <3>1, <3>2
    <2>2. CASE state # seen[p]
      BY <1>0, <1>5, <2>2 DEF FailureCas, Goto, opening
    <2> QED BY <2>1, <2>2
  <1>6. ASSUME NEW p \in Procs, ResetState(p) \/ SuccessCas(p) PROVE OpenLasts'
    BY <1>0, <1>6 DEF ResetState, SuccessCas, Goto, opening
  <1>7. ASSUME NEW p \in Procs,
               \/ BeginRequest(p) \/ LoadState(p) \/ AddHalfOpenReq(p) \/ RequestSucceeds(p)
               \/ RequestFails(p) \/ Abandon(p) \/ SuccessZero(p) \/ SuccessLoad(p)
               \/ FailureCount(p) \/ FailureLoad(p) \/ ResetZero(p)
        PROVE  OpenLasts'
    <2>1. /\ state' = state /\ age' = age /\ since' = since /\ stale' = stale
          /\ pc[p] # "fStamp"
          /\ \E step \in Steps : pc' = [pc EXCEPT ![p] = step] /\ step # "casHalfOpen"
      BY <1>7 DEF TypeOK, States, Steps, AllowSteps, SuccessSteps, FailureSteps, ResetSteps,
         shared, opening, Goto, BeginRequest, LoadState, AddHalfOpenReq, RequestSucceeds,
         RequestFails, Abandon, SuccessZero, SuccessLoad, FailureCount, FailureLoad, ResetZero
    <2>2. \A q \in Procs : pc[q] = "fStamp" => pc'[q] = "fStamp"
      BY <1>0, <2>1
    <2>3. \A q \in Procs : pc'[q] = "casHalfOpen" => pc[q] = "casHalfOpen"
      BY <1>0, <2>1
    <2> QED BY <2>1, <2>2, <2>3
  <1>8. CASE Tick
    <2>1. age <= since => age' <= since' \/ state # "open"
      BY <1>8 DEF Tick, Bump, TypeOK
    <2>2. state = "open" /\ since > ResetTimeout => since' > ResetTimeout
      BY <1>8 DEF Tick, Bump, TypeOK
    <2> QED BY <1>8, <2>1, <2>2 DEF Tick
  <1>9. CASE UNCHANGED vars
    BY <1>9 DEF vars, shared, opening
  <1> QED
    BY <1>1, <1>2, <1>3, <1>4, <1>5, <1>6, <1>7, <1>8, <1>9 DEF Next, Proceed

(* For any number of goroutines and any settings, an open breaker is left  *)
(* before its reset timeout only by a caller whose reading of the clock    *)
(* belongs to an earlier opening.                                          *)
THEOREM OpenLastsResetTimeout == Spec => []EarlyProbeIsStale
  <1>1. Init => OpenLasts
    BY DEF Init, OpenLasts, StampedSinceOpen, EarlyProbeIsStale
  <1>2. OpenLasts => EarlyProbeIsStale
    BY DEF OpenLasts
  <1> QED
    BY <1>1, <1>2, TypeCorrect, OpenLastsInductive, PTL DEF Spec

=============================================================================
