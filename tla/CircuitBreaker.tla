--------------------------- MODULE CircuitBreaker ---------------------------
(***************************************************************************)
(* The lock-free circuit breaker of pkg/common/circuit_breaker.go, shared  *)
(* by the goroutines of one AMI client, RTPEngine client or WebSocket      *)
(* server.  A goroutine calls AllowRequest; when admitted it performs its  *)
(* request and then calls RecordSuccess or RecordFailure.  Every atomic    *)
(* operation and every critical section of cb.mu is one action, so all     *)
(* interleavings the Go scheduler can produce are behaviours.              *)
(*                                                                         *)
(* Three quantities of the code only matter through one comparison and are *)
(* represented by a saturating value, which is exact:                      *)
(*   age                  time.Since(lastStateChange), compared with       *)
(*                        resetTimeout only;                               *)
(*   consecutiveFailures  compared with failureThreshold only;             *)
(*   halfOpenReqs         compared with halfOpenMaxReqs only.              *)
(***************************************************************************)
EXTENDS Naturals

CONSTANTS
    Procs,             \* the goroutines that share the breaker
    Abandoners,        \* those whose caller can return without recording
    FailureThreshold,
    ResetTimeout,      \* in clock ticks
    HalfOpenMaxReqs

(* NewCircuitBreaker replaces every non-positive setting by a default.     *)
ASSUME BreakerAssumption ==
    /\ Abandoners \subseteq Procs
    /\ FailureThreshold \in Nat \ {0}
    /\ ResetTimeout \in Nat \ {0}
    /\ HalfOpenMaxReqs \in Nat \ {0}

VARIABLES
    state,                 \* cb.state
    consecutiveFailures,
    halfOpenReqs,
    age,                   \* ticks since cb.lastStateChange, saturating
    pc,                    \* where each goroutine is
    seen,                  \* RecordFailure's local "state"
    failures,              \* RecordFailure's local "failures"
    probes,                \* history: requests admitted in this half-open period
    clears,                \* history: resets of halfOpenReqs in this period
    leaks,                 \* history: requests abandoned in this period
    since,                 \* history: ticks since the breaker opened, saturating
    stale                  \* history: goroutines about to swap on an old reading

shared == <<state, consecutiveFailures, halfOpenReqs, age>>
locals == <<seen, failures>>
history == <<probes, clears, leaks>>
opening == <<since, stale>>
vars == <<shared, pc, locals, history, opening>>

States == {"closed", "open", "halfOpen"}

AllowSteps == {"load", "check", "casHalfOpen", "clear", "add"}
SuccessSteps == {"sZero", "sLoad", "sCas", "sStamp"}
FailureSteps == {"fCount", "fLoad", "fCas", "fStamp"}
ResetSteps == {"rZero", "rStamp"}
Steps == {"idle", "running"} \cup AllowSteps \cup SuccessSteps
             \cup FailureSteps \cup ResetSteps

(* x + 1, or limit once it is reached.                                     *)
Bump(x, limit) == IF x < limit THEN x + 1 ELSE limit

Goto(p, step) == pc' = [pc EXCEPT ![p] = step]

(* The history of a half-open period: how many requests were admitted or   *)
(* abandoned, and how often the counter was reset, while half-open.        *)
NewPeriod == probes' = 0 /\ clears' = 0 /\ leaks' = 0
InPeriod(x) == IF state = "halfOpen" THEN x + 1 ELSE x

(* Goroutines that swapped the state to open and have yet to stamp it.     *)
Unstamped == {p \in Procs : pc[p] = "fStamp"}

TypeOK ==
    /\ state \in States
    /\ consecutiveFailures \in 0..FailureThreshold
    /\ halfOpenReqs \in 0..(HalfOpenMaxReqs + 1)
    /\ age \in 0..(ResetTimeout + 1)
    /\ pc \in [Procs -> Steps]
    /\ seen \in [Procs -> States]
    /\ failures \in [Procs -> 0..FailureThreshold]
    /\ probes \in Nat
    /\ clears \in Nat
    /\ leaks \in Nat
    /\ since \in 0..(ResetTimeout + 1)
    /\ stale \subseteq Procs

(* NewCircuitBreaker.                                                      *)
Init ==
    /\ state = "closed"
    /\ consecutiveFailures = 0
    /\ halfOpenReqs = 0
    /\ age = 0
    /\ pc = [p \in Procs |-> "idle"]
    /\ seen = [p \in Procs |-> "closed"]
    /\ failures = [p \in Procs |-> 0]
    /\ probes = 0
    /\ clears = 0
    /\ leaks = 0
    /\ since = 0
    /\ stale = {}

-----------------------------------------------------------------------------
(* AllowRequest                                                            *)

BeginRequest(p) ==
    /\ pc[p] = "idle"
    /\ Goto(p, "load")
    /\ UNCHANGED <<shared, locals, history, opening>>

(* The head of the loop: load the state and switch on it.                  *)
LoadState(p) ==
    /\ pc[p] = "load"
    /\ Goto(p, CASE state = "closed"   -> "running"
                 [] state = "open"     -> "check"
                 [] state = "halfOpen" -> "add")
    /\ UNCHANGED <<shared, locals, history, opening>>

(* Open: time.Since(lastStateChange) > resetTimeout, under the read lock.  *)
CheckTimeout(p) ==
    /\ pc[p] = "check"
    /\ \/ /\ age > ResetTimeout
          /\ Goto(p, "casHalfOpen")
          /\ stale' = IF Unstamped = {} THEN stale ELSE stale \cup {p}
       \/ /\ age <= ResetTimeout
          /\ Goto(p, "idle")
          /\ UNCHANGED stale
    /\ UNCHANGED <<shared, locals, history, since>>

(* CompareAndSwap(Open, HalfOpen); a loser goes back to the loop's head.   *)
CasHalfOpen(p) ==
    /\ pc[p] = "casHalfOpen"
    /\ \/ /\ state = "open"
          /\ state' = "halfOpen"
          /\ Goto(p, "clear")
          /\ NewPeriod
          /\ since' = 0
       \/ /\ state # "open"
          /\ Goto(p, "load")
          /\ UNCHANGED <<state, history, since>>
    /\ stale' = stale \ {p}
    /\ UNCHANGED <<consecutiveFailures, halfOpenReqs, age, locals>>

(* Mutant of ClearHalfOpen: the counter of the previous period is kept.    *)
ClearHalfOpenKeepsCount(p) ==
    /\ pc[p] = "clear"
    /\ age' = 0
    /\ clears' = InPeriod(clears)
    /\ Goto(p, "load")
    /\ UNCHANGED <<state, consecutiveFailures, halfOpenReqs, locals, probes, leaks,
                   opening>>

(* The winner's critical section, after the swap is already visible.       *)
ClearHalfOpen(p) ==
    /\ pc[p] = "clear"
    /\ age' = 0
    /\ halfOpenReqs' = 0
    /\ clears' = InPeriod(clears)
    /\ Goto(p, "load")
    /\ UNCHANGED <<state, consecutiveFailures, locals, probes, leaks, opening>>

(* Mutant of AddHalfOpenReq: the counter is tested before it is raised.    *)
AddHalfOpenReqTestsFirst(p) ==
    /\ pc[p] = "add"
    /\ halfOpenReqs' = Bump(halfOpenReqs, HalfOpenMaxReqs + 1)
    /\ \/ /\ halfOpenReqs <= HalfOpenMaxReqs
          /\ Goto(p, "running")
          /\ probes' = InPeriod(probes)
       \/ /\ halfOpenReqs > HalfOpenMaxReqs
          /\ Goto(p, "idle")
          /\ UNCHANGED probes
    /\ UNCHANGED <<state, consecutiveFailures, age, locals, clears, leaks, opening>>

(* Half-open: count the request and admit it up to the limit.              *)
AddHalfOpenReq(p) ==
    /\ pc[p] = "add"
    /\ halfOpenReqs' = Bump(halfOpenReqs, HalfOpenMaxReqs + 1)
    /\ \/ /\ halfOpenReqs' <= HalfOpenMaxReqs
          /\ Goto(p, "running")
          /\ probes' = InPeriod(probes)
       \/ /\ halfOpenReqs' > HalfOpenMaxReqs
          /\ Goto(p, "idle")
          /\ UNCHANGED probes
    /\ UNCHANGED <<state, consecutiveFailures, age, locals, clears, leaks, opening>>

-----------------------------------------------------------------------------
(* The caller between AllowRequest and its record                          *)

RequestSucceeds(p) ==
    /\ pc[p] = "running"
    /\ Goto(p, "sZero")
    /\ UNCHANGED <<shared, locals, history, opening>>

RequestFails(p) ==
    /\ pc[p] = "running"
    /\ Goto(p, "fCount")
    /\ UNCHANGED <<shared, locals, history, opening>>

(* A caller that was admitted and returns without recording an outcome.    *)
Abandon(p) ==
    /\ p \in Abandoners
    /\ pc[p] = "running"
    /\ leaks' = InPeriod(leaks)
    /\ Goto(p, "idle")
    /\ UNCHANGED <<shared, locals, probes, clears, opening>>

-----------------------------------------------------------------------------
(* RecordSuccess                                                           *)

SuccessZero(p) ==
    /\ pc[p] = "sZero"
    /\ consecutiveFailures' = 0
    /\ Goto(p, "sLoad")
    /\ UNCHANGED <<state, halfOpenReqs, age, locals, history, opening>>

SuccessLoad(p) ==
    /\ pc[p] = "sLoad"
    /\ Goto(p, IF state = "halfOpen" THEN "sCas" ELSE "idle")
    /\ UNCHANGED <<shared, locals, history, opening>>

(* Mutant of SuccessCas: the swap's expected value is Open.                *)
SuccessCasFromOpen(p) ==
    /\ pc[p] = "sCas"
    /\ \/ /\ state = "open"
          /\ state' = "closed"
          /\ Goto(p, "sStamp")
          /\ NewPeriod
          /\ since' = 0
       \/ /\ state # "open"
          /\ Goto(p, "idle")
          /\ UNCHANGED <<state, history, since>>
    /\ UNCHANGED <<consecutiveFailures, halfOpenReqs, age, locals, stale>>

(* CompareAndSwap(HalfOpen, Closed).                                       *)
SuccessCas(p) ==
    /\ pc[p] = "sCas"
    /\ \/ /\ state = "halfOpen"
          /\ state' = "closed"
          /\ Goto(p, "sStamp")
          /\ NewPeriod
       \/ /\ state # "halfOpen"
          /\ Goto(p, "idle")
          /\ UNCHANGED <<state, history>>
    /\ UNCHANGED <<consecutiveFailures, halfOpenReqs, age, locals, opening>>

(* lastStateChange = time.Now(), the last statement of the three writers   *)
(* other than AllowRequest.                                                *)
Stamp(p) ==
    /\ pc[p] \in {"sStamp", "fStamp", "rStamp"}
    /\ age' = 0
    /\ Goto(p, "idle")
    /\ UNCHANGED <<state, consecutiveFailures, halfOpenReqs, locals, history, opening>>

-----------------------------------------------------------------------------
(* RecordFailure                                                           *)

(* Mutant of FailureCount: the failure is counted twice.                   *)
FailureCountTwice(p) ==
    /\ pc[p] = "fCount"
    /\ consecutiveFailures' = consecutiveFailures + 2
    /\ failures' = [failures EXCEPT ![p] = consecutiveFailures']
    /\ Goto(p, "fLoad")
    /\ UNCHANGED <<state, halfOpenReqs, age, seen, history, opening>>

FailureCount(p) ==
    /\ pc[p] = "fCount"
    /\ consecutiveFailures' = Bump(consecutiveFailures, FailureThreshold)
    /\ failures' = [failures EXCEPT ![p] = consecutiveFailures']
    /\ Goto(p, "fLoad")
    /\ UNCHANGED <<state, halfOpenReqs, age, seen, history, opening>>

FailureLoad(p) ==
    /\ pc[p] = "fLoad"
    /\ \/ /\ \/ state = "closed" /\ failures[p] >= FailureThreshold
             \/ state = "halfOpen"
          /\ seen' = [seen EXCEPT ![p] = state]
          /\ Goto(p, "fCas")
       \/ /\ \/ state = "closed" /\ failures[p] < FailureThreshold
             \/ state = "open"
          /\ UNCHANGED seen
          /\ Goto(p, "idle")
    /\ failures' = [failures EXCEPT ![p] = 0]
    /\ UNCHANGED <<shared, history, opening>>

(* Mutant of FailureCas: the new state is not stamped.                     *)
FailureCasUnstamped(p) ==
    /\ pc[p] = "fCas"
    /\ \/ /\ state = seen[p]
          /\ state' = "open"
          /\ NewPeriod
          /\ since' = 0
          /\ stale' = {q \in Procs : pc[q] = "casHalfOpen"}
       \/ /\ state # seen[p]
          /\ UNCHANGED <<state, history, opening>>
    /\ Goto(p, "idle")
    /\ seen' = [seen EXCEPT ![p] = "closed"]
    /\ UNCHANGED <<consecutiveFailures, halfOpenReqs, age, failures>>

(* CompareAndSwap(the state loaded, Open).  Whoever has already found the  *)
(* timeout elapsed found it for an earlier opening.                        *)
FailureCas(p) ==
    /\ pc[p] = "fCas"
    /\ \/ /\ state = seen[p]
          /\ state' = "open"
          /\ Goto(p, "fStamp")
          /\ NewPeriod
          /\ since' = 0
          /\ stale' = {q \in Procs : pc[q] = "casHalfOpen"}
       \/ /\ state # seen[p]
          /\ Goto(p, "idle")
          /\ UNCHANGED <<state, history, opening>>
    /\ seen' = [seen EXCEPT ![p] = "closed"]
    /\ UNCHANGED <<consecutiveFailures, halfOpenReqs, age, failures>>

-----------------------------------------------------------------------------
(* Reset                                                                   *)

ResetState(p) ==
    /\ pc[p] = "idle"
    /\ state' = "closed"
    /\ NewPeriod
    /\ since' = 0
    /\ Goto(p, "rZero")
    /\ UNCHANGED <<consecutiveFailures, halfOpenReqs, age, locals, stale>>

ResetZero(p) ==
    /\ pc[p] = "rZero"
    /\ consecutiveFailures' = 0
    /\ Goto(p, "rStamp")
    /\ UNCHANGED <<state, halfOpenReqs, age, locals, history, opening>>

-----------------------------------------------------------------------------

Tick ==
    /\ age' = Bump(age, ResetTimeout + 1)
    /\ since' = IF state = "open" THEN Bump(since, ResetTimeout + 1) ELSE since
    /\ UNCHANGED <<state, consecutiveFailures, halfOpenReqs, pc, locals, history, stale>>

(* What a goroutine inside the breaker, or awaiting its request's outcome, *)
(* goes on to do by itself.                                                *)
Proceed(p) ==
    \/ LoadState(p) \/ CheckTimeout(p) \/ CasHalfOpen(p)
    \/ ClearHalfOpen(p) \/ AddHalfOpenReq(p)
    \/ RequestSucceeds(p) \/ RequestFails(p)
    \/ SuccessZero(p) \/ SuccessLoad(p) \/ SuccessCas(p) \/ Stamp(p)
    \/ FailureCount(p) \/ FailureLoad(p) \/ FailureCas(p)
    \/ ResetZero(p)

Next ==
    \/ \E p \in Procs :
          BeginRequest(p) \/ ResetState(p) \/ Abandon(p) \/ Proceed(p)
    \/ Tick

Spec == Init /\ [][Next]_vars

(* The scheduler runs every goroutine, and every request has a deadline.   *)
FairSpec == Spec /\ \A p \in Procs : WF_vars(Proceed(p))

-----------------------------------------------------------------------------
(* A goroutine that will still decide a half-open breaker: the one about   *)
(* to reset the counter, one that will be admitted by the fresh counter,   *)
(* or an admitted request whose outcome is not yet recorded.               *)
Prober(p) ==
    \/ pc[p] = "clear"
    \/ pc[p] \in {"load", "add"} /\ halfOpenReqs = 0
    \/ pc[p] \in {"running", "sZero", "sLoad", "sCas", "fCount", "fLoad"}
    \/ pc[p] = "fCas" /\ seen[p] = "halfOpen"

(* Half-open has no timeout of its own, so a breaker in that state must    *)
(* always have a goroutine on its way to closing or re-opening it: the     *)
(* swap made visible before the counter is reset (lines 110-114), stale    *)
(* counts and late outcomes of earlier periods never leave it undecided,   *)
(* as long as every admitted caller records its outcome.                   *)
HalfOpenHasProber ==
    state = "halfOpen" => leaks > 0 \/ \E p \in Procs : Prober(p)

(* How many requests a half-open period really admits: the limit once, and *)
(* once more for each reset of the counter executed during the period      *)
(* (lines 111-114 run after the swap, and those of an earlier period may   *)
(* run late).                                                              *)
ProbesPerClear == probes <= HalfOpenMaxReqs * (clears + 1)

(* A breaker that has opened refuses requests for resetTimeout: a caller   *)
(* about to swap it to half-open before that read the clock of an earlier  *)
(* opening, either before this one (lines 102-110) or while an opening was *)
(* visible but not yet stamped (lines 169-173).  Nothing else shortens the *)
(* timeout: no late stamp of a RecordSuccess, of another RecordFailure or  *)
(* of a Reset, and no counter reset of an earlier period.                  *)
EarlyProbeIsStale ==
    \A p \in Procs \ stale :
        state = "open" /\ pc[p] = "casHalfOpen" => since > ResetTimeout

(* A half-open breaker is eventually closed or re-opened unless a caller   *)
(* returned without recording its outcome, however requests, late outcomes *)
(* and manual resets interleave.                                           *)
HalfOpenResolves == (state = "halfOpen") ~> (state # "halfOpen" \/ leaks > 0)

=============================================================================
