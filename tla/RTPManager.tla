----------------------------- MODULE RTPManager -----------------------------
(***************************************************************************)
(* The RTPEngine manager, pkg/rtpengine/manager.go: it sends the offer,    *)
(* answer and delete of a call to one of several media engines and fails   *)
(* over when an engine does not answer.  Each goroutine of Procs runs one  *)
(* of ProcessOffer, ProcessAnswer and DeleteSession at a time.  Every      *)
(* request to an engine, every storage call and every critical section of  *)
(* m.mutex is one action; whether a request succeeds is up to the engine.  *)
(*                                                                         *)
(* Critical sections are atomic here, so the mutex is only ever held       *)
(* across steps by a goroutine that locks it twice and blocks for good.    *)
(***************************************************************************)
EXTENDS Naturals, FiniteSets

CONSTANTS
    Procs,
    Calls,              \* call-IDs
    NoProc,
    N,                  \* number of engines, indices 0..N-1
    Address,            \* engine.address by index; the port is not compared
    FailureThreshold    \* m.failureThreshold, 3 unless set

Engines == 0..(N - 1)
None == N               \* no engine

ASSUME ManagerAssumption ==
    /\ N \in Nat \ {0}
    /\ NoProc \notin Procs
    /\ DOMAIN Address = Engines
    /\ FailureThreshold \in Nat \ {0}

VARIABLES
    activeIdx,
    status,         \* "nil" or, by engine, the FailCount; IsHealthy follows
    healthy,        \* IsHealthy, by engine
    session,        \* storage: EngineIdx of the RTP session of a call, or None
    mutex,          \* the goroutine blocked inside m.mutex, or NoProc
    pc,
    call,           \* the call a goroutine works on
    engine,         \* the engine it talks to, or the session it has read
    current,        \* its snapshot of activeIdx
    index,          \* its loop variable
    failed,         \* history: the engine that failed its offer
    answeredBy      \* history: the engines that accepted the call's answer

locals == <<call, engine, current, index>>
vars == <<activeIdx, status, healthy, session, mutex, pc, locals, failed, answeredBy>>

Steps == {"idle", "oPick", "oInit", "oReset", "oSend", "record", "tryFailover",
          "migrate", "foPick", "foScan", "foMigrate", "foSend",
          "aPick", "aSend", "aRead", "aStore", "faPick", "faSend", "faSwitch", "faStore",
          "dPick", "dSend", "dClean", "fdPick", "fdSend", "fdSwitch", "stuck"}

(* engineStatus is nil until the first offer.                              *)
Nil == <<>>
Ready == status # Nil

FailCounts == [Engines -> 0..FailureThreshold]

TypeOK ==
    /\ activeIdx \in Engines
    /\ status \in FailCounts \cup {Nil}
    /\ healthy \in [Engines -> BOOLEAN]
    /\ session \in [Calls -> Engines \cup {None}]
    /\ mutex \in Procs \cup {NoProc}
    /\ pc \in [Procs -> Steps]
    /\ call \in [Procs -> Calls]
    /\ engine \in [Procs -> Engines \cup {None}]
    /\ current \in [Procs -> Engines]
    /\ index \in [Procs -> 0..N]
    /\ failed \in [Procs -> Engines \cup {None}]
    /\ answeredBy \in [Calls -> SUBSET Engines]

Init ==
    /\ activeIdx = 0
    /\ status = Nil
    /\ healthy = [e \in Engines |-> FALSE]
    /\ session = [c \in Calls |-> None]
    /\ mutex = NoProc
    /\ pc = [p \in Procs |-> "idle"]
    /\ call \in [Procs -> Calls]
    /\ engine = [p \in Procs |-> None]
    /\ current = [p \in Procs |-> 0]
    /\ index = [p \in Procs |-> 0]
    /\ failed = [p \in Procs |-> None]
    /\ answeredBy = [c \in Calls |-> {}]

Goto(p, step) == pc' = [pc EXCEPT ![p] = step]

(* Return to the caller; the locals go out of scope.                       *)
Return(p) ==
    /\ Goto(p, "idle")
    /\ engine' = [engine EXCEPT ![p] = None]
    /\ current' = [current EXCEPT ![p] = 0]
    /\ index' = [index EXCEPT ![p] = 0]
    /\ failed' = [failed EXCEPT ![p] = None]
    /\ UNCHANGED call

Begin(p) ==
    /\ pc[p] = "idle"
    /\ \E c \in Calls : call' = [call EXCEPT ![p] = c]
    /\ \E step \in {"oPick", "aPick", "dPick"} : Goto(p, step)
    /\ UNCHANGED <<activeIdx, status, healthy, session, mutex, engine, current, index,
                   failed, answeredBy>>

(* The first index i >= from with P(i), or None.                           *)
FirstIndex(from, P(_)) ==
    IF \E i \in Engines : i >= from /\ P(i)
    THEN CHOOSE i \in Engines : i >= from /\ P(i) /\ \A j \in Engines : j < i /\ j >= from => ~ P(j)
    ELSE None

-----------------------------------------------------------------------------
(* ProcessOffer                                                            *)

(* The active engine, read under the read lock.                            *)
OfferPick(p) ==
    /\ pc[p] = "oPick"
    /\ mutex = NoProc
    /\ engine' = [engine EXCEPT ![p] = activeIdx]
    /\ Goto(p, "oInit")
    /\ UNCHANGED <<activeIdx, status, healthy, session, mutex, call, current, index,
                   failed, answeredBy>>

(* Mutant of OfferInit: the first offer does not initialise engineStatus.  *)
OfferInitSkipped(p) ==
    /\ pc[p] = "oInit"
    /\ Goto(p, "oSend")
    /\ UNCHANGED <<activeIdx, status, healthy, session, mutex, locals, failed, answeredBy>>

(* if m.engineStatus == nil, read without the lock.                        *)
OfferInit(p) ==
    /\ pc[p] = "oInit"
    /\ Goto(p, IF Ready THEN "oSend" ELSE "oReset")
    /\ UNCHANGED <<activeIdx, status, healthy, session, mutex, locals, failed, answeredBy>>

(* initEngineStatus: every engine healthy, whatever was recorded since.    *)
InitEngineStatus(p) ==
    /\ pc[p] = "oReset"
    /\ mutex = NoProc
    /\ status' = [e \in Engines |-> 0]
    /\ healthy' = [e \in Engines |-> TRUE]
    /\ Goto(p, "oSend")
    /\ UNCHANGED <<activeIdx, session, mutex, locals, failed, answeredBy>>

(* A reply without an SDP is returned as an error, like a good one as far  *)
(* as the manager's state goes.                                            *)
OfferSend(p) ==
    /\ pc[p] = "oSend"
    /\ \/ Return(p)
       \/ /\ failed' = [failed EXCEPT ![p] = engine[p]]
          /\ Goto(p, "record")
          /\ UNCHANGED locals
    /\ UNCHANGED <<activeIdx, status, healthy, session, mutex, answeredBy>>

(* A nested initEngineStatus would lock m.mutex a second time.             *)
Relock(p) ==
    /\ mutex' = p
    /\ Goto(p, "stuck")
    /\ UNCHANGED <<activeIdx, status, healthy, session, locals, failed, answeredBy>>

(* Mutant of RecordEngineFailure: unhealthy only beyond the threshold.     *)
RecordEngineFailureLate(p) ==
    /\ pc[p] = "record"
    /\ Ready
    /\ LET n == IF status[engine[p]] < FailureThreshold
                THEN status[engine[p]] + 1 ELSE FailureThreshold
       IN  /\ status' = [status EXCEPT ![engine[p]] = n]
           /\ healthy' = [healthy EXCEPT ![engine[p]] = @ /\ status[engine[p]] < n]
    /\ Goto(p, "tryFailover")
    /\ UNCHANGED <<activeIdx, session, mutex, locals, failed, answeredBy>>

(* recordEngineFailure: charge the first engine with that address.         *)
RecordEngineFailure(p) ==
    /\ pc[p] = "record"
    /\ mutex = NoProc
    /\ \/ ~ Ready /\ Relock(p)
       \/ /\ Ready
          /\ LET i == FirstIndex(0, LAMBDA e : Address[e] = Address[engine[p]])
                 n == IF status[i] < FailureThreshold THEN status[i] + 1 ELSE FailureThreshold
             IN  /\ status' = [status EXCEPT ![i] = n]
                 /\ healthy' = [healthy EXCEPT ![i] = @ /\ n < FailureThreshold]
          /\ Goto(p, "tryFailover")
          /\ UNCHANGED <<activeIdx, session, mutex, locals, failed, answeredBy>>

(* Mutant of TryFailover: the mutex is kept across SimplifyMigration.      *)
TryFailoverLocked(p) ==
    /\ pc[p] = "tryFailover"
    /\ mutex = NoProc
    /\ \E e \in Engines : e # activeIdx /\ healthy[e] /\ engine' = [engine EXCEPT ![p] = e]
    /\ mutex' = p
    /\ Goto(p, "migrate")
    /\ UNCHANGED <<activeIdx, status, healthy, session, call, current, index, failed, answeredBy>>

(* tryFailover up to the point where it releases the mutex.                *)
TryFailover(p) ==
    /\ pc[p] = "tryFailover"
    /\ mutex = NoProc
    /\ \/ ~ Ready /\ Relock(p)
       \/ /\ Ready
          /\ LET next == FirstIndex(0, LAMBDA e : e # activeIdx /\ healthy[e])
             IN  \/ next = None /\ Return(p)
                 \/ /\ next # None
                    /\ engine' = [engine EXCEPT ![p] = next]
                    /\ Goto(p, "migrate")
                    /\ UNCHANGED <<call, current, index, failed>>
          /\ UNCHANGED <<activeIdx, status, healthy, session, mutex, answeredBy>>

(* SimplifyMigration for tryFailover, then failoverOffer is called.        *)
Migrate(p) ==
    /\ pc[p] = "migrate"
    /\ mutex = NoProc
    /\ activeIdx' = engine[p]
    /\ engine' = [engine EXCEPT ![p] = None]
    /\ Goto(p, "foPick")
    /\ UNCHANGED <<status, healthy, session, mutex, call, current, index, failed, answeredBy>>

-----------------------------------------------------------------------------
(* failoverOffer                                                           *)

FailoverOfferPick(p) ==
    /\ pc[p] = "foPick"
    /\ mutex = NoProc
    /\ current' = [current EXCEPT ![p] = activeIdx]
    /\ Goto(p, "foScan")
    /\ UNCHANGED <<activeIdx, status, healthy, session, mutex, call, engine, index,
                   failed, answeredBy>>

(* One iteration: the health of engine index[p] is read under the lock.    *)
FailoverOfferScan(p) ==
    /\ pc[p] = "foScan"
    /\ mutex = NoProc
    /\ \/ /\ index[p] = N
          /\ Return(p)
          /\ UNCHANGED mutex
       \/ /\ index[p] < N
          /\ \/ index[p] # current[p] /\ ~ Ready /\ Relock(p)
             \/ /\ index[p] # current[p]
                /\ Ready /\ healthy[index[p]]
                /\ engine' = [engine EXCEPT ![p] = index[p]]
                /\ Goto(p, "foMigrate")
                /\ UNCHANGED <<mutex, call, current, index, failed>>
             \/ /\ index[p] = current[p] \/ (Ready /\ ~ healthy[index[p]])
                /\ index' = [index EXCEPT ![p] = @ + 1]
                /\ UNCHANGED <<pc, mutex, call, engine, current, failed>>
    /\ UNCHANGED <<activeIdx, status, healthy, session, answeredBy>>

(* SimplifyMigration for failoverOffer.                                    *)
FailoverOfferMigrate(p) ==
    /\ pc[p] = "foMigrate"
    /\ mutex = NoProc
    /\ activeIdx' = engine[p]
    /\ Goto(p, "foSend")
    /\ UNCHANGED <<status, healthy, session, mutex, locals, failed, answeredBy>>

(* Whatever the outcome: a second failure is returned and not recorded.    *)
FailoverOfferSend(p) ==
    /\ pc[p] = "foSend"
    /\ Return(p)
    /\ UNCHANGED <<activeIdx, status, healthy, session, mutex, answeredBy>>

-----------------------------------------------------------------------------
(* ProcessAnswer and DeleteSession                                         *)

(* GetEngine: the engine of the stored session, or the active one.         *)
GetEngine(c) == IF session[c] # None THEN session[c] ELSE activeIdx

PickSessionEngine(p, at, then) ==
    /\ pc[p] = at
    /\ engine' = [engine EXCEPT ![p] = GetEngine(call[p])]
    /\ Goto(p, then)
    /\ UNCHANGED <<activeIdx, status, healthy, session, mutex, call, current, index,
                   failed, answeredBy>>

AnswerPick(p) == PickSessionEngine(p, "aPick", "aSend")
DeletePick(p) == PickSessionEngine(p, "dPick", "dSend")

AnswerSend(p) ==
    /\ pc[p] = "aSend"
    /\ \/ /\ answeredBy' = [answeredBy EXCEPT ![call[p]] = @ \cup {engine[p]}]
          /\ \/ Goto(p, "aRead") /\ UNCHANGED <<locals, failed>>
             \/ Return(p)           \* no SDP in the reply
       \/ Goto(p, "faPick") /\ UNCHANGED <<locals, failed, answeredBy>>
    /\ UNCHANGED <<activeIdx, status, healthy, session, mutex>>

(* Update the session: read it, and if there is one ...                    *)
AnswerRead(p) ==
    /\ pc[p] = "aRead"
    /\ \/ session[call[p]] = None /\ Return(p)
       \/ /\ session[call[p]] # None
          /\ engine' = [engine EXCEPT ![p] = session[call[p]]]
          /\ Goto(p, "aStore")
          /\ UNCHANGED <<call, current, index, failed>>
    /\ UNCHANGED <<activeIdx, status, healthy, session, mutex, answeredBy>>

(* ... write it back.                                                      *)
AnswerStore(p) ==
    /\ pc[p] = "aStore"
    /\ session' = [session EXCEPT ![call[p]] = engine[p]]
    /\ Return(p)
    /\ UNCHANGED <<activeIdx, status, healthy, mutex, answeredBy>>

(* failoverAnswer and failoverDelete start from the active engine.         *)
PickFailover(p, at, then) ==
    /\ pc[p] = at
    /\ current' = [current EXCEPT ![p] = activeIdx]
    /\ engine' = [engine EXCEPT ![p] = None]
    /\ Goto(p, then)
    /\ UNCHANGED <<activeIdx, status, healthy, session, mutex, call, index, failed,
                   answeredBy>>

FailoverAnswerPick(p) == PickFailover(p, "faPick", "faSend")
FailoverDeletePick(p) == PickFailover(p, "fdPick", "fdSend")

(* Mutant of Candidate: the index does not wrap around.                    *)
CandidateNoWrap(p) == current[p] + index[p] + 1

(* The engines after current, in turn; current itself is skipped.          *)
Candidate(p) == (current[p] + index[p] + 1) % N

FailoverAnswerSend(p) ==
    /\ pc[p] = "faSend"
    /\ \/ /\ index[p] = N
          /\ Return(p)
          /\ UNCHANGED answeredBy
       \/ /\ index[p] < N
          /\ \/ /\ Candidate(p) # current[p]
                /\ engine' = [engine EXCEPT ![p] = Candidate(p)]
                /\ answeredBy' = [answeredBy EXCEPT ![call[p]] = @ \cup {Candidate(p)}]
                /\ Goto(p, "faSwitch")
                /\ UNCHANGED <<call, current, index, failed>>
             \/ /\ index' = [index EXCEPT ![p] = @ + 1]
                /\ UNCHANGED <<pc, call, engine, current, failed, answeredBy>>
    /\ UNCHANGED <<activeIdx, status, healthy, session, mutex>>

FailoverAnswerSwitch(p) ==
    /\ pc[p] = "faSwitch"
    /\ activeIdx' = engine[p]
    /\ Goto(p, "faStore")
    /\ UNCHANGED <<status, healthy, session, mutex, locals, failed, answeredBy>>

(* Mutant of FailoverAnswerStore: the session gets the active engine of    *)
(* the moment.                                                             *)
FailoverAnswerStoresActive(p) ==
    /\ pc[p] = "faStore"
    /\ session' = [session EXCEPT ![call[p]] = activeIdx]
    /\ Return(p)
    /\ UNCHANGED <<activeIdx, status, healthy, mutex, answeredBy>>

FailoverAnswerStore(p) ==
    /\ pc[p] = "faStore"
    /\ session' = [session EXCEPT ![call[p]] = engine[p]]
    /\ Return(p)
    /\ UNCHANGED <<activeIdx, status, healthy, mutex, answeredBy>>

DeleteSend(p) ==
    /\ pc[p] = "dSend"
    /\ \E step \in {"dClean", "fdPick"} : Goto(p, step)
    /\ UNCHANGED <<activeIdx, status, healthy, session, mutex, locals, failed, answeredBy>>

DeleteClean(p) ==
    /\ pc[p] = "dClean"
    /\ session' = [session EXCEPT ![call[p]] = None]
    /\ Return(p)
    /\ UNCHANGED <<activeIdx, status, healthy, mutex, answeredBy>>

FailoverDeleteSend(p) ==
    /\ pc[p] = "fdSend"
    /\ \/ index[p] = N /\ Return(p)
       \/ /\ index[p] < N
          /\ \/ /\ Candidate(p) # current[p]
                /\ engine' = [engine EXCEPT ![p] = Candidate(p)]
                /\ Goto(p, "fdSwitch")
                /\ UNCHANGED <<call, current, index, failed>>
             \/ /\ index' = [index EXCEPT ![p] = @ + 1]
                /\ UNCHANGED <<pc, call, engine, current, failed>>
    /\ UNCHANGED <<activeIdx, status, healthy, session, mutex, answeredBy>>

FailoverDeleteSwitch(p) ==
    /\ pc[p] = "fdSwitch"
    /\ activeIdx' = engine[p]
    /\ Goto(p, "dClean")
    /\ UNCHANGED <<status, healthy, session, mutex, locals, failed, answeredBy>>

-----------------------------------------------------------------------------

Proceed(p) ==
    \/ OfferPick(p) \/ OfferInit(p) \/ InitEngineStatus(p) \/ OfferSend(p)
    \/ RecordEngineFailure(p) \/ TryFailover(p) \/ Migrate(p)
    \/ FailoverOfferPick(p) \/ FailoverOfferScan(p) \/ FailoverOfferMigrate(p)
    \/ FailoverOfferSend(p)
    \/ AnswerPick(p) \/ AnswerSend(p) \/ AnswerRead(p) \/ AnswerStore(p)
    \/ FailoverAnswerPick(p) \/ FailoverAnswerSend(p) \/ FailoverAnswerSwitch(p)
    \/ FailoverAnswerStore(p)
    \/ DeletePick(p) \/ DeleteSend(p) \/ DeleteClean(p)
    \/ FailoverDeletePick(p) \/ FailoverDeleteSend(p) \/ FailoverDeleteSwitch(p)

Next == \E p \in Procs : Begin(p) \/ Proceed(p)

Spec == Init /\ [][Next]_vars

(* Goroutines are scheduled and every request ends by its deadline.        *)
FairSpec == Spec /\ \A p \in Procs : WF_vars(Proceed(p))

-----------------------------------------------------------------------------
(* No goroutine reaches the initEngineStatus calls that would lock         *)
(* m.mutex a second time and block every offer for good, though the nil    *)
(* test that protects them reads engineStatus without the lock.            *)
NoSelfDeadlock == \A p \in Procs : pc[p] # "stuck"

(* Once initialised, IsHealthy and FailCount agree for every engine, the   *)
(* second initialisation by a racing first offer included.                 *)
HealthMatchesCount ==
    Ready => \A e \in Engines : healthy[e] <=> status[e] < FailureThreshold

(* A stored session names an engine that accepted an answer of its call,   *)
(* also when answers, failovers and deletes of one call overlap.           *)
StoredSessionAnswered ==
    \A c \in Calls : session[c] = None \/ session[c] \in answeredBy[c]

(* Every offer, answer and delete returns: failovers of several calls      *)
(* never block one another, in spite of the unlock around                  *)
(* SimplifyMigration.                                                      *)
CallsReturn == \A p \in Procs : pc[p] # "idle" ~> pc[p] = "idle"

(* The failover of an offer goes to another engine than the one that       *)
(* failed.                                                                 *)
OfferRetriesElsewhere ==
    \A p \in Procs : pc[p] = "foSend" => engine[p] # failed[p]

=============================================================================
