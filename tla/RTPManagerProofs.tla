-------------------------- MODULE RTPManagerProofs --------------------------
(***************************************************************************)
(* Theorems about RTPManager for any number of goroutines, calls and       *)
(* engines, any addresses and any failure threshold.                       *)
(***************************************************************************)
EXTENDS RTPManager, WellFoundedInduction, TLAPS

(* Where the engine a goroutine talks to is used.                          *)
Talking == {"oInit", "oReset", "oSend", "record", "tryFailover", "migrate", "foMigrate", "foSend",
            "aSend", "aStore", "faSwitch", "faStore", "dSend", "fdSwitch"}

(* Where an offer has passed the nil test of engineStatus.                 *)
PastInit == {"oSend", "record", "tryFailover", "migrate", "foPick", "foScan", "foMigrate",
             "foSend"}

EnginePicked == \A p \in Procs : pc[p] \in Talking => engine[p] # None

(* engineStatus is never nil again, so the unlocked nil test of an offer   *)
(* stays true.                                                             *)
ReadyPastInit == \A p \in Procs : pc[p] \in PastInit => Ready

(* The engine about to be stored for a call has accepted its answer.       *)
AnsweredBeforeStored ==
    \A p \in Procs :
        pc[p] \in {"aStore", "faSwitch", "faStore"} => engine[p] \in answeredBy[call[p]]

IInv == /\ TypeOK /\ EnginePicked /\ ReadyPastInit /\ NoSelfDeadlock /\ HealthMatchesCount
        /\ AnsweredBeforeStored /\ StoredSessionAnswered

-----------------------------------------------------------------------------
(* The indices of engines; None is not one of them.                        *)
LEMMA EngineIndices ==
    /\ N \in Nat \ {0} /\ 0 \in Engines /\ None \notin Engines /\ Engines \subseteq Nat
    /\ \A i \in 0..N : i < N => i \in Engines /\ i + 1 \in 0..N
    /\ \A e \in Engines : e < N
  BY ManagerAssumption DEF Engines, None

(* A set of engines that is not empty has a first one: the loops of        *)
(* recordEngineFailure and tryFailover stop at it.                         *)
LEMMA FirstOf ==
    ASSUME NEW S \in SUBSET Engines, S # {}
    PROVE  \E i \in S : \A j \in Engines : j < i => j \notin S
  <1>1. S \subseteq Nat
    BY EngineIndices
  <1>2. PICK i \in S : \A j \in S : ~ (<<j, i>> \in OpToRel(<, Nat))
    BY <1>1, NatLessThanWellFounded, WFMin
  <1>3. \A j \in S : ~ (j < i)
    BY <1>1, <1>2 DEF OpToRel
  <1> QED BY <1>3

(* The engine that recordEngineFailure charges exists.                     *)
LEMMA ChargedEngine ==
    ASSUME NEW e \in Engines
    PROVE  FirstIndex(0, LAMBDA i : Address[i] = Address[e]) \in Engines
  <1> DEFINE S == {i \in Engines : Address[i] = Address[e]}
  <1>1. \E i \in S : \A j \in Engines : j < i => j \notin S
    BY FirstOf
  <1>2. \A i \in Engines : i >= 0
    BY EngineIndices
  <1> QED BY <1>1, <1>2 DEF FirstIndex

(* tryFailover finds an engine or none.                                    *)
LEMMA NextHealthy ==
    FirstIndex(0, LAMBDA e : e # activeIdx /\ healthy[e]) \in Engines \cup {None}
  <1> DEFINE S == {e \in Engines : e # activeIdx /\ healthy[e]}
  <1>1. CASE S = {}
    BY <1>1 DEF FirstIndex
  <1>2. CASE S # {}
    <2>1. \E i \in S : \A j \in Engines : j < i => j \notin S
      BY <1>2, FirstOf
    <2>2. \A i \in Engines : i >= 0
      BY EngineIndices
    <2> QED BY <2>1, <2>2 DEF FirstIndex
  <1> QED BY <1>1, <1>2

(* The round robin of failoverAnswer and failoverDelete stays within the   *)
(* engines.                                                                *)
LEMMA CandidateIsEngine ==
    ASSUME TypeOK, NEW p \in Procs
    PROVE  Candidate(p) \in Engines
  BY EngineIndices DEF TypeOK, Candidate, Engines

(* An initialised engineStatus is not nil.                                 *)
LEMMA CountsAreReady == ASSUME NEW f \in FailCounts PROVE f # Nil
  <1>1. DOMAIN f = Engines /\ Engines # {}
    BY EngineIndices DEF FailCounts
  <1>2. DOMAIN Nil = {}
    BY DEF Nil
  <1> QED BY <1>1, <1>2

(* What recordEngineFailure does to the status of the engine it charges.   *)
LEMMA FailureRecorded ==
    ASSUME TypeOK, EnginePicked, NEW p \in Procs, RecordEngineFailure(p), Ready
    PROVE  \E i \in Engines, n \in 1..FailureThreshold :
              /\ status \in FailCounts
              /\ n = IF status[i] < FailureThreshold THEN status[i] + 1 ELSE FailureThreshold
              /\ status' = [status EXCEPT ![i] = n]
              /\ healthy' = [healthy EXCEPT ![i] = healthy[i] /\ n < FailureThreshold]
  <1> DEFINE i == FirstIndex(0, LAMBDA e : Address[e] = Address[engine[p]])
             n == IF status[i] < FailureThreshold THEN status[i] + 1 ELSE FailureThreshold
  <1>1. engine[p] \in Engines
    BY DEF TypeOK, EnginePicked, RecordEngineFailure, Talking
  <1>2. i \in Engines
    BY <1>1, ChargedEngine
  <1>3. status \in FailCounts
    BY DEF TypeOK, Ready
  <1>4. /\ status' = [status EXCEPT ![i] = n]
        /\ healthy' = [healthy EXCEPT ![i] = healthy[i] /\ n < FailureThreshold]
    BY DEF RecordEngineFailure
  <1> HIDE DEF i
  <1>5. n \in 1..FailureThreshold
    BY <1>2, <1>3, ManagerAssumption DEF FailCounts
  <1> QED BY <1>2, <1>3, <1>4, <1>5

(* Every step of ProcessOffer, ProcessAnswer, DeleteSession and their      *)
(* failovers keeps the manager's state and the goroutines' locals typed.   *)
LEMMA TypeInductive == TypeOK /\ EnginePicked /\ [Next]_vars => TypeOK'
  <1> SUFFICES ASSUME TypeOK, EnginePicked, [Next]_vars
               PROVE  TypeOK'
    OBVIOUS
  <1> USE ManagerAssumption, EngineIndices
      DEF TypeOK, EnginePicked, Steps, Talking, locals, Goto
  <1>1. ASSUME NEW p \in Procs, Begin(p) PROVE TypeOK'
    BY <1>1 DEF Begin
  <1>2. ASSUME NEW p \in Procs, OfferPick(p) PROVE TypeOK'
    BY <1>2 DEF OfferPick
  <1>3. ASSUME NEW p \in Procs, OfferInit(p) PROVE TypeOK'
    BY <1>3 DEF OfferInit
  <1>4. ASSUME NEW p \in Procs, InitEngineStatus(p) PROVE TypeOK'
    BY <1>4 DEF InitEngineStatus, FailCounts
  <1>5. ASSUME NEW p \in Procs, OfferSend(p) PROVE TypeOK'
    BY <1>5 DEF OfferSend, Return
  <1>6. ASSUME NEW p \in Procs, RecordEngineFailure(p) PROVE TypeOK'
    <2>1. CASE ~ Ready
      BY <1>6, <2>1 DEF RecordEngineFailure, Relock
    <2>2. CASE Ready
      <3>1. status' \in FailCounts
        BY <1>6, <2>2, FailureRecorded DEF FailCounts
      <3>2. PICK i \in Engines, b \in BOOLEAN : healthy' = [healthy EXCEPT ![i] = b]
        BY <1>6, <2>2, FailureRecorded, Zenon
      <3>3. healthy' \in [Engines -> BOOLEAN]
        BY <3>2
      <3> QED BY <1>6, <2>2, <3>1, <3>3 DEF RecordEngineFailure
    <2> QED BY <2>1, <2>2
  <1>7. ASSUME NEW p \in Procs, TryFailover(p) PROVE TypeOK'
    BY <1>7, NextHealthy DEF TryFailover, Relock, Return
  <1>8. ASSUME NEW p \in Procs, Migrate(p) PROVE TypeOK'
    BY <1>8 DEF Migrate
  <1>9. ASSUME NEW p \in Procs, FailoverOfferPick(p) PROVE TypeOK'
    BY <1>9 DEF FailoverOfferPick
  <1>10. ASSUME NEW p \in Procs, FailoverOfferScan(p) PROVE TypeOK'
    BY <1>10 DEF FailoverOfferScan, Relock, Return
  <1>11. ASSUME NEW p \in Procs, FailoverOfferMigrate(p) PROVE TypeOK'
    BY <1>11 DEF FailoverOfferMigrate
  <1>12. ASSUME NEW p \in Procs, FailoverOfferSend(p) PROVE TypeOK'
    BY <1>12 DEF FailoverOfferSend, Return
  <1>13. ASSUME NEW p \in Procs, AnswerPick(p) PROVE TypeOK'
    BY <1>13 DEF AnswerPick, PickSessionEngine, GetEngine
  <1>14. ASSUME NEW p \in Procs, AnswerSend(p) PROVE TypeOK'
    BY <1>14 DEF AnswerSend, Return
  <1>15. ASSUME NEW p \in Procs, AnswerRead(p) PROVE TypeOK'
    BY <1>15 DEF AnswerRead, Return
  <1>16. ASSUME NEW p \in Procs, AnswerStore(p) PROVE TypeOK'
    BY <1>16 DEF AnswerStore, Return
  <1>17. ASSUME NEW p \in Procs, FailoverAnswerPick(p) PROVE TypeOK'
    BY <1>17 DEF FailoverAnswerPick, PickFailover
  <1>18. ASSUME NEW p \in Procs, FailoverAnswerSend(p) PROVE TypeOK'
    BY <1>18, CandidateIsEngine DEF FailoverAnswerSend, Return
  <1>19. ASSUME NEW p \in Procs, FailoverAnswerSwitch(p) PROVE TypeOK'
    BY <1>19 DEF FailoverAnswerSwitch
  <1>20. ASSUME NEW p \in Procs, FailoverAnswerStore(p) PROVE TypeOK'
    BY <1>20 DEF FailoverAnswerStore, Return
  <1>21. ASSUME NEW p \in Procs, DeletePick(p) PROVE TypeOK'
    BY <1>21 DEF DeletePick, PickSessionEngine, GetEngine
  <1>22. ASSUME NEW p \in Procs, DeleteSend(p) PROVE TypeOK'
    BY <1>22 DEF DeleteSend
  <1>23. ASSUME NEW p \in Procs, DeleteClean(p) PROVE TypeOK'
    BY <1>23 DEF DeleteClean, Return
  <1>24. ASSUME NEW p \in Procs, FailoverDeletePick(p) PROVE TypeOK'
    BY <1>24 DEF FailoverDeletePick, PickFailover
  <1>25. ASSUME NEW p \in Procs, FailoverDeleteSend(p) PROVE TypeOK'
    BY <1>25, CandidateIsEngine DEF FailoverDeleteSend, Return
  <1>26. ASSUME NEW p \in Procs, FailoverDeleteSwitch(p) PROVE TypeOK'
    BY <1>26 DEF FailoverDeleteSwitch
  <1>27. CASE UNCHANGED vars
    BY <1>27 DEF vars
  <1> QED
    BY <1>1, <1>2, <1>3, <1>4, <1>5, <1>6, <1>7, <1>8, <1>9, <1>10, <1>11, <1>12, <1>13, <1>14,
       <1>15, <1>16, <1>17, <1>18, <1>19, <1>20, <1>21, <1>22, <1>23, <1>24, <1>25, <1>26, <1>27
    DEF Next, Proceed

(* A goroutine has picked its engine before it sends to it, migrates to it *)
(* or stores it; the locals are dropped only on the way back to idle.      *)
LEMMA PickedInductive == TypeOK /\ EnginePicked /\ [Next]_vars => EnginePicked'
  <1> SUFFICES ASSUME TypeOK, EnginePicked, [Next]_vars
               PROVE  EnginePicked'
    OBVIOUS
  <1> USE ManagerAssumption, EngineIndices
      DEF TypeOK, EnginePicked, Steps, Talking, locals, Goto
  <1>1. ASSUME NEW p \in Procs, Begin(p) PROVE EnginePicked'
    BY <1>1 DEF Begin
  <1>2. ASSUME NEW p \in Procs, OfferPick(p) PROVE EnginePicked'
    BY <1>2 DEF OfferPick
  <1>3. ASSUME NEW p \in Procs, OfferInit(p) PROVE EnginePicked'
    BY <1>3 DEF OfferInit
  <1>4. ASSUME NEW p \in Procs, InitEngineStatus(p) PROVE EnginePicked'
    BY <1>4 DEF InitEngineStatus
  <1>5. ASSUME NEW p \in Procs, OfferSend(p) PROVE EnginePicked'
    BY <1>5 DEF OfferSend, Return
  <1>6. ASSUME NEW p \in Procs, RecordEngineFailure(p) PROVE EnginePicked'
    BY <1>6 DEF RecordEngineFailure, Relock
  <1>7. ASSUME NEW p \in Procs, TryFailover(p) PROVE EnginePicked'
    BY <1>7 DEF TryFailover, Relock, Return
  <1>8. ASSUME NEW p \in Procs, Migrate(p) PROVE EnginePicked'
    BY <1>8 DEF Migrate
  <1>9. ASSUME NEW p \in Procs, FailoverOfferPick(p) PROVE EnginePicked'
    BY <1>9 DEF FailoverOfferPick
  <1>10. ASSUME NEW p \in Procs, FailoverOfferScan(p) PROVE EnginePicked'
    BY <1>10 DEF FailoverOfferScan, Relock, Return
  <1>11. ASSUME NEW p \in Procs, FailoverOfferMigrate(p) PROVE EnginePicked'
    BY <1>11 DEF FailoverOfferMigrate
  <1>12. ASSUME NEW p \in Procs, FailoverOfferSend(p) PROVE EnginePicked'
    BY <1>12 DEF FailoverOfferSend, Return
  <1>13. ASSUME NEW p \in Procs, AnswerPick(p) PROVE EnginePicked'
    BY <1>13 DEF AnswerPick, PickSessionEngine, GetEngine
  <1>14. ASSUME NEW p \in Procs, AnswerSend(p) PROVE EnginePicked'
    BY <1>14 DEF AnswerSend, Return
  <1>15. ASSUME NEW p \in Procs, AnswerRead(p) PROVE EnginePicked'
    BY <1>15 DEF AnswerRead, Return
  <1>16. ASSUME NEW p \in Procs, AnswerStore(p) PROVE EnginePicked'
    BY <1>16 DEF AnswerStore, Return
  <1>17. ASSUME NEW p \in Procs, FailoverAnswerPick(p) PROVE EnginePicked'
    BY <1>17 DEF FailoverAnswerPick, PickFailover
  <1>18. ASSUME NEW p \in Procs, FailoverAnswerSend(p) PROVE EnginePicked'
    BY <1>18, CandidateIsEngine DEF FailoverAnswerSend, Return
  <1>19. ASSUME NEW p \in Procs, FailoverAnswerSwitch(p) PROVE EnginePicked'
    BY <1>19 DEF FailoverAnswerSwitch
  <1>20. ASSUME NEW p \in Procs, FailoverAnswerStore(p) PROVE EnginePicked'
    BY <1>20 DEF FailoverAnswerStore, Return
  <1>21. ASSUME NEW p \in Procs, DeletePick(p) PROVE EnginePicked'
    BY <1>21 DEF DeletePick, PickSessionEngine, GetEngine
  <1>22. ASSUME NEW p \in Procs, DeleteSend(p) PROVE EnginePicked'
    BY <1>22 DEF DeleteSend
  <1>23. ASSUME NEW p \in Procs, DeleteClean(p) PROVE EnginePicked'
    BY <1>23 DEF DeleteClean, Return
  <1>24. ASSUME NEW p \in Procs, FailoverDeletePick(p) PROVE EnginePicked'
    BY <1>24 DEF FailoverDeletePick, PickFailover
  <1>25. ASSUME NEW p \in Procs, FailoverDeleteSend(p) PROVE EnginePicked'
    BY <1>25, CandidateIsEngine DEF FailoverDeleteSend, Return
  <1>26. ASSUME NEW p \in Procs, FailoverDeleteSwitch(p) PROVE EnginePicked'
    BY <1>26 DEF FailoverDeleteSwitch
  <1>27. CASE UNCHANGED vars
    BY <1>27 DEF vars
  <1> QED
    BY <1>1, <1>2, <1>3, <1>4, <1>5, <1>6, <1>7, <1>8, <1>9, <1>10, <1>11, <1>12, <1>13, <1>14,
       <1>15, <1>16, <1>17, <1>18, <1>19, <1>20, <1>21, <1>22, <1>23, <1>24, <1>25, <1>26, <1>27
    DEF Next, Proceed

(* No step makes engineStatus nil again: what an offer has tested without  *)
(* the lock holds for the rest of its failover.                            *)
LEMMA ReadyInductive == TypeOK /\ EnginePicked /\ ReadyPastInit /\ [Next]_vars => ReadyPastInit'
  <1> SUFFICES ASSUME TypeOK, EnginePicked, ReadyPastInit, [Next]_vars
               PROVE  ReadyPastInit'
    OBVIOUS
  <1> USE ManagerAssumption, EngineIndices
      DEF TypeOK, Ready, ReadyPastInit, EnginePicked, Steps, Talking, PastInit, locals, Goto
  <1>1. ASSUME NEW p \in Procs, Begin(p) PROVE ReadyPastInit'
    BY <1>1 DEF Begin
  <1>2. ASSUME NEW p \in Procs, OfferPick(p) PROVE ReadyPastInit'
    BY <1>2 DEF OfferPick
  <1>3. ASSUME NEW p \in Procs, OfferInit(p) PROVE ReadyPastInit'
    BY <1>3 DEF OfferInit
  <1>4. ASSUME NEW p \in Procs, InitEngineStatus(p) PROVE ReadyPastInit'
    <2>1. status' \in FailCounts
      BY <1>4 DEF InitEngineStatus, FailCounts
    <2> QED BY <2>1, CountsAreReady
  <1>5. ASSUME NEW p \in Procs, OfferSend(p) PROVE ReadyPastInit'
    BY <1>5 DEF OfferSend, Return
  <1>6. ASSUME NEW p \in Procs, RecordEngineFailure(p) PROVE ReadyPastInit'
    <2>1. Ready
      BY <1>6 DEF RecordEngineFailure
    <2>2. status' \in FailCounts
      BY <1>6, <2>1, FailureRecorded DEF FailCounts
    <2> QED BY <2>2, CountsAreReady
  <1>7. ASSUME NEW p \in Procs, TryFailover(p) PROVE ReadyPastInit'
    BY <1>7 DEF TryFailover, Relock, Return
  <1>8. ASSUME NEW p \in Procs, Migrate(p) PROVE ReadyPastInit'
    BY <1>8 DEF Migrate
  <1>9. ASSUME NEW p \in Procs, FailoverOfferPick(p) PROVE ReadyPastInit'
    BY <1>9 DEF FailoverOfferPick
  <1>10. ASSUME NEW p \in Procs, FailoverOfferScan(p) PROVE ReadyPastInit'
    BY <1>10 DEF FailoverOfferScan, Relock, Return
  <1>11. ASSUME NEW p \in Procs, FailoverOfferMigrate(p) PROVE ReadyPastInit'
    BY <1>11 DEF FailoverOfferMigrate
  <1>12. ASSUME NEW p \in Procs, FailoverOfferSend(p) PROVE ReadyPastInit'
    BY <1>12 DEF FailoverOfferSend, Return
  <1>13. ASSUME NEW p \in Procs, AnswerPick(p) PROVE ReadyPastInit'
    BY <1>13 DEF AnswerPick, PickSessionEngine, GetEngine
  <1>14. ASSUME NEW p \in Procs, AnswerSend(p) PROVE ReadyPastInit'
    BY <1>14 DEF AnswerSend, Return
  <1>15. ASSUME NEW p \in Procs, AnswerRead(p) PROVE ReadyPastInit'
    BY <1>15 DEF AnswerRead, Return
  <1>16. ASSUME NEW p \in Procs, AnswerStore(p) PROVE ReadyPastInit'
    BY <1>16 DEF AnswerStore, Return
  <1>17. ASSUME NEW p \in Procs, FailoverAnswerPick(p) PROVE ReadyPastInit'
    BY <1>17 DEF FailoverAnswerPick, PickFailover
  <1>18. ASSUME NEW p \in Procs, FailoverAnswerSend(p) PROVE ReadyPastInit'
    BY <1>18 DEF FailoverAnswerSend, Return
  <1>19. ASSUME NEW p \in Procs, FailoverAnswerSwitch(p) PROVE ReadyPastInit'
    BY <1>19 DEF FailoverAnswerSwitch
  <1>20. ASSUME NEW p \in Procs, FailoverAnswerStore(p) PROVE ReadyPastInit'
    BY <1>20 DEF FailoverAnswerStore, Return
  <1>21. ASSUME NEW p \in Procs, DeletePick(p) PROVE ReadyPastInit'
    BY <1>21 DEF DeletePick, PickSessionEngine, GetEngine
  <1>22. ASSUME NEW p \in Procs, DeleteSend(p) PROVE ReadyPastInit'
    BY <1>22 DEF DeleteSend
  <1>23. ASSUME NEW p \in Procs, DeleteClean(p) PROVE ReadyPastInit'
    BY <1>23 DEF DeleteClean, Return
  <1>24. ASSUME NEW p \in Procs, FailoverDeletePick(p) PROVE ReadyPastInit'
    BY <1>24 DEF FailoverDeletePick, PickFailover
  <1>25. ASSUME NEW p \in Procs, FailoverDeleteSend(p) PROVE ReadyPastInit'
    BY <1>25 DEF FailoverDeleteSend, Return
  <1>26. ASSUME NEW p \in Procs, FailoverDeleteSwitch(p) PROVE ReadyPastInit'
    BY <1>26 DEF FailoverDeleteSwitch
  <1>27. CASE UNCHANGED vars
    BY <1>27 DEF vars
  <1> QED
    BY <1>1, <1>2, <1>3, <1>4, <1>5, <1>6, <1>7, <1>8, <1>9, <1>10, <1>11, <1>12, <1>13, <1>14,
       <1>15, <1>16, <1>17, <1>18, <1>19, <1>20, <1>21, <1>22, <1>23, <1>24, <1>25, <1>26, <1>27
    DEF Next, Proceed

(* The nested initEngineStatus calls sit behind a nil test that is false   *)
(* by the time a goroutine gets there.                                     *)
LEMMA NoDeadlockInductive ==
    TypeOK /\ ReadyPastInit /\ NoSelfDeadlock /\ [Next]_vars => NoSelfDeadlock'
  <1> SUFFICES ASSUME TypeOK, ReadyPastInit, NoSelfDeadlock, [Next]_vars
               PROVE  NoSelfDeadlock'
    OBVIOUS
  <1> USE ManagerAssumption, EngineIndices
      DEF TypeOK, ReadyPastInit, NoSelfDeadlock, Steps, PastInit, locals, Goto
  <1>1. ASSUME NEW p \in Procs, Begin(p) PROVE NoSelfDeadlock'
    BY <1>1 DEF Begin
  <1>2. ASSUME NEW p \in Procs, OfferPick(p) PROVE NoSelfDeadlock'
    BY <1>2 DEF OfferPick
  <1>3. ASSUME NEW p \in Procs, OfferInit(p) PROVE NoSelfDeadlock'
    BY <1>3 DEF OfferInit
  <1>4. ASSUME NEW p \in Procs, InitEngineStatus(p) PROVE NoSelfDeadlock'
    BY <1>4 DEF InitEngineStatus
  <1>5. ASSUME NEW p \in Procs, OfferSend(p) PROVE NoSelfDeadlock'
    BY <1>5 DEF OfferSend, Return
  <1>6. ASSUME NEW p \in Procs, RecordEngineFailure(p) PROVE NoSelfDeadlock'
    BY <1>6 DEF RecordEngineFailure, Relock
  <1>7. ASSUME NEW p \in Procs, TryFailover(p) PROVE NoSelfDeadlock'
    BY <1>7 DEF TryFailover, Relock, Return
  <1>8. ASSUME NEW p \in Procs, Migrate(p) PROVE NoSelfDeadlock'
    BY <1>8 DEF Migrate
  <1>9. ASSUME NEW p \in Procs, FailoverOfferPick(p) PROVE NoSelfDeadlock'
    BY <1>9 DEF FailoverOfferPick
  <1>10. ASSUME NEW p \in Procs, FailoverOfferScan(p) PROVE NoSelfDeadlock'
    BY <1>10 DEF FailoverOfferScan, Relock, Return
  <1>11. ASSUME NEW p \in Procs, FailoverOfferMigrate(p) PROVE NoSelfDeadlock'
    BY <1>11 DEF FailoverOfferMigrate
  <1>12. ASSUME NEW p \in Procs, FailoverOfferSend(p) PROVE NoSelfDeadlock'
    BY <1>12 DEF FailoverOfferSend, Return
  <1>13. ASSUME NEW p \in Procs, AnswerPick(p) PROVE NoSelfDeadlock'
    BY <1>13 DEF AnswerPick, PickSessionEngine, GetEngine
  <1>14. ASSUME NEW p \in Procs, AnswerSend(p) PROVE NoSelfDeadlock'
    BY <1>14 DEF AnswerSend, Return
  <1>15. ASSUME NEW p \in Procs, AnswerRead(p) PROVE NoSelfDeadlock'
    BY <1>15 DEF AnswerRead, Return
  <1>16. ASSUME NEW p \in Procs, AnswerStore(p) PROVE NoSelfDeadlock'
    BY <1>16 DEF AnswerStore, Return
  <1>17. ASSUME NEW p \in Procs, FailoverAnswerPick(p) PROVE NoSelfDeadlock'
    BY <1>17 DEF FailoverAnswerPick, PickFailover
  <1>18. ASSUME NEW p \in Procs, FailoverAnswerSend(p) PROVE NoSelfDeadlock'
    BY <1>18 DEF FailoverAnswerSend, Return
  <1>19. ASSUME NEW p \in Procs, FailoverAnswerSwitch(p) PROVE NoSelfDeadlock'
    BY <1>19 DEF FailoverAnswerSwitch
  <1>20. ASSUME NEW p \in Procs, FailoverAnswerStore(p) PROVE NoSelfDeadlock'
    BY <1>20 DEF FailoverAnswerStore, Return
  <1>21. ASSUME NEW p \in Procs, DeletePick(p) PROVE NoSelfDeadlock'
    BY <1>21 DEF DeletePick, PickSessionEngine, GetEngine
  <1>22. ASSUME NEW p \in Procs, DeleteSend(p) PROVE NoSelfDeadlock'
    BY <1>22 DEF DeleteSend
  <1>23. ASSUME NEW p \in Procs, DeleteClean(p) PROVE NoSelfDeadlock'
    BY <1>23 DEF DeleteClean, Return
  <1>24. ASSUME NEW p \in Procs, FailoverDeletePick(p) PROVE NoSelfDeadlock'
    BY <1>24 DEF FailoverDeletePick, PickFailover
  <1>25. ASSUME NEW p \in Procs, FailoverDeleteSend(p) PROVE NoSelfDeadlock'
    BY <1>25 DEF FailoverDeleteSend, Return
  <1>26. ASSUME NEW p \in Procs, FailoverDeleteSwitch(p) PROVE NoSelfDeadlock'
    BY <1>26 DEF FailoverDeleteSwitch
  <1>27. CASE UNCHANGED vars
    BY <1>27 DEF vars
  <1> QED
    BY <1>1, <1>2, <1>3, <1>4, <1>5, <1>6, <1>7, <1>8, <1>9, <1>10, <1>11, <1>12, <1>13, <1>14,
       <1>15, <1>16, <1>17, <1>18, <1>19, <1>20, <1>21, <1>22, <1>23, <1>24, <1>25, <1>26, <1>27
    DEF Next, Proceed

(* A failure is counted and judged in one critical section, and the racing *)
(* initialisation resets both.                                             *)
LEMMA HealthInductive ==
    TypeOK /\ EnginePicked /\ HealthMatchesCount /\ [Next]_vars => HealthMatchesCount'
  <1> SUFFICES ASSUME TypeOK, EnginePicked, HealthMatchesCount, [Next]_vars
               PROVE  HealthMatchesCount'
    OBVIOUS
  <1> USE ManagerAssumption, EngineIndices
      DEF TypeOK, Ready, EnginePicked, HealthMatchesCount, Talking, Steps, locals, Goto
  <1>1. ASSUME NEW p \in Procs, Begin(p) PROVE HealthMatchesCount'
    BY <1>1 DEF Begin
  <1>2. ASSUME NEW p \in Procs, OfferPick(p) PROVE HealthMatchesCount'
    BY <1>2 DEF OfferPick
  <1>3. ASSUME NEW p \in Procs, OfferInit(p) PROVE HealthMatchesCount'
    BY <1>3 DEF OfferInit
  <1>4. ASSUME NEW p \in Procs, InitEngineStatus(p) PROVE HealthMatchesCount'
    BY <1>4 DEF InitEngineStatus
  <1>5. ASSUME NEW p \in Procs, OfferSend(p) PROVE HealthMatchesCount'
    BY <1>5 DEF OfferSend, Return
  <1>6. ASSUME NEW p \in Procs, RecordEngineFailure(p) PROVE HealthMatchesCount'
    <2>1. CASE ~ Ready
      BY <1>6, <2>1 DEF RecordEngineFailure, Relock
    <2>2. CASE Ready
      <3>1. PICK i \in Engines, n \in 1..FailureThreshold :
               /\ status \in FailCounts
               /\ n = IF status[i] < FailureThreshold THEN status[i] + 1 ELSE FailureThreshold
               /\ status' = [status EXCEPT ![i] = n]
               /\ healthy' = [healthy EXCEPT ![i] = healthy[i] /\ n < FailureThreshold]
        BY <1>6, <2>2, FailureRecorded
      <3>2. healthy[i] <=> status[i] < FailureThreshold
        BY <2>2
      <3>3. healthy'[i] <=> status'[i] < FailureThreshold
        <4>1. status'[i] = n
          BY <3>1 DEF FailCounts
        <4>2. healthy'[i] <=> healthy[i] /\ n < FailureThreshold
          <5>1. healthy \in [Engines -> BOOLEAN]
            OBVIOUS
          <5> QED BY <3>1, <5>1, Zenon
        <4>3. n < FailureThreshold => status[i] < FailureThreshold
          BY <3>1
        <4> QED BY <3>2, <4>1, <4>2, <4>3, Zenon
      <3>4. ASSUME NEW e \in Engines, e # i
            PROVE  healthy'[e] = healthy[e] /\ status'[e] = status[e]
        BY <3>1, <3>4 DEF FailCounts
      <3> QED BY <2>2, <3>3, <3>4
    <2> QED BY <2>1, <2>2
  <1>7. ASSUME NEW p \in Procs, TryFailover(p) PROVE HealthMatchesCount'
    BY <1>7 DEF TryFailover, Relock, Return
  <1>8. ASSUME NEW p \in Procs, Migrate(p) PROVE HealthMatchesCount'
    BY <1>8 DEF Migrate
  <1>9. ASSUME NEW p \in Procs, FailoverOfferPick(p) PROVE HealthMatchesCount'
    BY <1>9 DEF FailoverOfferPick
  <1>10. ASSUME NEW p \in Procs, FailoverOfferScan(p) PROVE HealthMatchesCount'
    BY <1>10 DEF FailoverOfferScan, Relock, Return
  <1>11. ASSUME NEW p \in Procs, FailoverOfferMigrate(p) PROVE HealthMatchesCount'
    BY <1>11 DEF FailoverOfferMigrate
  <1>12. ASSUME NEW p \in Procs, FailoverOfferSend(p) PROVE HealthMatchesCount'
    BY <1>12 DEF FailoverOfferSend, Return
  <1>13. ASSUME NEW p \in Procs, AnswerPick(p) PROVE HealthMatchesCount'
    BY <1>13 DEF AnswerPick, PickSessionEngine, GetEngine
  <1>14. ASSUME NEW p \in Procs, AnswerSend(p) PROVE HealthMatchesCount'
    BY <1>14 DEF AnswerSend, Return
  <1>15. ASSUME NEW p \in Procs, AnswerRead(p) PROVE HealthMatchesCount'
    BY <1>15 DEF AnswerRead, Return
  <1>16. ASSUME NEW p \in Procs, AnswerStore(p) PROVE HealthMatchesCount'
    BY <1>16 DEF AnswerStore, Return
  <1>17. ASSUME NEW p \in Procs, FailoverAnswerPick(p) PROVE HealthMatchesCount'
    BY <1>17 DEF FailoverAnswerPick, PickFailover
  <1>18. ASSUME NEW p \in Procs, FailoverAnswerSend(p) PROVE HealthMatchesCount'
    BY <1>18 DEF FailoverAnswerSend, Return
  <1>19. ASSUME NEW p \in Procs, FailoverAnswerSwitch(p) PROVE HealthMatchesCount'
    BY <1>19 DEF FailoverAnswerSwitch
  <1>20. ASSUME NEW p \in Procs, FailoverAnswerStore(p) PROVE HealthMatchesCount'
    BY <1>20 DEF FailoverAnswerStore, Return
  <1>21. ASSUME NEW p \in Procs, DeletePick(p) PROVE HealthMatchesCount'
    BY <1>21 DEF DeletePick, PickSessionEngine, GetEngine
  <1>22. ASSUME NEW p \in Procs, DeleteSend(p) PROVE HealthMatchesCount'
    BY <1>22 DEF DeleteSend
  <1>23. ASSUME NEW p \in Procs, DeleteClean(p) PROVE HealthMatchesCount'
    BY <1>23 DEF DeleteClean, Return
  <1>24. ASSUME NEW p \in Procs, FailoverDeletePick(p) PROVE HealthMatchesCount'
    BY <1>24 DEF FailoverDeletePick, PickFailover
  <1>25. ASSUME NEW p \in Procs, FailoverDeleteSend(p) PROVE HealthMatchesCount'
    BY <1>25 DEF FailoverDeleteSend, Return
  <1>26. ASSUME NEW p \in Procs, FailoverDeleteSwitch(p) PROVE HealthMatchesCount'
    BY <1>26 DEF FailoverDeleteSwitch
  <1>27. CASE UNCHANGED vars
    BY <1>27 DEF vars
  <1> QED
    BY <1>1, <1>2, <1>3, <1>4, <1>5, <1>6, <1>7, <1>8, <1>9, <1>10, <1>11, <1>12, <1>13, <1>14,
       <1>15, <1>16, <1>17, <1>18, <1>19, <1>20, <1>21, <1>22, <1>23, <1>24, <1>25, <1>26, <1>27
    DEF Next, Proceed

(* An engine to be stored is one that has just answered, or comes from a   *)
(* session that was stored before.                                         *)
LEMMA AnsweredInductive ==
    TypeOK /\ AnsweredBeforeStored /\ StoredSessionAnswered /\ [Next]_vars
        => AnsweredBeforeStored'
  <1> SUFFICES ASSUME TypeOK, AnsweredBeforeStored, StoredSessionAnswered, [Next]_vars
               PROVE  AnsweredBeforeStored'
    OBVIOUS
  <1> USE ManagerAssumption, EngineIndices
      DEF TypeOK, AnsweredBeforeStored, StoredSessionAnswered, Steps, locals, Goto
  <1>1. ASSUME NEW p \in Procs, Begin(p) PROVE AnsweredBeforeStored'
    BY <1>1 DEF Begin
  <1>2. ASSUME NEW p \in Procs, OfferPick(p) PROVE AnsweredBeforeStored'
    BY <1>2 DEF OfferPick
  <1>3. ASSUME NEW p \in Procs, OfferInit(p) PROVE AnsweredBeforeStored'
    BY <1>3 DEF OfferInit
  <1>4. ASSUME NEW p \in Procs, InitEngineStatus(p) PROVE AnsweredBeforeStored'
    BY <1>4 DEF InitEngineStatus
  <1>5. ASSUME NEW p \in Procs, OfferSend(p) PROVE AnsweredBeforeStored'
    BY <1>5 DEF OfferSend, Return
  <1>6. ASSUME NEW p \in Procs, RecordEngineFailure(p) PROVE AnsweredBeforeStored'
    <2>1. /\ UNCHANGED <<engine, call, answeredBy>>
          /\ Goto(p, "tryFailover") \/ Goto(p, "stuck")
      BY <1>6 DEF RecordEngineFailure, Relock
    <2> QED BY <2>1
  <1>7. ASSUME NEW p \in Procs, TryFailover(p) PROVE AnsweredBeforeStored'
    BY <1>7 DEF TryFailover, Relock, Return
  <1>8. ASSUME NEW p \in Procs, Migrate(p) PROVE AnsweredBeforeStored'
    BY <1>8 DEF Migrate
  <1>9. ASSUME NEW p \in Procs, FailoverOfferPick(p) PROVE AnsweredBeforeStored'
    BY <1>9 DEF FailoverOfferPick
  <1>10. ASSUME NEW p \in Procs, FailoverOfferScan(p) PROVE AnsweredBeforeStored'
    BY <1>10 DEF FailoverOfferScan, Relock, Return
  <1>11. ASSUME NEW p \in Procs, FailoverOfferMigrate(p) PROVE AnsweredBeforeStored'
    BY <1>11 DEF FailoverOfferMigrate
  <1>12. ASSUME NEW p \in Procs, FailoverOfferSend(p) PROVE AnsweredBeforeStored'
    BY <1>12 DEF FailoverOfferSend, Return
  <1>13. ASSUME NEW p \in Procs, AnswerPick(p) PROVE AnsweredBeforeStored'
    BY <1>13 DEF AnswerPick, PickSessionEngine, GetEngine
  <1>14. ASSUME NEW p \in Procs, AnswerSend(p) PROVE AnsweredBeforeStored'
    BY <1>14 DEF AnswerSend, Return
  <1>15. ASSUME NEW p \in Procs, AnswerRead(p) PROVE AnsweredBeforeStored'
    BY <1>15 DEF AnswerRead, Return
  <1>16. ASSUME NEW p \in Procs, AnswerStore(p) PROVE AnsweredBeforeStored'
    BY <1>16 DEF AnswerStore, Return
  <1>17. ASSUME NEW p \in Procs, FailoverAnswerPick(p) PROVE AnsweredBeforeStored'
    BY <1>17 DEF FailoverAnswerPick, PickFailover
  <1>18. ASSUME NEW p \in Procs, FailoverAnswerSend(p) PROVE AnsweredBeforeStored'
    BY <1>18 DEF FailoverAnswerSend, Return
  <1>19. ASSUME NEW p \in Procs, FailoverAnswerSwitch(p) PROVE AnsweredBeforeStored'
    BY <1>19 DEF FailoverAnswerSwitch
  <1>20. ASSUME NEW p \in Procs, FailoverAnswerStore(p) PROVE AnsweredBeforeStored'
    BY <1>20 DEF FailoverAnswerStore, Return
  <1>21. ASSUME NEW p \in Procs, DeletePick(p) PROVE AnsweredBeforeStored'
    BY <1>21 DEF DeletePick, PickSessionEngine, GetEngine
  <1>22. ASSUME NEW p \in Procs, DeleteSend(p) PROVE AnsweredBeforeStored'
    BY <1>22 DEF DeleteSend
  <1>23. ASSUME NEW p \in Procs, DeleteClean(p) PROVE AnsweredBeforeStored'
    BY <1>23 DEF DeleteClean, Return
  <1>24. ASSUME NEW p \in Procs, FailoverDeletePick(p) PROVE AnsweredBeforeStored'
    BY <1>24 DEF FailoverDeletePick, PickFailover
  <1>25. ASSUME NEW p \in Procs, FailoverDeleteSend(p) PROVE AnsweredBeforeStored'
    BY <1>25 DEF FailoverDeleteSend, Return
  <1>26. ASSUME NEW p \in Procs, FailoverDeleteSwitch(p) PROVE AnsweredBeforeStored'
    BY <1>26 DEF FailoverDeleteSwitch
  <1>27. CASE UNCHANGED vars
    BY <1>27 DEF vars
  <1> QED
    BY <1>1, <1>2, <1>3, <1>4, <1>5, <1>6, <1>7, <1>8, <1>9, <1>10, <1>11, <1>12, <1>13, <1>14,
       <1>15, <1>16, <1>17, <1>18, <1>19, <1>20, <1>21, <1>22, <1>23, <1>24, <1>25, <1>26, <1>27
    DEF Next, Proceed

(* Storing, rewriting and deleting a session keep it to engines that       *)
(* answered, though the read and the write of an update are two steps.     *)
LEMMA StoredInductive ==
    TypeOK /\ AnsweredBeforeStored /\ StoredSessionAnswered /\ [Next]_vars
        => StoredSessionAnswered'
  <1> SUFFICES ASSUME TypeOK, AnsweredBeforeStored, StoredSessionAnswered, [Next]_vars
               PROVE  StoredSessionAnswered'
    OBVIOUS
  <1> USE ManagerAssumption, EngineIndices
      DEF TypeOK, AnsweredBeforeStored, StoredSessionAnswered, Steps, locals, Goto
  <1>1. ASSUME NEW p \in Procs, Begin(p) PROVE StoredSessionAnswered'
    BY <1>1 DEF Begin
  <1>2. ASSUME NEW p \in Procs, OfferPick(p) PROVE StoredSessionAnswered'
    BY <1>2 DEF OfferPick
  <1>3. ASSUME NEW p \in Procs, OfferInit(p) PROVE StoredSessionAnswered'
    BY <1>3 DEF OfferInit
  <1>4. ASSUME NEW p \in Procs, InitEngineStatus(p) PROVE StoredSessionAnswered'
    BY <1>4 DEF InitEngineStatus
  <1>5. ASSUME NEW p \in Procs, OfferSend(p) PROVE StoredSessionAnswered'
    BY <1>5 DEF OfferSend, Return
  <1>6. ASSUME NEW p \in Procs, RecordEngineFailure(p) PROVE StoredSessionAnswered'
    BY <1>6 DEF RecordEngineFailure, Relock
  <1>7. ASSUME NEW p \in Procs, TryFailover(p) PROVE StoredSessionAnswered'
    BY <1>7 DEF TryFailover, Relock, Return
  <1>8. ASSUME NEW p \in Procs, Migrate(p) PROVE StoredSessionAnswered'
    BY <1>8 DEF Migrate
  <1>9. ASSUME NEW p \in Procs, FailoverOfferPick(p) PROVE StoredSessionAnswered'
    BY <1>9 DEF FailoverOfferPick
  <1>10. ASSUME NEW p \in Procs, FailoverOfferScan(p) PROVE StoredSessionAnswered'
    BY <1>10 DEF FailoverOfferScan, Relock, Return
  <1>11. ASSUME NEW p \in Procs, FailoverOfferMigrate(p) PROVE StoredSessionAnswered'
    BY <1>11 DEF FailoverOfferMigrate
  <1>12. ASSUME NEW p \in Procs, FailoverOfferSend(p) PROVE StoredSessionAnswered'
    BY <1>12 DEF FailoverOfferSend, Return
  <1>13. ASSUME NEW p \in Procs, AnswerPick(p) PROVE StoredSessionAnswered'
    BY <1>13 DEF AnswerPick, PickSessionEngine, GetEngine
  <1>14. ASSUME NEW p \in Procs, AnswerSend(p) PROVE StoredSessionAnswered'
    BY <1>14 DEF AnswerSend, Return
  <1>15. ASSUME NEW p \in Procs, AnswerRead(p) PROVE StoredSessionAnswered'
    BY <1>15 DEF AnswerRead, Return
  <1>16. ASSUME NEW p \in Procs, AnswerStore(p) PROVE StoredSessionAnswered'
    BY <1>16 DEF AnswerStore, Return
  <1>17. ASSUME NEW p \in Procs, FailoverAnswerPick(p) PROVE StoredSessionAnswered'
    BY <1>17 DEF FailoverAnswerPick, PickFailover
  <1>18. ASSUME NEW p \in Procs, FailoverAnswerSend(p) PROVE StoredSessionAnswered'
    BY <1>18 DEF FailoverAnswerSend, Return
  <1>19. ASSUME NEW p \in Procs, FailoverAnswerSwitch(p) PROVE StoredSessionAnswered'
    BY <1>19 DEF FailoverAnswerSwitch
  <1>20. ASSUME NEW p \in Procs, FailoverAnswerStore(p) PROVE StoredSessionAnswered'
    BY <1>20 DEF FailoverAnswerStore, Return
  <1>21. ASSUME NEW p \in Procs, DeletePick(p) PROVE StoredSessionAnswered'
    BY <1>21 DEF DeletePick, PickSessionEngine, GetEngine
  <1>22. ASSUME NEW p \in Procs, DeleteSend(p) PROVE StoredSessionAnswered'
    BY <1>22 DEF DeleteSend
  <1>23. ASSUME NEW p \in Procs, DeleteClean(p) PROVE StoredSessionAnswered'
    BY <1>23 DEF DeleteClean, Return
  <1>24. ASSUME NEW p \in Procs, FailoverDeletePick(p) PROVE StoredSessionAnswered'
    BY <1>24 DEF FailoverDeletePick, PickFailover
  <1>25. ASSUME NEW p \in Procs, FailoverDeleteSend(p) PROVE StoredSessionAnswered'
    BY <1>25 DEF FailoverDeleteSend, Return
  <1>26. ASSUME NEW p \in Procs, FailoverDeleteSwitch(p) PROVE StoredSessionAnswered'
    BY <1>26 DEF FailoverDeleteSwitch
  <1>27. CASE UNCHANGED vars
    BY <1>27 DEF vars
  <1> QED
    BY <1>1, <1>2, <1>3, <1>4, <1>5, <1>6, <1>7, <1>8, <1>9, <1>10, <1>11, <1>12, <1>13, <1>14,
       <1>15, <1>16, <1>17, <1>18, <1>19, <1>20, <1>21, <1>22, <1>23, <1>24, <1>25, <1>26, <1>27
    DEF Next, Proceed

-----------------------------------------------------------------------------
(* What every interleaving of offers, answers, deletes and failovers       *)
(* keeps.                                                                  *)
THEOREM ManagerInvariant == Spec => []IInv
  <1>1. Init => IInv
    <2>1. Init => TypeOK
      BY EngineIndices DEF Init, TypeOK, Steps
    <2> QED
      BY <2>1 DEF Init, IInv, EnginePicked, ReadyPastInit, NoSelfDeadlock, HealthMatchesCount,
         AnsweredBeforeStored, StoredSessionAnswered, Talking, PastInit, Ready
  <1>2. IInv /\ [Next]_vars => IInv'
    BY TypeInductive, PickedInductive, ReadyInductive, NoDeadlockInductive, HealthInductive,
       AnsweredInductive, StoredInductive DEF IInv
  <1> QED
    BY <1>1, <1>2, PTL DEF Spec

(* The manager's state keeps its types: no index, wrapped around or        *)
(* scanned, ever leaves the engines.                                       *)
THEOREM TypeCorrect == Spec => []TypeOK
  <1>1. IInv => TypeOK
    BY DEF IInv
  <1> QED
    BY <1>1, ManagerInvariant, PTL

(* No offer blocks on m.mutex against itself, however many race to         *)
(* initialise engineStatus.                                                *)
THEOREM NeverDeadlocksItself == Spec => []NoSelfDeadlock
  <1>1. IInv => NoSelfDeadlock
    BY DEF IInv
  <1> QED
    BY <1>1, ManagerInvariant, PTL

(* IsHealthy and FailCount agree for any engines, shared addresses         *)
(* included.                                                               *)
THEOREM HealthIsCount == Spec => []HealthMatchesCount
  <1>1. IInv => HealthMatchesCount
    BY DEF IInv
  <1> QED
    BY <1>1, ManagerInvariant, PTL

(* The session of a call names an engine that accepted its answer, for any *)
(* number of overlapping answers, failovers and deletes of the call.       *)
THEOREM SessionsAnswered == Spec => []StoredSessionAnswered
  <1>1. IInv => StoredSessionAnswered
    BY DEF IInv
  <1> QED
    BY <1>1, ManagerInvariant, PTL

=============================================================================
