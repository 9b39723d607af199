--------------------------- MODULE WebSocketProofs ---------------------------
(***************************************************************************)
(* Theorems about the two modules of the WebSocket server.                 *)
(*                                                                         *)
(* WSAdmission, for any finite set of clients and any limits: how far the  *)
(* connection table can pass MaxConnections, what becomes of the keys the  *)
(* server keeps in storage, and whom Stop waits for.                       *)
(*                                                                         *)
(* WSSession, for any number of backends, any threshold and any number of  *)
(* dials: no goroutine blocks on errChan, no reader meets a missing        *)
(* backend, a session that is over makes at most one more connection per   *)
(* goroutine, and closeConnection runs once.                               *)
(*                                                                         *)
(* Both: a session of WSSession is, for the table, what WSAdmission        *)
(* assumes a session to be.                                                *)
(***************************************************************************)
EXTENDS WSAdmission, WSSession, FiniteSetTheorems, WellFoundedInduction, TLAPS

-----------------------------------------------------------------------------
(* The table: what holds of it besides the properties of WSAdmission.      *)

Registered(c) == pc[c] \in {"store", "spawn", "record", "done"}

(* A client enters the table when its handler registers it and leaves it   *)
(* only by closeConnection.                                                *)
TableFollowsHandlers ==
    \A c \in Clients :
        /\ c \in connections => Registered(c)
        /\ Registered(c) /\ phase[c] \in {"open", "remove"} => c \in connections

(* Handlers in flight whose capacity test met no other one: at most one of *)
(* them at a time, and what it found is still true of the clients that     *)
(* overlapped with nobody.                                                 *)
Fresh == InFlight \ overlapped

FreshHasRoom ==
    /\ \A c, d \in Fresh : c = d
    /\ Fresh # {} => Cardinality(connections \ overlapped) < MaxConnections

(* Of the clients that overlapped with nobody there is room for all.       *)
AloneKeepCapacity == Cardinality(connections \ overlapped) <= MaxConnections

(* The order of a handler's steps, of the session it starts and of         *)
(* closeConnection: before Stop, only a client with a session is closed.   *)
StepsInOrder ==
    /\ stop = "no" => sweep = {} /\ call["stop"] = {}
    /\ \A c \in Clients :
        /\ c \in stored => pc[c] \in {"spawn", "record", "done"}
        /\ session[c] # "none" => pc[c] \in {"record", "done"}
        /\ c \in helpers \/ c \in call["cleaner"] => session[c] # "none"
        /\ stop = "no" /\ phase[c] # "open" => session[c] # "none"
        /\ stop = "no" /\ phase[c] = "closed" => c \notin stored

(* The cleaner and Stop close one client at a time, and whom one of them   *)
(* has marked it carries to the end.                                       *)
OneCallEach ==
    \A x \in Outside :
        /\ \A c, d \in call[x] : c = d
        /\ \A c \in Clients : closer[c] = x => c \in call[x] /\ phase[c] # "open"

(* Who is open in the table after the snapshot of closeAllConnections is   *)
(* in the part of it that Stop has not yet marked, or came late.           *)
SweepCovers ==
    /\ stop \in {"closing", "wait", "done"} /\ ~ late =>
          \A c \in connections : phase[c] = "open" => c \in sweep \/ c \in call["stop"]
    /\ stop \in {"wait", "done"} => sweep = {} /\ call["stop"] = {}

IInv ==
    /\ TypeOK /\ TableFollowsHandlers /\ FreshHasRoom /\ AloneKeepCapacity /\ StepsInOrder
    /\ OneCallEach /\ SweepCovers

-----------------------------------------------------------------------------
(* AllowRequest, RecordSuccess and RecordFailure keep the breaker's        *)
(* counters within their limits.                                           *)
LEMMA BreakerTyped ==
    ASSUME TypeOK, Allows \/ RecordFailure \/ RecordSuccess
    PROVE  breaker' \in [state: {"closed", "open", "halfOpen"},
                         failures: 0..FailureThreshold, reqs: 0..HalfOpenMaxReqs]
  <1> USE AdmissionAssumption DEF TypeOK
  <1> DEFINE B == [state: {"closed", "open", "halfOpen"},
                   failures: 0..FailureThreshold, reqs: 0..HalfOpenMaxReqs]
  <1>a. /\ FailureThreshold \in Nat /\ HalfOpenMaxReqs \in Nat \ {0}
        /\ 0 \in 0..FailureThreshold /\ 1 \in 0..HalfOpenMaxReqs /\ breaker \in B
    OBVIOUS
  <1>1. CASE Allows
    <2>1. CASE breaker' = breaker
      BY <1>a, <2>1
    <2>2. CASE breaker' = [breaker EXCEPT !.state = "halfOpen", !.reqs = 1]
      BY <1>a, <2>2
    <2>3. CASE breaker.reqs < HalfOpenMaxReqs /\ breaker' = [breaker EXCEPT !.reqs = @ + 1]
      <3>1. breaker.reqs + 1 \in 0..HalfOpenMaxReqs
        BY <1>a, <2>3
      <3> QED BY <1>a, <2>3, <3>1
    <2> QED BY <1>1, <2>1, <2>2, <2>3 DEF Allows
  <1>2. CASE RecordFailure
    <2> DEFINE n == IF breaker.failures < FailureThreshold THEN breaker.failures + 1
                                                           ELSE breaker.failures
    <2>1. n \in 0..FailureThreshold
      OBVIOUS
    <2> HIDE DEF n
    <2>2. \E s \in {"closed", "open", "halfOpen"} :
             breaker' = [breaker EXCEPT !.failures = n, !.state = s]
      BY <1>2 DEF RecordFailure, n
    <2> QED BY <2>1, <2>2
  <1>3. CASE RecordSuccess
    <2>1. \E s \in {"closed", "open", "halfOpen"} :
             breaker' = [breaker EXCEPT !.failures = 0, !.state = s]
      BY <1>3 DEF RecordSuccess
    <2> QED BY <1>a, <2>1
  <1> QED BY <1>1, <1>2, <1>3

(* Every step of the handlers, the sessions, the cleaner and Stop keeps    *)
(* the server's state in its types.                                        *)
LEMMA TypeInductive == TypeOK /\ [Next]_vars => TypeOK'
  <1> SUFFICES ASSUME TypeOK, [Next]_vars
               PROVE  TypeOK'
    OBVIOUS
  <1> USE AdmissionAssumption
      DEF TypeOK, HandlerSteps, Closers, Outside, Goto, admission, table, life, stopping
  <1>1. ASSUME NEW c \in Clients, Accept(c) PROVE TypeOK'
    BY <1>1 DEF Accept
  <1>2. ASSUME NEW c \in Clients, CheckCapacity(c) PROVE TypeOK'
    BY <1>2 DEF CheckCapacity
  <1>3. ASSUME NEW c \in Clients, AllowRequest(c) PROVE TypeOK'
    <2>1. leaked' \in BOOLEAN
      BY <1>3 DEF AllowRequest
    <2>2. late' \in BOOLEAN
      BY <1>3 DEF AllowRequest
    <2> QED BY <1>3, <2>1, <2>2, BreakerTyped DEF AllowRequest
  <1>4. ASSUME NEW c \in Clients, Upgrade(c) PROVE TypeOK'
    BY <1>4, BreakerTyped DEF Upgrade
  <1>5. ASSUME NEW c \in Clients, Register(c) PROVE TypeOK'
    BY <1>5 DEF Register
  <1>6. ASSUME NEW c \in Clients, StoreKey(c) PROVE TypeOK'
    BY <1>6 DEF StoreKey
  <1>7. ASSUME NEW c \in Clients, Spawn(c) PROVE TypeOK'
    BY <1>7 DEF Spawn
  <1>8. ASSUME NEW c \in Clients, Record(c) PROVE TypeOK'
    BY <1>8, BreakerTyped DEF Record
  <1>9. ASSUME NEW c \in Clients, SessionStarts(c) PROVE TypeOK'
    BY <1>9 DEF SessionStarts
  <1>10. ASSUME NEW c \in Clients, WriteBegin(c) PROVE TypeOK'
    BY <1>10 DEF WriteBegin
  <1>11. ASSUME NEW c \in Clients, WriteEnd(c) PROVE TypeOK'
    BY <1>11 DEF WriteEnd
  <1>12. ASSUME NEW c \in Clients, HelpersEnd(c) PROVE TypeOK'
    BY <1>12 DEF HelpersEnd
  <1>13. ASSUME NEW c \in Clients, SessionReturns(c) PROVE TypeOK'
    BY <1>13 DEF SessionReturns, CloseMark
  <1>14. ASSUME NEW c \in Clients, SessionOver(c) PROVE TypeOK'
    BY <1>14 DEF SessionOver
  <1>15. ASSUME NEW c \in Clients, CleanConnections(c) PROVE TypeOK'
    BY <1>15 DEF CleanConnections
  <1>16. ASSUME NEW c \in Clients, NEW x \in Outside, CallMark(x, c) PROVE TypeOK'
    BY <1>16 DEF CallMark, CloseMark
  <1>17. ASSUME NEW c \in Clients, CloseRemove(c) PROVE TypeOK'
    BY <1>17 DEF CloseRemove
  <1>18. ASSUME NEW c \in Clients, CloseKey(c) PROVE TypeOK'
    BY <1>18 DEF CloseKey
  <1>19. CASE StopBegin
    BY <1>19 DEF StopBegin
  <1>20. CASE CloseAllConnections
    BY <1>20 DEF CloseAllConnections
  <1>21. ASSUME NEW c \in Clients, StopClose(c) PROVE TypeOK'
    BY <1>21 DEF StopClose
  <1>22. CASE StopClosed
    BY <1>22 DEF StopClosed
  <1>23. CASE StopWait
    BY <1>23 DEF StopWait
  <1>24. CASE UNCHANGED vars
    BY <1>24 DEF vars
  <1> QED
    BY <1>1, <1>2, <1>3, <1>4, <1>5, <1>6, <1>7, <1>8, <1>9, <1>10, <1>11, <1>12, <1>13,
       <1>14, <1>15, <1>16, <1>17, <1>18, <1>19, <1>20, <1>21, <1>22, <1>23, <1>24
    DEF Next, HandleWebSocket, HandleClient, SessionStep, CloseStep, StopStep

(* Only Register adds to the table, after which the handler never starts   *)
(* over, and only closeConnection takes from it.                           *)
LEMMA TableInductive == TypeOK /\ TableFollowsHandlers /\ [Next]_vars => TableFollowsHandlers'
  <1> SUFFICES ASSUME TypeOK, TableFollowsHandlers, [Next]_vars
               PROVE  TableFollowsHandlers'
    OBVIOUS
  <1> USE AdmissionAssumption
      DEF TypeOK, HandlerSteps, Outside, TableFollowsHandlers, Registered, Goto, admission,
          table, life, stopping
  <1>1. ASSUME NEW c \in Clients, Accept(c) PROVE TableFollowsHandlers'
    BY <1>1 DEF Accept
  <1>2. ASSUME NEW c \in Clients, CheckCapacity(c) PROVE TableFollowsHandlers'
    BY <1>2 DEF CheckCapacity
  <1>3. ASSUME NEW c \in Clients, AllowRequest(c) PROVE TableFollowsHandlers'
    BY <1>3 DEF AllowRequest, Allows, Refuses
  <1>4. ASSUME NEW c \in Clients, Upgrade(c) PROVE TableFollowsHandlers'
    BY <1>4 DEF Upgrade, RecordFailure
  <1>5. ASSUME NEW c \in Clients, Register(c) PROVE TableFollowsHandlers'
    BY <1>5 DEF Register
  <1>6. ASSUME NEW c \in Clients, StoreKey(c) PROVE TableFollowsHandlers'
    BY <1>6 DEF StoreKey
  <1>7. ASSUME NEW c \in Clients, Spawn(c) PROVE TableFollowsHandlers'
    BY <1>7 DEF Spawn
  <1>8. ASSUME NEW c \in Clients, Record(c) PROVE TableFollowsHandlers'
    BY <1>8 DEF Record, RecordSuccess
  <1>9. ASSUME NEW c \in Clients, SessionStarts(c) PROVE TableFollowsHandlers'
    BY <1>9 DEF SessionStarts
  <1>10. ASSUME NEW c \in Clients, WriteBegin(c) PROVE TableFollowsHandlers'
    BY <1>10 DEF WriteBegin
  <1>11. ASSUME NEW c \in Clients, WriteEnd(c) PROVE TableFollowsHandlers'
    BY <1>11 DEF WriteEnd
  <1>12. ASSUME NEW c \in Clients, HelpersEnd(c) PROVE TableFollowsHandlers'
    BY <1>12 DEF HelpersEnd
  <1>13. ASSUME NEW c \in Clients, SessionReturns(c) PROVE TableFollowsHandlers'
    BY <1>13 DEF SessionReturns, CloseMark
  <1>14. ASSUME NEW c \in Clients, SessionOver(c) PROVE TableFollowsHandlers'
    BY <1>14 DEF SessionOver
  <1>15. ASSUME NEW c \in Clients, CleanConnections(c) PROVE TableFollowsHandlers'
    BY <1>15 DEF CleanConnections
  <1>16. ASSUME NEW c \in Clients, NEW x \in Outside, CallMark(x, c) PROVE TableFollowsHandlers'
    BY <1>16 DEF CallMark, CloseMark
  <1>17. ASSUME NEW c \in Clients, CloseRemove(c) PROVE TableFollowsHandlers'
    BY <1>17 DEF CloseRemove
  <1>18. ASSUME NEW c \in Clients, CloseKey(c) PROVE TableFollowsHandlers'
    BY <1>18 DEF CloseKey
  <1>19. CASE StopBegin
    BY <1>19 DEF StopBegin
  <1>20. CASE CloseAllConnections
    BY <1>20 DEF CloseAllConnections
  <1>21. ASSUME NEW c \in Clients, StopClose(c) PROVE TableFollowsHandlers'
    BY <1>21 DEF StopClose
  <1>22. CASE StopClosed
    BY <1>22 DEF StopClosed
  <1>23. CASE StopWait
    BY <1>23 DEF StopWait
  <1>24. CASE UNCHANGED vars
    BY <1>24 DEF vars
  <1> QED
    BY <1>1, <1>2, <1>3, <1>4, <1>5, <1>6, <1>7, <1>8, <1>9, <1>10, <1>11, <1>12, <1>13,
       <1>14, <1>15, <1>16, <1>17, <1>18, <1>19, <1>20, <1>21, <1>22, <1>23, <1>24
    DEF Next, HandleWebSocket, HandleClient, SessionStep, CloseStep, StopStep

(* The key is stored before the session is started, and nobody but Stop    *)
(* closes a client without a session: the key is deleted after it was      *)
(* stored.                                                                 *)
LEMMA OrderInductive ==
    TypeOK /\ TableFollowsHandlers /\ StepsInOrder /\ [Next]_vars => StepsInOrder'
  <1> SUFFICES ASSUME TypeOK, TableFollowsHandlers, StepsInOrder, [Next]_vars
               PROVE  StepsInOrder'
    OBVIOUS
  <1> USE AdmissionAssumption
      DEF TypeOK, HandlerSteps, Closers, Outside, TableFollowsHandlers, StepsInOrder,
          Registered, Goto, admission, table, life, stopping
  <1>1. ASSUME NEW c \in Clients, Accept(c) PROVE StepsInOrder'
    BY <1>1 DEF Accept
  <1>2. ASSUME NEW c \in Clients, CheckCapacity(c) PROVE StepsInOrder'
    BY <1>2 DEF CheckCapacity
  <1>3. ASSUME NEW c \in Clients, AllowRequest(c) PROVE StepsInOrder'
    BY <1>3 DEF AllowRequest, Allows, Refuses
  <1>4. ASSUME NEW c \in Clients, Upgrade(c) PROVE StepsInOrder'
    BY <1>4 DEF Upgrade, RecordFailure
  <1>5. ASSUME NEW c \in Clients, Register(c) PROVE StepsInOrder'
    BY <1>5 DEF Register
  <1>6. ASSUME NEW c \in Clients, StoreKey(c) PROVE StepsInOrder'
    BY <1>6 DEF StoreKey
  <1>7. ASSUME NEW c \in Clients, Spawn(c) PROVE StepsInOrder'
    BY <1>7 DEF Spawn
  <1>8. ASSUME NEW c \in Clients, Record(c) PROVE StepsInOrder'
    BY <1>8 DEF Record, RecordSuccess
  <1>9. ASSUME NEW c \in Clients, SessionStarts(c) PROVE StepsInOrder'
    BY <1>9 DEF SessionStarts
  <1>10. ASSUME NEW c \in Clients, WriteBegin(c) PROVE StepsInOrder'
    BY <1>10 DEF WriteBegin
  <1>11. ASSUME NEW c \in Clients, WriteEnd(c) PROVE StepsInOrder'
    BY <1>11 DEF WriteEnd
  <1>12. ASSUME NEW c \in Clients, HelpersEnd(c) PROVE StepsInOrder'
    BY <1>12 DEF HelpersEnd
  <1>13. ASSUME NEW c \in Clients, SessionReturns(c) PROVE StepsInOrder'
    BY <1>13 DEF SessionReturns, CloseMark
  <1>14. ASSUME NEW c \in Clients, SessionOver(c) PROVE StepsInOrder'
    BY <1>14 DEF SessionOver
  <1>15. ASSUME NEW c \in Clients, CleanConnections(c) PROVE StepsInOrder'
    BY <1>15 DEF CleanConnections
  <1>16. ASSUME NEW c \in Clients, NEW x \in Outside, CallMark(x, c) PROVE StepsInOrder'
    BY <1>16 DEF CallMark, CloseMark
  <1>17. ASSUME NEW c \in Clients, CloseRemove(c) PROVE StepsInOrder'
    BY <1>17 DEF CloseRemove
  <1>18. ASSUME NEW c \in Clients, CloseKey(c) PROVE StepsInOrder'
    BY <1>18 DEF CloseKey
  <1>19. CASE StopBegin
    BY <1>19 DEF StopBegin
  <1>20. CASE CloseAllConnections
    BY <1>20 DEF CloseAllConnections
  <1>21. ASSUME NEW c \in Clients, StopClose(c) PROVE StepsInOrder'
    BY <1>21 DEF StopClose
  <1>22. CASE StopClosed
    BY <1>22 DEF StopClosed
  <1>23. CASE StopWait
    BY <1>23 DEF StopWait
  <1>24. CASE UNCHANGED vars
    BY <1>24 DEF vars
  <1> QED
    BY <1>1, <1>2, <1>3, <1>4, <1>5, <1>6, <1>7, <1>8, <1>9, <1>10, <1>11, <1>12, <1>13,
       <1>14, <1>15, <1>16, <1>17, <1>18, <1>19, <1>20, <1>21, <1>22, <1>23, <1>24
    DEF Next, HandleWebSocket, HandleClient, SessionStep, CloseStep, StopStep

(* Sets of clients are finite, and a smaller one is no larger.             *)
LEMMA ClientsFinite ==
    ASSUME NEW S \in SUBSET Clients
    PROVE  /\ IsFiniteSet(S) /\ Cardinality(S) \in Nat
           /\ \A T \in SUBSET S : Cardinality(T) <= Cardinality(S)
  BY AdmissionAssumption, FS_Subset, FS_CardinalityType

(* Away from the capacity test and the registration, a step starts no      *)
(* handler, forgets no overlap and adds nobody to the table.               *)
LEMMA CapacityUntouched ==
    ASSUME TypeOK, [Next]_vars,
           \A c \in Clients : ~CheckCapacity(c) /\ ~Register(c)
    PROVE  Fresh' \subseteq Fresh /\ connections' \subseteq connections /\ overlapped' = overlapped
  BY DEF TypeOK, Next, HandleWebSocket, HandleClient, SessionStep, CloseStep, StopStep, Fresh,
         InFlight, Goto, vars, admission, table, life, stopping, Accept, AllowRequest, Upgrade,
         StoreKey, Spawn, Record, SessionStarts, WriteBegin, WriteEnd, HelpersEnd,
         SessionReturns, SessionOver, CleanConnections, CallMark, CloseRemove, CloseKey,
         StopBegin, CloseAllConnections, StopClose, StopClosed, StopWait

(* Whoever is marked by the cleaner or Stop is the one client it is        *)
(* closing, until its key is deleted.                                      *)
LEMMA CallsInductive == TypeOK /\ OneCallEach /\ [Next]_vars => OneCallEach'
  <1> SUFFICES ASSUME TypeOK, OneCallEach, [Next]_vars
               PROVE  OneCallEach'
    OBVIOUS
  <1> USE AdmissionAssumption
      DEF TypeOK, HandlerSteps, Closers, Outside, OneCallEach, admission, table, life, stopping
  <1>1. ASSUME NEW c \in Clients, Accept(c) PROVE OneCallEach'
    BY <1>1 DEF Accept
  <1>2. ASSUME NEW c \in Clients, CheckCapacity(c) PROVE OneCallEach'
    BY <1>2 DEF CheckCapacity
  <1>3. ASSUME NEW c \in Clients, AllowRequest(c) PROVE OneCallEach'
    BY <1>3 DEF AllowRequest, Allows, Refuses
  <1>4. ASSUME NEW c \in Clients, Upgrade(c) PROVE OneCallEach'
    BY <1>4 DEF Upgrade, RecordFailure
  <1>5. ASSUME NEW c \in Clients, Register(c) PROVE OneCallEach'
    BY <1>5 DEF Register
  <1>6. ASSUME NEW c \in Clients, StoreKey(c) PROVE OneCallEach'
    BY <1>6 DEF StoreKey
  <1>7. ASSUME NEW c \in Clients, Spawn(c) PROVE OneCallEach'
    BY <1>7 DEF Spawn
  <1>8. ASSUME NEW c \in Clients, Record(c) PROVE OneCallEach'
    BY <1>8 DEF Record, RecordSuccess
  <1>9. ASSUME NEW c \in Clients, SessionStarts(c) PROVE OneCallEach'
    BY <1>9 DEF SessionStarts
  <1>10. ASSUME NEW c \in Clients, WriteBegin(c) PROVE OneCallEach'
    BY <1>10 DEF WriteBegin
  <1>11. ASSUME NEW c \in Clients, WriteEnd(c) PROVE OneCallEach'
    BY <1>11 DEF WriteEnd
  <1>12. ASSUME NEW c \in Clients, HelpersEnd(c) PROVE OneCallEach'
    BY <1>12 DEF HelpersEnd
  <1>13. ASSUME NEW c \in Clients, SessionReturns(c) PROVE OneCallEach'
    BY <1>13 DEF SessionReturns, CloseMark
  <1>14. ASSUME NEW c \in Clients, SessionOver(c) PROVE OneCallEach'
    BY <1>14 DEF SessionOver
  <1>15. ASSUME NEW c \in Clients, CleanConnections(c) PROVE OneCallEach'
    BY <1>15 DEF CleanConnections
  <1>16. ASSUME NEW c \in Clients, NEW x \in Outside, CallMark(x, c) PROVE OneCallEach'
    BY <1>16 DEF CallMark, CloseMark
  <1>17. ASSUME NEW c \in Clients, CloseRemove(c) PROVE OneCallEach'
    BY <1>17 DEF CloseRemove
  <1>18. ASSUME NEW c \in Clients, CloseKey(c) PROVE OneCallEach'
    BY <1>18 DEF CloseKey
  <1>19. CASE StopBegin
    BY <1>19 DEF StopBegin
  <1>20. CASE CloseAllConnections
    BY <1>20 DEF CloseAllConnections
  <1>21. ASSUME NEW c \in Clients, StopClose(c) PROVE OneCallEach'
    BY <1>21 DEF StopClose
  <1>22. CASE StopClosed
    BY <1>22 DEF StopClosed
  <1>23. CASE StopWait
    BY <1>23 DEF StopWait
  <1>24. CASE UNCHANGED vars
    BY <1>24 DEF vars
  <1> QED
    BY <1>1, <1>2, <1>3, <1>4, <1>5, <1>6, <1>7, <1>8, <1>9, <1>10, <1>11, <1>12, <1>13,
       <1>14, <1>15, <1>16, <1>17, <1>18, <1>19, <1>20, <1>21, <1>22, <1>23, <1>24
    DEF Next, HandleWebSocket, HandleClient, SessionStep, CloseStep, StopStep

(* Stop marks everyone of its snapshot before it waits, and nobody is open *)
(* again who was closed.                                                   *)
LEMMA SweepInductive ==
    TypeOK /\ OneCallEach /\ SweepCovers /\ [Next]_vars => SweepCovers'
  <1> SUFFICES ASSUME TypeOK, OneCallEach, SweepCovers, [Next]_vars
               PROVE  SweepCovers'
    OBVIOUS
  <1> USE AdmissionAssumption
      DEF TypeOK, HandlerSteps, Closers, Outside, OneCallEach, SweepCovers, admission, table,
          life, stopping
  <1>1. ASSUME NEW c \in Clients, Accept(c) PROVE SweepCovers'
    BY <1>1 DEF Accept
  <1>2. ASSUME NEW c \in Clients, CheckCapacity(c) PROVE SweepCovers'
    BY <1>2 DEF CheckCapacity
  <1>3. ASSUME NEW c \in Clients, AllowRequest(c) PROVE SweepCovers'
    BY <1>3 DEF AllowRequest, Allows, Refuses
  <1>4. ASSUME NEW c \in Clients, Upgrade(c) PROVE SweepCovers'
    BY <1>4 DEF Upgrade, RecordFailure
  <1>5. ASSUME NEW c \in Clients, Register(c) PROVE SweepCovers'
    BY <1>5 DEF Register
  <1>6. ASSUME NEW c \in Clients, StoreKey(c) PROVE SweepCovers'
    BY <1>6 DEF StoreKey
  <1>7. ASSUME NEW c \in Clients, Spawn(c) PROVE SweepCovers'
    BY <1>7 DEF Spawn
  <1>8. ASSUME NEW c \in Clients, Record(c) PROVE SweepCovers'
    BY <1>8 DEF Record, RecordSuccess
  <1>9. ASSUME NEW c \in Clients, SessionStarts(c) PROVE SweepCovers'
    BY <1>9 DEF SessionStarts
  <1>10. ASSUME NEW c \in Clients, WriteBegin(c) PROVE SweepCovers'
    BY <1>10 DEF WriteBegin
  <1>11. ASSUME NEW c \in Clients, WriteEnd(c) PROVE SweepCovers'
    BY <1>11 DEF WriteEnd
  <1>12. ASSUME NEW c \in Clients, HelpersEnd(c) PROVE SweepCovers'
    BY <1>12 DEF HelpersEnd
  <1>13. ASSUME NEW c \in Clients, SessionReturns(c) PROVE SweepCovers'
    BY <1>13 DEF SessionReturns, CloseMark
  <1>14. ASSUME NEW c \in Clients, SessionOver(c) PROVE SweepCovers'
    BY <1>14 DEF SessionOver
  <1>15. ASSUME NEW c \in Clients, CleanConnections(c) PROVE SweepCovers'
    BY <1>15 DEF CleanConnections
  <1>16. ASSUME NEW c \in Clients, NEW x \in Outside, CallMark(x, c) PROVE SweepCovers'
    BY <1>16 DEF CallMark, CloseMark
  <1>17. ASSUME NEW c \in Clients, CloseRemove(c) PROVE SweepCovers'
    BY <1>17 DEF CloseRemove
  <1>18. ASSUME NEW c \in Clients, CloseKey(c) PROVE SweepCovers'
    BY <1>18 DEF CloseKey
  <1>19. CASE StopBegin
    BY <1>19 DEF StopBegin
  <1>20. CASE CloseAllConnections
    BY <1>20 DEF CloseAllConnections
  <1>21. ASSUME NEW c \in Clients, StopClose(c) PROVE SweepCovers'
    BY <1>21 DEF StopClose
  <1>22. CASE StopClosed
    BY <1>22 DEF StopClosed
  <1>23. CASE StopWait
    BY <1>23 DEF StopWait
  <1>24. CASE UNCHANGED vars
    BY <1>24 DEF vars
  <1> QED
    BY <1>1, <1>2, <1>3, <1>4, <1>5, <1>6, <1>7, <1>8, <1>9, <1>10, <1>11, <1>12, <1>13,
       <1>14, <1>15, <1>16, <1>17, <1>18, <1>19, <1>20, <1>21, <1>22, <1>23, <1>24
    DEF Next, HandleWebSocket, HandleClient, SessionStep, CloseStep, StopStep

(* A handler that tests the capacity while nobody is in flight finds room  *)
(* that only its own registration uses up; every other one is recorded as  *)
(* overlapping.                                                            *)
LEMMA CapacityInductive ==
    TypeOK /\ TableFollowsHandlers /\ FreshHasRoom /\ AloneKeepCapacity /\ [Next]_vars
        => FreshHasRoom' /\ AloneKeepCapacity'
  <1> SUFFICES ASSUME TypeOK, TableFollowsHandlers, FreshHasRoom, AloneKeepCapacity, [Next]_vars
               PROVE  FreshHasRoom' /\ AloneKeepCapacity'
    OBVIOUS
  <1> USE AdmissionAssumption
  <1>a. MaxConnections \in Nat
    OBVIOUS
  <1>b. ASSUME Fresh' \subseteq Fresh, connections' \ overlapped' \subseteq connections \ overlapped
        PROVE  FreshHasRoom' /\ AloneKeepCapacity'
    <2>1. connections \ overlapped \in SUBSET Clients
      BY DEF TypeOK
    <2>2. /\ Cardinality(connections' \ overlapped') <= Cardinality(connections \ overlapped)
          /\ Cardinality(connections \ overlapped) \in Nat
          /\ Cardinality(connections' \ overlapped') \in Nat
      <3>1. connections' \ overlapped' \in SUBSET Clients
        BY <1>b, <2>1
      <3> QED BY <1>b, <2>1, <3>1, ClientsFinite
    <2> QED BY <1>a, <1>b, <2>2 DEF FreshHasRoom, AloneKeepCapacity
  <1>1. ASSUME NEW c \in Clients, CheckCapacity(c)
        PROVE  FreshHasRoom' /\ AloneKeepCapacity'
    <2>1. connections' = connections /\ c \notin connections
      BY <1>1 DEF CheckCapacity, table, TableFollowsHandlers, Registered
    <2>2. connections' \ overlapped' = connections \ overlapped
      BY <1>1, <2>1 DEF CheckCapacity
    <2>3. CASE InFlight # {}
      <3>1. Fresh' \subseteq Fresh
        BY <1>1, <2>3 DEF CheckCapacity, Fresh, InFlight, Goto, TypeOK
      <3> QED BY <1>b, <2>2, <3>1
    <2>4. CASE InFlight = {} /\ Cardinality(connections) < MaxConnections
      <3>1. Fresh' \subseteq {c}
        BY <1>1, <2>4 DEF CheckCapacity, Fresh, InFlight, Goto, TypeOK
      <3>2. /\ Cardinality(connections \ overlapped) <= Cardinality(connections)
            /\ Cardinality(connections \ overlapped) \in Nat /\ Cardinality(connections) \in Nat
        <4>1. connections \in SUBSET Clients /\ connections \ overlapped \in SUBSET Clients
          BY DEF TypeOK
        <4> QED BY <4>1, ClientsFinite
      <3>3. Cardinality(connections' \ overlapped') < MaxConnections
        BY <1>a, <2>2, <2>4, <3>2
      <3> QED BY <1>a, <2>2, <3>1, <3>2, <3>3 DEF FreshHasRoom, AloneKeepCapacity
    <2>5. CASE InFlight = {} /\ ~(Cardinality(connections) < MaxConnections)
      <3>1. Fresh' = {}
        BY <1>1, <2>5 DEF CheckCapacity, Fresh, InFlight, Goto, TypeOK
      <3> QED BY <1>b, <2>2, <3>1
    <2> QED BY <2>3, <2>4, <2>5
  <1>2. ASSUME NEW c \in Clients, Register(c)
        PROVE  FreshHasRoom' /\ AloneKeepCapacity'
    <2>1. connections' = connections \cup {c} /\ overlapped' = overlapped
      BY <1>2 DEF Register
    <2>2. Fresh' = Fresh \ {c} /\ c \in InFlight
      BY <1>2 DEF Register, Fresh, InFlight, Goto, TypeOK
    <2>3. CASE c \in overlapped
      BY <1>b, <2>1, <2>2, <2>3
    <2>4. CASE c \notin overlapped
      <3>1. Fresh = {c} /\ Fresh' = {}
        BY <2>2, <2>4 DEF FreshHasRoom, Fresh
      <3>2. connections' \ overlapped' = (connections \ overlapped) \cup {c}
        BY <2>1, <2>4
      <3>3. IsFiniteSet(connections \ overlapped) /\ Cardinality(connections \ overlapped) \in Nat
        BY ClientsFinite DEF TypeOK
      <3>4. \/ Cardinality(connections' \ overlapped') = Cardinality(connections \ overlapped)
            \/ Cardinality(connections' \ overlapped') = Cardinality(connections \ overlapped) + 1
        <4> DEFINE A == connections \ overlapped
        <4>1. Cardinality(A \cup {c}) = IF c \in A THEN Cardinality(A) ELSE Cardinality(A) + 1
          BY <3>3, FS_AddElement
        <4> QED BY <3>2, <4>1
      <3>5. Cardinality(connections \ overlapped) < MaxConnections
        BY <3>1 DEF FreshHasRoom
      <3> QED BY <1>a, <3>1, <3>3, <3>4, <3>5 DEF FreshHasRoom, AloneKeepCapacity
    <2> QED BY <2>3, <2>4
  <1>3. CASE \A c \in Clients : ~CheckCapacity(c) /\ ~Register(c)
    BY <1>b, <1>3, CapacityUntouched
  <1> QED BY <1>1, <1>2, <1>3

-----------------------------------------------------------------------------
(* The order in which handlers, sessions, the cleaner and Stop change the  *)
(* table, the keys and the capacity, for any number of them.               *)
THEOREM AdmissionInvariant == Spec => []IInv
  <1>1. Init => IInv
    <2>1. Init => TableFollowsHandlers /\ StepsInOrder /\ OneCallEach /\ SweepCovers
      BY DEF Init, TableFollowsHandlers, StepsInOrder, OneCallEach, SweepCovers, Registered,
             Outside
    <2>2. Init => TypeOK
      <3>1. 0 \in 0..FailureThreshold /\ 0 \in 0..HalfOpenMaxReqs
        BY AdmissionAssumption
      <3>2. Init => breaker \in [state: {"closed", "open", "halfOpen"},
                                  failures: 0..FailureThreshold, reqs: 0..HalfOpenMaxReqs]
        BY <3>1 DEF Init
      <3>3. Init => leaked \in BOOLEAN /\ late \in BOOLEAN
        BY DEF Init
      <3> QED BY <3>2, <3>3 DEF Init, TypeOK, HandlerSteps, Closers, Outside
    <2>3. ASSUME Init PROVE FreshHasRoom /\ AloneKeepCapacity
      <3>1. Fresh = {} /\ connections \ overlapped = {}
        BY <2>3 DEF Init, Fresh, InFlight
      <3>2. Cardinality(connections \ overlapped) = 0
        BY <3>1, FS_EmptySet
      <3> QED BY <3>1, <3>2, AdmissionAssumption DEF FreshHasRoom, AloneKeepCapacity
    <2> QED BY <2>1, <2>2, <2>3 DEF IInv
  <1>2. IInv /\ [Next]_vars => IInv'
    BY TypeInductive, TableInductive, OrderInductive, CapacityInductive, CallsInductive,
       SweepInductive
    DEF IInv
  <1> QED
    BY <1>1, <1>2, PTL DEF Spec

(* The server's state keeps its types, the breaker's counters included.    *)
THEOREM TypeCorrect == Spec => []TypeOK
  <1>1. IInv => TypeOK
    BY DEF IInv
  <1> QED
    BY <1>1, AdmissionInvariant, PTL

(* However many handshakes run at once, the table passes MaxConnections    *)
(* only by clients whose capacity test met another one in flight.          *)
THEOREM CapacityKept == Spec => []CapacityKeptUnlessOverlapped
  <1>1. ASSUME IInv PROVE CapacityKeptUnlessOverlapped
    <2>1. connections \in SUBSET Clients
      BY <1>1 DEF IInv, TypeOK
    <2> DEFINE A == connections \ overlapped
               B == connections \cap overlapped
    <2>2. /\ IsFiniteSet(A) /\ Cardinality(A) \in Nat
          /\ IsFiniteSet(B) /\ Cardinality(B) \in Nat
      BY <2>1, ClientsFinite
    <2>3. A \cup B = connections /\ A \cap B = {}
      OBVIOUS
    <2>4. Cardinality(connections) = Cardinality(A) + Cardinality(B)
      <3>1. Cardinality(A \cup B) = Cardinality(A) + Cardinality(B) - Cardinality(A \cap B)
        BY <2>2, FS_Union
      <3>2. Cardinality(A \cap B) = 0
        BY <2>3, FS_EmptySet
      <3>3. Cardinality(connections) = Cardinality(A \cup B)
        BY <2>3, Zenon
      <3> HIDE DEF A, B
      <3> QED BY <2>2, <3>1, <3>2, <3>3
    <2>5. Cardinality(A) <= MaxConnections
      BY <1>1 DEF IInv, AloneKeepCapacity
    <2>6. MaxConnections \in Nat
      BY AdmissionAssumption
    <2> QED BY <2>2, <2>4, <2>5, <2>6 DEF CapacityKeptUnlessOverlapped
  <1> QED
    BY <1>1, AdmissionInvariant, PTL

(* Until Stop begins, a key outlives its client's place in the table only  *)
(* between the two steps of closeConnection that remove them.              *)
THEOREM KeysFollow == Spec => []KeysFollowConnections
  <1>1. IInv => KeysFollowConnections
    BY DEF IInv, KeysFollowConnections, TypeOK, TableFollowsHandlers, StepsInOrder, Registered
  <1> QED
    BY <1>1, AdmissionInvariant, PTL

(* When Stop comes to wg.Wait, everyone whose session it waits for has     *)
(* been closed, by whomever, for any number of clients: only one that was  *)
(* registered after the snapshot can hold it up without knowing.           *)
THEOREM StopClosesAll == Spec => []StopLeavesNoneOpen
  <1>1. IInv => StopLeavesNoneOpen
    BY DEF IInv, StopLeavesNoneOpen, TypeOK, TableFollowsHandlers, StepsInOrder, SweepCovers,
           Registered
  <1> QED
    BY <1>1, AdmissionInvariant, PTL

-----------------------------------------------------------------------------
(* The session                                                             *)

(* The types of a session, but for the capacity of errChan.                *)
SessionFieldsOK ==
    /\ health \in [Backends -> BOOLEAN] /\ checks \in 0..MaxChecks
    /\ inMap \in BOOLEAN /\ closed \in BOOLEAN /\ cancelled \in BOOLEAN
    /\ clientDone \in BOOLEAN /\ clientOpen \in BOOLEAN
    /\ errChan \in Nat
    /\ backendConn \in Conns \cup {Nil} /\ current \in Backends \cup {Nil}
    /\ errorCount \in 0..FailoverThreshold
    /\ open \subseteq Conns
    /\ dials \in 0..MaxDials /\ lateDials \in [Readers -> 0..dials]
    /\ handler \in {"select", "dial", "wait", "closing", "done"}
    /\ target \in [Dialers -> Backends \cup {Nil}]
    /\ reader \in [Readers -> ReaderSteps]
    /\ using \in [Readers -> Conns \cup {Nil}]
    /\ keepalive \in {"none", "run", "write", "done"}
    /\ closing \in [CloseCallers -> ClosingSteps]

(* 1 if reader r may have sent an error: it returns when it has.           *)
Sent(r) == IF reader[r] = "done" THEN 1 ELSE 0

(* errChan holds no more errors than readers have returned.                *)
ErrorsFromReturned == errChan <= Sent("client") + Sent("backend")

(* The goroutines start when handleClient has dialled, and from then on    *)
(* there is a backend and a connection to it, for the session, for a       *)
(* failover under way and for a reader that reads or writes.               *)
BackendKnown ==
    /\ handler \in {"select", "dial"} => reader = [r \in Readers |-> "none"]
    /\ handler = "dial" => target["handler"] \in Backends
    /\ \A r \in Readers :
        /\ reader[r] # "none" => current \in Backends /\ backendConn \in Conns
        /\ reader[r] \in {"dial", "close", "setConn", "setCurrent"} => target[r] \in Backends
        /\ reader[r] \in {"send", "close", "setConn", "setCurrent", "retry"} => using[r] \in Conns
    /\ reader["backend"] = "read" => using["backend"] \in Conns

(* Where a reader is from a dial that came late to its end.                *)
LateSteps == {"close", "setConn", "setCurrent", "retry", "loop", "done"}

(* A reader that has dialled after the context was done is on its way to   *)
(* its end and does not reach another dial.                                *)
LateDialEnds ==
    \A r \in Readers :
        /\ lateDials[r] <= 1
        /\ lateDials[r] > 0 => cancelled /\ reader[r] \in LateSteps

BeforeRemoval == {"client", "backend", "remove"}
BeyondMark == BeforeRemoval \cup {"key"}

(* One caller of closeConnection at most goes beyond the mark, and         *)
(* handleClient does not return before the session is closed.              *)
CloseOnce ==
    /\ cancelled = closed
    /\ \A x \in CloseCallers : closing[x] \in BeyondMark => closed
    /\ \A x, y \in CloseCallers :
          closing[x] \in BeyondMark /\ closing[y] \in BeyondMark => x = y
    /\ handler # "closing" => closing["handler"] = "none"
    /\ handler = "closing" /\ closing["handler"] = "none" => closed
    /\ handler = "done" => closed

(* The client leaves the table when closeConnection takes it out, not      *)
(* before and not later.                                                   *)
InTable ==
    inMap <=> (~ closed \/ \E x \in CloseCallers : closing[x] \in BeforeRemoval)

(* closeMu is held by one goroutine, and keepalive starts with the readers.*)
OneWriter ==
    /\ keepalive = "write" => reader["backend"] # "toClient"
    /\ handler \in {"select", "dial"} => keepalive = "none"

SessionInv ==
    /\ SessionFieldsOK /\ ErrorsFromReturned /\ BackendKnown /\ LateDialEnds
    /\ CloseOnce /\ InTable /\ OneWriter

-----------------------------------------------------------------------------
(* The list of backends is not empty.                                      *)
LEMMA SessionNumbers ==
    /\ NumBackends \in Nat /\ 1 \in Backends /\ Backends \subseteq Nat
    /\ FailoverThreshold \in Nat /\ 0 \in 0..FailoverThreshold
    /\ MaxDials \in Nat /\ MaxChecks \in Nat /\ Nil \notin Backends /\ Nil \notin Conns
  BY SessionAssumption DEF Backends, Conns, Nil

(* selectHealthyBackend always finds a backend.                            *)
LEMMA SelectedKnown == SelectHealthyBackend \in Backends
  <1> DEFINE S == {b \in Backends : health[b]}
  <1>1. CASE S = {}
    BY <1>1, SessionNumbers DEF SelectHealthyBackend
  <1>2. CASE S # {}
    <2>1. S \subseteq Nat
      BY SessionNumbers
    <2>2. PICK i \in S : \A j \in S : ~ (<<j, i>> \in OpToRel(<, Nat))
      BY <1>2, <2>1, NatLessThanWellFounded, WFMin
    <2>a. \A j \in S : ~ (j < i)
      BY <2>1, <2>2 DEF OpToRel
    <2>3. \A j \in S : i <= j
      BY <2>1, <2>a
    <2>4. \E b \in Backends : health[b] /\ \A c \in Backends : health[c] => b <= c
      BY <2>3
    <2> QED BY <2>4 DEF SelectHealthyBackend
  <1> QED BY <1>1, <1>2

(* A dial gets a number of its own and is counted for its goroutine.       *)
LEMMA ConnectTyped ==
    ASSUME SessionFieldsOK, NEW g \in Dialers, Connect(g)
    PROVE  /\ dials + 1 \in Conns /\ open' \subseteq Conns
           /\ dials' \in 0..MaxDials /\ lateDials' \in [Readers -> 0..dials']
  <1>1. /\ dials \in Nat /\ dials < MaxDials /\ dials' = dials + 1
        /\ dials + 1 \in Conns /\ dials' \in 0..MaxDials
    BY SessionNumbers DEF SessionFieldsOK, Connect, Conns
  <1>2. open' \subseteq Conns
    BY <1>1 DEF SessionFieldsOK, Connect
  <1>3. \A h \in Readers : lateDials[h] \in 0..dials' /\ lateDials[h] + 1 \in 0..dials'
    BY <1>1 DEF SessionFieldsOK
  <1>4. lateDials \in [Readers -> 0..dials']
    BY <1>1, <1>3 DEF SessionFieldsOK
  <1>5. \/ lateDials' = lateDials
        \/ g \in Readers /\ lateDials' = [lateDials EXCEPT ![g] = lateDials[g] + 1]
    BY DEF Connect
  <1>6. lateDials' \in [Readers -> 0..dials']
    BY <1>3, <1>4, <1>5
  <1> QED BY <1>1, <1>2, <1>6

(* What a reader's last step and its error leave behind.                   *)
LEMMA FinishTyped ==
    ASSUME SessionFieldsOK, NEW r \in Readers
    PROVE  /\ \A step \in ReaderSteps :
                 ReaderGoto(r, step) => reader' \in [Readers -> ReaderSteps]
           /\ Finish(r) => reader' \in [Readers -> ReaderSteps] /\ clientDone' \in BOOLEAN
           /\ GiveUp(r) => reader' \in [Readers -> ReaderSteps] /\ clientDone' \in BOOLEAN
                          /\ errChan' \in Nat
           /\ CountError(r) => /\ reader' \in [Readers -> ReaderSteps]
                               /\ clientDone' \in BOOLEAN /\ errChan' \in Nat
                               /\ errorCount' \in 0..FailoverThreshold
  <1>1. \A step \in ReaderSteps : ReaderGoto(r, step) => reader' \in [Readers -> ReaderSteps]
    BY DEF SessionFieldsOK, ReaderGoto
  <1>2. "done" \in ReaderSteps /\ "mark" \in ReaderSteps
    BY DEF ReaderSteps
  <1>3. Finish(r) => reader' \in [Readers -> ReaderSteps]
    BY <1>1, <1>2 DEF Finish
  <1>a. Finish(r) => clientDone' \in BOOLEAN
    BY DEF Finish
  <1>b. errChan + 1 \in Nat
    BY DEF SessionFieldsOK
  <1>4. GiveUp(r) => reader' \in [Readers -> ReaderSteps] /\ clientDone' \in BOOLEAN
                     /\ errChan' \in Nat
    BY <1>3, <1>a, <1>b DEF GiveUp
  <1>5. ASSUME CountError(r)
        PROVE  /\ reader' \in [Readers -> ReaderSteps]
               /\ clientDone' \in BOOLEAN /\ errChan' \in Nat
    <2>1. CASE GiveUp(r)
      BY <1>4, <2>1
    <2>2. CASE ReaderGoto(r, "mark") /\ UNCHANGED <<errChan, clientDone>>
      BY <1>1, <1>2, <2>2 DEF SessionFieldsOK
    <2> QED BY <1>5, <2>1, <2>2 DEF CountError
  <1>6. CountError(r) => errorCount' \in 0..FailoverThreshold
    BY SessionNumbers DEF SessionFieldsOK, CountError
  <1> QED BY <1>1, <1>3, <1>a, <1>4, <1>5, <1>6

(* Every step of a goroutine keeps the fields of the session in their      *)
(* types.                                                                  *)
LEMMA SessionFieldsInductive == SessionFieldsOK /\ [SessionNext]_sessionVars => SessionFieldsOK'
  <1> SUFFICES ASSUME SessionFieldsOK, [SessionNext]_sessionVars
               PROVE  SessionFieldsOK'
    OBVIOUS
  <1> USE SessionNumbers
      DEF SessionFieldsOK, Readers, Dialers, CloseCallers, ClosingSteps, ReaderSteps,
          ReaderGoto, Take, healthMap, clientVars, backend, goroutines
  <1>1. CASE HandlerSelect
    BY <1>1, SelectedKnown DEF HandlerSelect
  <1>2. CASE HandlerDial
    BY <1>2, ConnectTyped DEF HandlerDial
  <1>3. CASE HandlerWait
    BY <1>3 DEF HandlerWait
  <1>4. CASE HandlerReturn
    BY <1>4 DEF HandlerReturn
  <1>5. ASSUME NEW x \in CloseCallers, MarkClosed(x) PROVE SessionFieldsOK'
    BY <1>5 DEF MarkClosed
  <1>6. ASSUME NEW x \in CloseCallers, CloseClient(x) PROVE SessionFieldsOK'
    BY <1>6 DEF CloseClient
  <1>7. ASSUME NEW x \in CloseCallers, CloseBackend(x) PROVE SessionFieldsOK'
    BY <1>7 DEF CloseBackend
  <1>8. ASSUME NEW x \in CloseCallers, RemoveClient(x) PROVE SessionFieldsOK'
    BY <1>8 DEF RemoveClient
  <1>9. ASSUME NEW x \in CloseCallers, DeleteKey(x) PROVE SessionFieldsOK'
    BY <1>9 DEF DeleteKey
  <1>10. CASE CleanSession
    BY <1>10 DEF CleanSession
  <1>11. CASE CheckBackendHealth
    BY <1>11 DEF CheckBackendHealth
  <1>12. CASE KeepaliveTick
    BY <1>12 DEF KeepaliveTick
  <1>13. CASE KeepaliveWritten
    BY <1>13 DEF KeepaliveWritten
  <1>14. CASE KeepaliveEnd
    BY <1>14 DEF KeepaliveEnd
  <1>15. ASSUME NEW r \in Readers, FailoverMark(r) PROVE SessionFieldsOK'
    <2>1. health' \in [Backends -> BOOLEAN]
      BY <1>15 DEF FailoverMark
    <2> QED BY <1>15, <2>1, FinishTyped DEF FailoverMark
  <1>16. ASSUME NEW r \in Readers, FailoverSelect(r) PROVE SessionFieldsOK'
    BY <1>16, SelectedKnown, FinishTyped DEF FailoverSelect
  <1>17. ASSUME NEW r \in Readers, FailoverDial(r) PROVE SessionFieldsOK'
    BY <1>17, ConnectTyped, FinishTyped DEF FailoverDial
  <1>18. ASSUME NEW r \in Readers, FailoverClose(r) PROVE SessionFieldsOK'
    BY <1>18 DEF FailoverClose
  <1>19. ASSUME NEW r \in Readers, FailoverSetConn(r) PROVE SessionFieldsOK'
    BY <1>19 DEF FailoverSetConn
  <1>20. ASSUME NEW r \in Readers, FailoverSetCurrent(r) PROVE SessionFieldsOK'
    BY <1>20 DEF FailoverSetCurrent
  <1>21. CASE ClientLoop
    BY <1>21 DEF ClientLoop, Finish
  <1>22. CASE ClientRead
    BY <1>22, FinishTyped DEF ClientRead
  <1>23. CASE ClientWrite
    BY <1>23, FinishTyped DEF ClientWrite
  <1>24. CASE ClientRetry
    BY <1>24 DEF ClientRetry
  <1>25. CASE BackendLoop
    BY <1>25 DEF BackendLoop, Finish
  <1>26. CASE BackendFetch
    BY <1>26 DEF BackendFetch
  <1>27. CASE BackendRead
    BY <1>27, FinishTyped DEF BackendRead
  <1>28. CASE BackendForward
    BY <1>28 DEF BackendForward, Finish
  <1>29. CASE BackendForwarded
    BY <1>29, FinishTyped DEF BackendForwarded
  <1>30. CASE UNCHANGED sessionVars
    BY <1>30 DEF sessionVars
  <1> QED
    BY <1>1, <1>2, <1>3, <1>4, <1>5, <1>6, <1>7, <1>8, <1>9, <1>10, <1>11, <1>12, <1>13,
       <1>14, <1>15, <1>16, <1>17, <1>18, <1>19, <1>20, <1>21, <1>22, <1>23, <1>24, <1>25,
       <1>26, <1>27, <1>28, <1>29, <1>30
    DEF SessionNext, HandlerStep, ClosingStep, KeepaliveStep, ClientStep, BackendStep, Failover,
        Readers

(* What step a reader takes and what else it may change meanwhile: it      *)
(* sends an error only with its last step and dials only in a failover.    *)
ReaderMove(r, step) ==
    /\ reader[r] \notin {"none", "done"} /\ step # "none"
    /\ reader' = [reader EXCEPT ![r] = step]
    /\ UNCHANGED <<inMap, closed, cancelled, clientOpen, handler, closing, keepalive>>
    /\ errChan' = errChan \/ (errChan' = errChan + 1 /\ step = "done")
    /\ lateDials' = lateDials
          \/ (reader[r] = "dial" /\ Connect(r) /\ step \in {"close", "setConn"})
    /\ cancelled /\ reader[r] \in LateSteps => step \in LateSteps
    /\ step = "toClient" => r = "backend" /\ CloseMuFree /\ ~ closed

(* All steps of the two readers are of that kind.                          *)
LEMMA ReadersMove ==
    ASSUME SessionFieldsOK, ClientStep \/ BackendStep
    PROVE  \E r \in Readers, step \in ReaderSteps : ReaderMove(r, step)
  <1> USE DEF ReaderMove, LateSteps, Readers, ReaderSteps, ReaderGoto, Finish, GiveUp, CountError,
              clientVars, backend
  <1>1. ASSUME NEW r \in Readers, Failover(r)
        PROVE  \E step \in ReaderSteps : ReaderMove(r, step)
    <2>1. CASE FailoverMark(r)
      BY <2>1 DEF FailoverMark
    <2>2. CASE FailoverSelect(r)
      BY <2>2 DEF FailoverSelect
    <2>3. CASE FailoverDial(r)
      BY <2>3 DEF FailoverDial
    <2>4. CASE FailoverClose(r)
      BY <2>4 DEF FailoverClose
    <2>5. CASE FailoverSetConn(r)
      BY <2>5 DEF FailoverSetConn
    <2>6. CASE FailoverSetCurrent(r)
      BY <2>6 DEF FailoverSetCurrent
    <2> QED BY <1>1, <2>1, <2>2, <2>3, <2>4, <2>5, <2>6 DEF Failover
  <1>2. CASE ClientLoop
    BY <1>2 DEF ClientLoop
  <1>3. CASE ClientRead
    BY <1>3 DEF ClientRead
  <1>4. CASE ClientWrite
    BY <1>4 DEF ClientWrite
  <1>5. CASE ClientRetry
    BY <1>5 DEF ClientRetry
  <1>6. CASE BackendLoop
    BY <1>6 DEF BackendLoop
  <1>7. CASE BackendFetch
    BY <1>7 DEF BackendFetch
  <1>8. CASE BackendRead
    BY <1>8 DEF BackendRead
  <1>9. CASE BackendForward
    BY <1>9 DEF BackendForward
  <1>10. CASE BackendForwarded
    BY <1>10 DEF BackendForwarded
  <1> QED
    BY <1>1, <1>2, <1>3, <1>4, <1>5, <1>6, <1>7, <1>8, <1>9, <1>10
    DEF ClientStep, BackendStep

(* The steps of the others: keepalive, closeConnection, the cleaner and    *)
(* the health check leave handleClient, the readers and their backends     *)
(* alone.                                                                  *)
OtherStep ==
    \/ KeepaliveStep \/ \E x \in CloseCallers : ClosingStep(x)
    \/ CleanSession \/ CheckBackendHealth \/ UNCHANGED sessionVars

(* closeConnection cancels the context and nobody renews it.               *)
LEMMA OthersLeave ==
    ASSUME SessionFieldsOK, OtherStep
    PROVE  /\ UNCHANGED <<handler, target, reader, using, backendConn, current, errChan,
                          dials, lateDials>>
           /\ cancelled => cancelled'
  BY DEF SessionFieldsOK, OtherStep, KeepaliveStep, KeepaliveTick, KeepaliveWritten,
         KeepaliveEnd, ClosingStep, MarkClosed, CloseClient, CloseBackend, RemoveClient,
         DeleteKey, CleanSession, CheckBackendHealth, sessionVars, clientVars, backend,
         goroutines

(* The steps of a session, by who takes them.                              *)
LEMMA SessionSteps ==
    [SessionNext]_sessionVars =>
        HandlerSelect \/ HandlerDial \/ HandlerWait \/ HandlerReturn
        \/ ClientStep \/ BackendStep \/ OtherStep
  BY DEF SessionNext, HandlerStep, OtherStep

-----------------------------------------------------------------------------
(* An error is sent by a reader that returns, so errChan never holds more  *)
(* than one of each.                                                       *)
LEMMA ErrorsInductive ==
    SessionFieldsOK /\ BackendKnown /\ ErrorsFromReturned /\ [SessionNext]_sessionVars
        => ErrorsFromReturned'
  <1> SUFFICES ASSUME SessionFieldsOK, BackendKnown, ErrorsFromReturned,
                      [SessionNext]_sessionVars
               PROVE  ErrorsFromReturned'
    OBVIOUS
  <1> USE DEF SessionFieldsOK, ErrorsFromReturned, Sent, Readers, clientVars, backend
  <1>1. CASE HandlerSelect
    BY <1>1 DEF HandlerSelect
  <1>2. CASE HandlerDial
    BY <1>2 DEF HandlerDial, BackendKnown
  <1>3. CASE HandlerWait
    BY <1>3 DEF HandlerWait
  <1>4. CASE HandlerReturn
    BY <1>4 DEF HandlerReturn
  <1>5. CASE ClientStep \/ BackendStep
    <2>1. PICK r \in Readers, step \in ReaderSteps : ReaderMove(r, step)
      BY <1>5, ReadersMove
    <2> QED BY <2>1 DEF ReaderMove
  <1>6. CASE OtherStep
    BY <1>6, OthersLeave
  <1> QED BY <1>1, <1>2, <1>3, <1>4, <1>5, <1>6, SessionSteps

(* A reader that dials after the context is done comes back to its loop,   *)
(* which ends it.                                                          *)
LEMMA LateInductive ==
    SessionFieldsOK /\ LateDialEnds /\ [SessionNext]_sessionVars => LateDialEnds'
  <1> SUFFICES ASSUME SessionFieldsOK, LateDialEnds, [SessionNext]_sessionVars
               PROVE  LateDialEnds'
    OBVIOUS
  <1> USE DEF SessionFieldsOK, LateDialEnds, LateSteps, Readers, clientVars, backend
  <1>1. CASE HandlerSelect
    BY <1>1 DEF HandlerSelect
  <1>2. CASE HandlerDial
    BY <1>2 DEF HandlerDial, Connect
  <1>3. CASE HandlerWait
    BY <1>3 DEF HandlerWait
  <1>4. CASE HandlerReturn
    BY <1>4 DEF HandlerReturn
  <1>5. CASE ClientStep \/ BackendStep
    <2>1. PICK r \in Readers, step \in ReaderSteps : ReaderMove(r, step)
      BY <1>5, ReadersMove
    <2> QED BY <2>1 DEF ReaderMove, LateSteps, Connect
  <1>6. CASE OtherStep
    BY <1>6, OthersLeave
  <1> QED BY <1>1, <1>2, <1>3, <1>4, <1>5, <1>6, SessionSteps

(* A failover changes the backend of the session only to one it has        *)
(* selected and dialled, and the other reader's failover does not undo     *)
(* what this one has chosen.                                               *)
LEMMA BackendInductive ==
    SessionFieldsOK /\ BackendKnown /\ [SessionNext]_sessionVars => BackendKnown'
  <1> SUFFICES ASSUME SessionFieldsOK, BackendKnown, [SessionNext]_sessionVars
               PROVE  BackendKnown'
    OBVIOUS
  <1> USE SessionNumbers
      DEF SessionFieldsOK, BackendKnown, Readers, Dialers, ReaderSteps, ReaderGoto, Finish,
          GiveUp, CountError, Take, clientVars, backend
  <1>1. CASE HandlerSelect
    BY <1>1, SelectedKnown DEF HandlerSelect
  <1>2. CASE HandlerDial
    BY <1>2, ConnectTyped DEF HandlerDial
  <1>3. CASE HandlerWait
    BY <1>3 DEF HandlerWait
  <1>4. CASE HandlerReturn
    BY <1>4 DEF HandlerReturn
  <1>5. CASE OtherStep
    BY <1>5, OthersLeave
  <1>6. CASE ClientLoop
    BY <1>6 DEF ClientLoop
  <1>7. CASE ClientRead
    BY <1>7 DEF ClientRead
  <1>8. CASE ClientWrite
    BY <1>8 DEF ClientWrite
  <1>9. CASE BackendLoop
    BY <1>9 DEF BackendLoop
  <1>10. CASE BackendRead
    BY <1>10 DEF BackendRead
  <1>11. CASE BackendForward
    BY <1>11 DEF BackendForward
  <1>12. CASE ClientRetry
    BY <1>12 DEF ClientRetry
  <1>13. CASE BackendFetch
    BY <1>13 DEF BackendFetch
  <1>14. CASE BackendForwarded
    BY <1>14 DEF BackendForwarded
  <1>15. ASSUME NEW r \in Readers, Failover(r)
         PROVE  BackendKnown'
    <2>1. CASE FailoverMark(r)
      BY <2>1 DEF FailoverMark
    <2>2. CASE FailoverSelect(r)
      BY <2>2, SelectedKnown DEF FailoverSelect
    <2>3. CASE FailoverDial(r)
      BY <2>3, ConnectTyped DEF FailoverDial
    <2>4. CASE FailoverClose(r)
      BY <2>4 DEF FailoverClose
    <2>5. CASE FailoverSetConn(r)
      BY <2>5 DEF FailoverSetConn
    <2>6. CASE FailoverSetCurrent(r)
      BY <2>6 DEF FailoverSetCurrent
    <2> QED BY <1>15, <2>1, <2>2, <2>3, <2>4, <2>5, <2>6 DEF Failover
  <1> QED
    BY <1>1, <1>2, <1>3, <1>4, <1>5, <1>6, <1>7, <1>8, <1>9, <1>10, <1>11, <1>15, <1>12,
       <1>13, <1>14, SessionSteps
    DEF ClientStep, BackendStep

(* Whoever marks the session closed first carries closeConnection out;     *)
(* every later caller returns at the mark.                                 *)
LEMMA CloseInductive ==
    SessionFieldsOK /\ CloseOnce /\ InTable /\ [SessionNext]_sessionVars
        => CloseOnce' /\ InTable'
  <1> SUFFICES ASSUME SessionFieldsOK, CloseOnce, InTable, [SessionNext]_sessionVars
               PROVE  CloseOnce' /\ InTable'
    OBVIOUS
  <1> USE DEF SessionFieldsOK, CloseOnce, InTable, BeforeRemoval, BeyondMark, CloseCallers,
              ClosingSteps, clientVars, backend, goroutines
  <1>1. CASE HandlerSelect
    BY <1>1 DEF HandlerSelect
  <1>2. CASE HandlerDial
    BY <1>2 DEF HandlerDial
  <1>3. CASE HandlerWait
    BY <1>3 DEF HandlerWait
  <1>4. CASE HandlerReturn
    BY <1>4 DEF HandlerReturn
  <1>5. CASE ClientStep \/ BackendStep
    <2>1. UNCHANGED <<inMap, closed, cancelled, handler, closing>>
      BY <1>5, ReadersMove DEF ReaderMove
    <2> QED BY <2>1
  <1>6. ASSUME NEW x \in CloseCallers, MarkClosed(x) PROVE CloseOnce' /\ InTable'
    BY <1>6 DEF MarkClosed
  <1>7. ASSUME NEW x \in CloseCallers, CloseClient(x) PROVE CloseOnce' /\ InTable'
    BY <1>7 DEF CloseClient
  <1>8. ASSUME NEW x \in CloseCallers, CloseBackend(x) PROVE CloseOnce' /\ InTable'
    BY <1>8 DEF CloseBackend
  <1>9. ASSUME NEW x \in CloseCallers, RemoveClient(x) PROVE CloseOnce' /\ InTable'
    BY <1>9 DEF RemoveClient
  <1>10. ASSUME NEW x \in CloseCallers, DeleteKey(x) PROVE CloseOnce' /\ InTable'
    BY <1>10 DEF DeleteKey
  <1>11. CASE CleanSession
    BY <1>11 DEF CleanSession
  <1>12. CASE KeepaliveStep \/ CheckBackendHealth \/ UNCHANGED sessionVars
    BY <1>12 DEF KeepaliveStep, KeepaliveTick, KeepaliveWritten, KeepaliveEnd,
                 CheckBackendHealth, sessionVars
  <1> QED
    BY <1>1, <1>2, <1>3, <1>4, <1>5, <1>6, <1>7, <1>10, <1>11, <1>12, <1>8, <1>9, SessionSteps
    DEF OtherStep, ClosingStep

(* keepalive and the backend reader take closeMu only when it is free.     *)
LEMMA WriterInductive ==
    SessionFieldsOK /\ OneWriter /\ [SessionNext]_sessionVars => OneWriter'
  <1> SUFFICES ASSUME SessionFieldsOK, OneWriter, [SessionNext]_sessionVars
               PROVE  OneWriter'
    OBVIOUS
  <1> USE DEF SessionFieldsOK, OneWriter, Readers, clientVars, backend, goroutines
  <1>1. CASE HandlerSelect
    BY <1>1 DEF HandlerSelect
  <1>2. CASE HandlerDial
    BY <1>2 DEF HandlerDial
  <1>3. CASE HandlerWait \/ HandlerReturn
    BY <1>3 DEF HandlerWait, HandlerReturn
  <1>4. CASE ClientStep \/ BackendStep
    <2>1. PICK r \in Readers, step \in ReaderSteps : ReaderMove(r, step)
      BY <1>4, ReadersMove
    <2> QED BY <2>1 DEF ReaderMove, CloseMuFree
  <1>5. CASE OtherStep
    <2>1. UNCHANGED <<handler, reader>>
      BY <1>5, OthersLeave
    <2>2. keepalive' = keepalive \/ (keepalive # "none" /\ (keepalive' = "write" => CloseMuFree))
      BY <1>5 DEF OtherStep, KeepaliveStep, KeepaliveTick, KeepaliveWritten, KeepaliveEnd,
                  ClosingStep, MarkClosed, CloseClient, CloseBackend, RemoveClient, DeleteKey,
                  CleanSession, CheckBackendHealth, sessionVars
    <2> QED BY <2>1, <2>2 DEF CloseMuFree
  <1> QED BY <1>1, <1>2, <1>3, <1>4, <1>5, SessionSteps

-----------------------------------------------------------------------------
(* handleClient, its readers, the cleaner and closeConnection keep the     *)
(* session's fields consistent, in whatever order they run.                *)
THEOREM SessionInvariant == SessionSpec => []SessionInv
  <1>1. SessionInit => SessionInv
    <2> SUFFICES ASSUME SessionInit
                 PROVE  SessionInv
      OBVIOUS
    <2> USE SessionNumbers DEF SessionInit, Readers, Dialers, CloseCallers, ReaderSteps,
                                ClosingSteps
    <2>1. SessionFieldsOK
      <3>1. /\ 0 \in 0..MaxDials /\ 0 \in 0..MaxChecks
            /\ lateDials \in [Readers -> 0..dials]
        OBVIOUS
      <3> QED BY <3>1 DEF SessionFieldsOK
    <2>2. ErrorsFromReturned
      BY DEF ErrorsFromReturned, Sent
    <2>3. BackendKnown
      BY DEF BackendKnown
    <2>4. LateDialEnds
      BY DEF LateDialEnds
    <2>5. CloseOnce /\ InTable /\ OneWriter
      BY DEF CloseOnce, InTable, BeforeRemoval, BeyondMark, OneWriter
    <2> QED BY <2>1, <2>2, <2>3, <2>4, <2>5 DEF SessionInv
  <1>2. SessionInv /\ [SessionNext]_sessionVars => SessionInv'
    BY SessionFieldsInductive, ErrorsInductive, BackendInductive, LateInductive, CloseInductive,
       WriterInductive
    DEF SessionInv
  <1> QED
    BY <1>1, <1>2, PTL DEF SessionSpec

(* No goroutine of a session ever blocks on errChan: each reader sends at  *)
(* most one error, and returns, whichever errors the two meet and in       *)
(* whatever order handleClient takes them.                                 *)
THEOREM SessionTypeCorrect == SessionSpec => []SessionTypeOK
  <1>1. ASSUME SessionInv PROVE SessionTypeOK
    <2>1. errChan \in 0..ErrCap
      BY <1>1 DEF SessionInv, SessionFieldsOK, ErrorsFromReturned, Sent, ErrCap
    <2> QED BY <1>1, <2>1 DEF SessionInv, SessionFieldsOK, SessionTypeOK
  <1> QED
    BY <1>1, SessionInvariant, PTL

(* After the context is done each reader makes at most one more            *)
(* connection to a backend, for any number of backends and dials.          *)
THEOREM LateDialsAreBounded == SessionSpec => []LateDialsBounded
  <1>1. SessionInv => LateDialsBounded
    BY DEF SessionInv, LateDialEnds, LateDialsBounded
  <1> QED
    BY <1>1, SessionInvariant, PTL

(* A reader that runs has a backend connection to use and a backend to     *)
(* mark unhealthy, and a failover never assigns a missing one, although    *)
(* both readers write these fields without a lock.                         *)
BackendNeverMissing ==
    \A r \in Readers :
        /\ reader[r] # "none" => backendConn \in Conns /\ current \in Backends
        /\ reader[r] \in {"send", "setConn", "retry"} => using[r] \in Conns
        /\ reader[r] = "setCurrent" => target[r] \in Backends

(* client.BackendConn and client.CurrentBackend are never nil or empty     *)
(* where a reader uses them.                                               *)
THEOREM BackendIsNeverMissing == SessionSpec => []BackendNeverMissing
  <1>1. SessionInv => BackendNeverMissing
    BY DEF SessionInv, BackendKnown, BackendNeverMissing
  <1> QED
    BY <1>1, SessionInvariant, PTL

-----------------------------------------------------------------------------
(* The session as the table of WSAdmission sees it                         *)

Self == "self"

SessionOf == IF handler = "done" THEN "over"
             ELSE IF handler = "closing" /\ closing["handler"] # "mark" THEN "return"
             ELSE IF keepalive = "none" THEN "dial" ELSE "run"

(* A goroutine that handleClient has started has not returned.             *)
Helping == keepalive \in {"run", "write"} \/ \E r \in Readers : reader[r] \notin {"none", "done"}

CloserOf == IF closing["handler"] \in BeyondMark THEN "session"
            ELSE IF closing["cleaner"] \in BeyondMark THEN "cleaner" ELSE "none"

CallOf(x) == IF x = "cleaner" /\ closing["cleaner"] # "none" THEN {Self} ELSE {}

PhaseOf == IF ~ closed THEN "open"
           ELSE IF \E x \in CloseCallers : closing[x] \in BeforeRemoval THEN "remove"
           ELSE IF \E x \in CloseCallers : closing[x] = "key" THEN "key" ELSE "closed"

(* The table with this client alone, whose handler has returned.           *)
Table == INSTANCE WSAdmission WITH
    Clients <- {Self},
    pc <- [c \in {Self} |-> "done"],
    overlapped <- {},
    connections <- IF inMap THEN {Self} ELSE {},
    stored <- IF PhaseOf = "closed" THEN {} ELSE {Self},
    breaker <- [state |-> "closed", failures |-> 0, reqs |-> 0],
    leaked <- FALSE,
    session <- [c \in {Self} |-> SessionOf],
    helpers <- IF Helping THEN {Self} ELSE {},
    writing <- IF CloseMuFree THEN {} ELSE {Self},
    phase <- [c \in {Self} |-> PhaseOf],
    closer <- [c \in {Self} |-> CloserOf],
    call <- [x \in {"cleaner", "stop"} |-> CallOf(x)],
    sweep <- {},
    stop <- "no",
    late <- FALSE

(* A goroutine of the session writes to the client, or returns.            *)
LEMMA HelpersFit ==
    ASSUME SessionInv, SessionInv',
           UNCHANGED <<inMap, SessionOf, PhaseOf, CloserOf, CallOf("cleaner")>>,
           Helping \/ ~ Helping',
           CloseMuFree \/ Helping,
           CloseMuFree \/ CloseMuFree' \/ Helping',
           CloseMuFree' \/ (Helping' /\ (CloseMuFree => PhaseOf = "open"))
    PROVE  [Table!SessionStep(Self)]_(Table!vars)
  <1> USE DEF Table!admission, Table!table, Table!stopping
  <1>a. UNCHANGED [x \in {"cleaner", "stop"} |-> CallOf(x)]
    BY DEF CallOf
  <1>1. CASE CloseMuFree /\ ~ CloseMuFree'
    <2>1. Table!WriteBegin(Self)
      BY <1>1, <1>a DEF Table!WriteBegin
    <2> QED BY <2>1 DEF Table!SessionStep
  <1>2. CASE ~ CloseMuFree /\ CloseMuFree'
    <2>1. Table!WriteEnd(Self)
      BY <1>2, <1>a DEF Table!WriteEnd
    <2> QED BY <2>1 DEF Table!SessionStep
  <1>3. CASE CloseMuFree' = CloseMuFree /\ Helping' = Helping
    BY <1>3, <1>a DEF Table!vars, Table!life
  <1>4. CASE CloseMuFree /\ CloseMuFree' /\ Helping /\ ~ Helping'
    <2>1. Table!HelpersEnd(Self)
      BY <1>4, <1>a DEF Table!HelpersEnd
    <2> QED BY <2>1 DEF Table!SessionStep
  <1> QED BY <1>1, <1>2, <1>3, <1>4 DEF CloseMuFree, Helping

(* A session does for the table what SessionStep of WSAdmission says, or   *)
(* nothing: HandlerDial is SessionStarts, MarkClosed is SessionReturns or  *)
(* CallMark, RemoveClient is CloseRemove, DeleteKey is CloseKey, and       *)
(* HandlerReturn is SessionOver.                                           *)
LEMMA SessionStepsTable ==
    SessionInv /\ SessionInv' /\ [SessionNext]_sessionVars
        => [Table!SessionStep(Self)]_(Table!vars)
  <1> SUFFICES ASSUME SessionInv, SessionInv', [SessionNext]_sessionVars
               PROVE  [Table!SessionStep(Self)]_(Table!vars)
    OBVIOUS
  <1> USE DEF SessionInv, SessionFieldsOK, CloseOnce, InTable, OneWriter, CloseCallers,
              ClosingSteps, BeforeRemoval, BeyondMark
  <1>a. ASSUME UNCHANGED <<inMap, SessionOf, PhaseOf, CloserOf, CallOf("cleaner"), Helping,
                           CloseMuFree>>
        PROVE  UNCHANGED Table!vars
    <2>1. UNCHANGED [x \in {"cleaner", "stop"} |-> CallOf(x)]
      BY <1>a DEF CallOf
    <2> QED BY <1>a, <2>1 DEF Table!vars, Table!admission, Table!table, Table!life, Table!stopping
  <1>b. ASSUME UNCHANGED <<reader, keepalive>>
        PROVE  UNCHANGED <<Helping, CloseMuFree>>
    BY <1>b DEF Helping, CloseMuFree
  <1>1. CASE HandlerSelect
    BY <1>1, <1>a, <1>b DEF HandlerSelect, SessionOf, CloserOf, PhaseOf, CallOf, clientVars
  <1>2. CASE HandlerDial
    <2>1. CASE handler' = "closing"
      BY <1>2, <2>1, <1>a, <1>b DEF HandlerDial, SessionOf, CloserOf, PhaseOf, CallOf, clientVars
    <2>2. CASE handler' = "wait"
      <3>1. /\ UNCHANGED <<inMap, closed, closing>>
            /\ keepalive = "none" /\ keepalive' = "run"
            /\ reader = [r \in Readers |-> "none"] /\ reader' = [r \in Readers |-> "loop"]
        BY <1>2, <2>2 DEF HandlerDial, BackendKnown, clientVars
      <3>2. /\ UNCHANGED <<PhaseOf, CloserOf, CallOf("cleaner")>>
            /\ SessionOf = "dial" /\ SessionOf' = "run"
        BY <1>2, <2>2, <3>1 DEF HandlerDial, SessionOf, CloserOf, PhaseOf, CallOf
      <3>3. /\ ~ Helping /\ Helping' /\ CloseMuFree /\ CloseMuFree'
        BY <3>1 DEF Helping, CloseMuFree, Readers
      <3>4. UNCHANGED [x \in {"cleaner", "stop"} |-> CallOf(x)]
        BY <3>2 DEF CallOf
      <3>5. Table!SessionStarts(Self)
        BY <3>1, <3>2, <3>3, <3>4
        DEF Table!SessionStarts, Table!admission, Table!table, Table!stopping
      <3> QED BY <3>5 DEF Table!SessionStep, Table!HandleClient
    <2> QED BY <1>2, <2>1, <2>2 DEF HandlerDial
  <1>3. CASE HandlerWait
    BY <1>3, <1>a, <1>b DEF HandlerWait, SessionOf, CloserOf, PhaseOf, CallOf, clientVars
  <1>4. CASE HandlerReturn
    <2>1. /\ UNCHANGED <<inMap, closed>> /\ CloserOf' = CloserOf /\ PhaseOf' = PhaseOf
          /\ SessionOf = "return" /\ SessionOf' = "over" /\ CloserOf # "session"
          /\ UNCHANGED <<CallOf("cleaner"), reader, keepalive>>
      BY <1>4 DEF HandlerReturn, SessionOf, CloserOf, PhaseOf, CallOf, clientVars
    <2>2. UNCHANGED [x \in {"cleaner", "stop"} |-> CallOf(x)]
      BY <2>1 DEF CallOf
    <2>3. Table!SessionOver(Self)
      BY <2>1, <2>2, <1>b DEF Table!SessionOver, Table!admission, Table!table, Table!stopping
    <2> QED BY <2>3 DEF Table!SessionStep, Table!HandleClient
  <1>5. CASE ClientStep \/ BackendStep
    <2>1. PICK r \in Readers, step \in ReaderSteps : ReaderMove(r, step)
      BY <1>5, ReadersMove
    <2>2. UNCHANGED <<inMap, SessionOf, PhaseOf, CloserOf, CallOf("cleaner")>>
      BY <2>1 DEF ReaderMove, SessionOf, PhaseOf, CloserOf, CallOf
    <2>3. Helping
      BY <2>1 DEF ReaderMove, Helping
    <2>4. ~ CloseMuFree' => Helping'
      BY DEF CloseMuFree, Helping, Readers
    <2>5. CloseMuFree /\ ~ CloseMuFree' => PhaseOf = "open"
      BY <2>1 DEF ReaderMove, CloseMuFree, PhaseOf
    <2> QED BY <2>2, <2>3, <2>4, <2>5, HelpersFit
  <1>6. CASE MarkClosed("handler")
    <2>1. UNCHANGED inMap /\ SessionOf \in {"dial", "run"} /\ SessionOf' = "return"
      BY <1>6 DEF MarkClosed, SessionOf
    <2>2. \/ /\ PhaseOf = "open" /\ PhaseOf' = "remove" /\ CloserOf' = "session"
          \/ /\ PhaseOf # "open" /\ PhaseOf' = PhaseOf /\ CloserOf' = CloserOf
      BY <1>6 DEF MarkClosed, PhaseOf, CloserOf
    <2>3. CloseMuFree /\ UNCHANGED <<reader, keepalive, CallOf("cleaner")>>
      BY <1>6 DEF MarkClosed, CallOf
    <2>4. UNCHANGED [x \in {"cleaner", "stop"} |-> CallOf(x)]
      BY <2>3 DEF CallOf
    <2>5. /\ [c \in {Self} |-> PhaseOf]' =
                [[c \in {Self} |-> PhaseOf] EXCEPT ![Self] = IF @ = "open" THEN "remove" ELSE @]
          /\ [c \in {Self} |-> CloserOf]' =
                [[c \in {Self} |-> CloserOf] EXCEPT
                    ![Self] = IF PhaseOf = "open" THEN "session" ELSE @]
          /\ [c \in {Self} |-> SessionOf]' =
                [[c \in {Self} |-> SessionOf] EXCEPT ![Self] = "return"]
      BY <2>1, <2>2
    <2>6. Table!SessionReturns(Self)
      BY <2>1, <2>3, <2>4, <2>5, <1>b
      DEF Table!SessionReturns, Table!CloseMark, Table!admission, Table!table, Table!stopping
    <2> QED BY <2>6 DEF Table!SessionStep, Table!HandleClient
  <1>7. CASE MarkClosed("cleaner")
    <2>1. /\ UNCHANGED <<inMap, SessionOf, reader, keepalive>> /\ CloseMuFree
          /\ CallOf("cleaner") = {Self} /\ CloserOf # "cleaner"
      BY <1>7 DEF MarkClosed, SessionOf, CallOf, CloserOf
    <2>2. \/ /\ PhaseOf = "open" /\ PhaseOf' = "remove" /\ CloserOf' = "cleaner"
             /\ CallOf("cleaner")' = {Self}
          \/ /\ PhaseOf # "open" /\ PhaseOf' = PhaseOf /\ CloserOf' = CloserOf
             /\ CallOf("cleaner")' = {}
      BY <1>7 DEF MarkClosed, PhaseOf, CloserOf, CallOf
    <2>3. /\ CallOf("stop") = {} /\ CallOf("stop")' = {}
      BY DEF CallOf
    <2>4. /\ [c \in {Self} |-> PhaseOf]' =
                [[c \in {Self} |-> PhaseOf] EXCEPT ![Self] = IF @ = "open" THEN "remove" ELSE @]
          /\ [c \in {Self} |-> CloserOf]' =
                [[c \in {Self} |-> CloserOf] EXCEPT
                    ![Self] = IF PhaseOf = "open" THEN "cleaner" ELSE @]
      BY <2>2
    <2>5. [y \in {"cleaner", "stop"} |-> CallOf(y)]' =
             [[y \in {"cleaner", "stop"} |-> CallOf(y)] EXCEPT
                 !["cleaner"] = IF PhaseOf = "open" THEN {Self} ELSE {}]
      BY <2>2, <2>3
    <2>6. Table!CallMark("cleaner", Self)
      BY <2>1, <2>4, <2>5, <1>b
      DEF Table!CallMark, Table!CloseMark, Table!admission, Table!table, Table!stopping
    <2> QED BY <2>6 DEF Table!SessionStep, Table!Outside
  <1>8. ASSUME NEW x \in CloseCallers, CloseClient(x) \/ CloseBackend(x)
        PROVE  UNCHANGED Table!vars
    BY <1>8, <1>a, <1>b
    DEF CloseClient, CloseBackend, SessionOf, CloserOf, PhaseOf, CallOf, clientVars
  <1>9. ASSUME NEW x \in CloseCallers, RemoveClient(x)
        PROVE  Table!SessionStep(Self)
    <2>1. /\ inMap' = FALSE /\ SessionOf' = SessionOf /\ CloserOf' = CloserOf
          /\ PhaseOf = "remove" /\ PhaseOf' = "key"
          /\ UNCHANGED <<CallOf("cleaner"), reader, keepalive>>
      BY <1>9 DEF RemoveClient, SessionOf, CloserOf, PhaseOf, CallOf
    <2>2. UNCHANGED [y \in {"cleaner", "stop"} |-> CallOf(y)]
      BY <2>1 DEF CallOf
    <2>3. Table!CloseRemove(Self)
      BY <2>1, <2>2, <1>b DEF Table!CloseRemove, Table!admission, Table!stopping
    <2> QED BY <2>3 DEF Table!SessionStep, Table!CloseStep
  <1>10. ASSUME NEW x \in CloseCallers, DeleteKey(x)
         PROVE  Table!SessionStep(Self)
    <2>1. /\ UNCHANGED <<inMap, reader, keepalive>> /\ SessionOf' = SessionOf
          /\ CloserOf' = "none" /\ PhaseOf = "key" /\ PhaseOf' = "closed"
      BY <1>10 DEF DeleteKey, SessionOf, CloserOf, PhaseOf, clientVars
    <2>2. /\ CallOf("cleaner")' = IF CloserOf = "cleaner" THEN {} ELSE CallOf("cleaner")
          /\ CloserOf \in {"session", "cleaner"}
      BY <1>10 DEF DeleteKey, CloserOf, CallOf
    <2>3. CallOf("stop") = {} /\ CallOf("stop")' = {}
      BY DEF CallOf
    <2>4. [y \in {"cleaner", "stop"} |-> CallOf(y)]' =
             [y \in {"cleaner", "stop"} |-> IF y = CloserOf THEN {} ELSE CallOf(y)]
      BY <2>2, <2>3
    <2>5. /\ [c \in {Self} |-> PhaseOf]' = [[c \in {Self} |-> PhaseOf] EXCEPT ![Self] = "closed"]
          /\ [c \in {Self} |-> CloserOf]' = [[c \in {Self} |-> CloserOf] EXCEPT ![Self] = "none"]
      BY <2>1
    <2>6. Table!CloseKey(Self)
      BY <2>1, <2>4, <2>5, <1>b
      DEF Table!CloseKey, Table!Outside, Table!admission, Table!stopping
    <2> QED BY <2>6 DEF Table!SessionStep, Table!CloseStep
  <1>11. CASE CleanSession
    <2>1. /\ inMap /\ UNCHANGED <<inMap, SessionOf, PhaseOf, CloserOf, reader, keepalive>>
          /\ CallOf("cleaner") = {} /\ CallOf("cleaner")' = {Self}
      BY <1>11 DEF CleanSession, SessionOf, CloserOf, PhaseOf, CallOf, clientVars
    <2>2. SessionOf \notin {"none", "over"}
      BY <1>11 DEF CleanSession, SessionOf
    <2>3. CallOf("stop") = {} /\ CallOf("stop")' = {}
      BY DEF CallOf
    <2>4. [y \in {"cleaner", "stop"} |-> CallOf(y)]' =
             [[y \in {"cleaner", "stop"} |-> CallOf(y)] EXCEPT !["cleaner"] = {Self}]
      BY <2>1, <2>3
    <2>5. Table!CleanConnections(Self)
      BY <2>1, <2>2, <2>4, <1>b
      DEF Table!CleanConnections, Table!admission, Table!table, Table!stopping
    <2> QED BY <2>5 DEF Table!SessionStep
  <1>12. CASE KeepaliveStep
    <2>1. /\ UNCHANGED <<inMap, closed, closing, handler, reader>>
          /\ keepalive \in {"run", "write"} /\ keepalive' # "none"
          /\ keepalive' = "write" => CloseMuFree /\ ~ closed
      BY <1>12 DEF KeepaliveStep, KeepaliveTick, KeepaliveWritten, KeepaliveEnd, clientVars
    <2>2. UNCHANGED <<inMap, SessionOf, PhaseOf, CloserOf, CallOf("cleaner")>>
      BY <2>1 DEF SessionOf, PhaseOf, CloserOf, CallOf
    <2>3. Helping /\ (~ CloseMuFree' => Helping')
      BY <2>1 DEF CloseMuFree, Helping, Readers
    <2>4. CloseMuFree /\ ~ CloseMuFree' => PhaseOf = "open"
      BY <2>1 DEF CloseMuFree, PhaseOf
    <2> QED BY <2>2, <2>3, <2>4, HelpersFit
  <1>13. CASE CheckBackendHealth \/ UNCHANGED sessionVars
    <2>1. UNCHANGED <<inMap, closed, closing, handler, reader, keepalive>>
      BY <1>13 DEF CheckBackendHealth, sessionVars, clientVars, goroutines
    <2> QED BY <1>a, <1>b, <2>1 DEF SessionOf, PhaseOf, CloserOf, CallOf
  <1> QED
    BY <1>1, <1>2, <1>3, <1>4, <1>5, <1>6, <1>7, <1>8, <1>9, <1>10, <1>11, <1>12, <1>13,
       SessionSteps
    DEF OtherStep, ClosingStep

(* The table as handleWebSocket leaves it to a new session.                *)
Spawned ==
    /\ SessionOf = "dial" /\ PhaseOf = "open" /\ CloserOf = "none" /\ inMap
    /\ ~ Helping /\ CloseMuFree /\ CallOf("cleaner") = {}

(* WSAdmission describes a session by the few steps the table sees; the    *)
(* session of WSSession, with all its goroutines and for a table with this *)
(* client alone, takes no other ones: WSAdmission leaves out nothing of    *)
(* handleClient that the table would notice.                               *)
THEOREM SessionFitsTable ==
    SessionSpec => Spawned /\ [][Table!SessionStep(Self)]_(Table!vars)
  <1>1. SessionInit => Spawned
    BY DEF SessionInit, Spawned, SessionOf, PhaseOf, CloserOf, CallOf, Helping, CloseMuFree,
           CloseCallers, BeforeRemoval, BeyondMark, Readers
  <1> QED
    BY <1>1, SessionInvariant, SessionStepsTable, PTL DEF SessionSpec

=============================================================================
