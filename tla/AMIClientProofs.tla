-------------------------- MODULE AMIClientProofs --------------------------
(***************************************************************************)
(* Theorems about AMIClient for any number of callers, attempts and events *)
(* in flight: what "connected" means, that no open connection is lost, and *)
(* that the breaker hears of every attempt once.                           *)
(***************************************************************************)
EXTENDS AMIClient, FiniteSetTheorems, TLAPS

CallerSteps == {"idle", "cLock", "cCheck", "enter", "awaitDone", "relock", "write",
                "sWait", "dWait"} \cup Dialling
DispSteps == {"none", "select", "handle", "exit", "done"}
ReaderSteps == {"none", "start", "top", "check", "read", "deliver", "cleanup", "done"}

(* TypeOK in two parts: the numbers and the rest.                          *)
CountsType ==
    /\ gen \in Gens
    /\ dials \in 0..attempts /\ attempts \in 0..MaxAttempts
    /\ unrecorded \in 0..attempts

PartsType ==
    /\ mu \in Procs \cup {NoProc}
    /\ connectionLock \in Procs \cup {NoProc}
    /\ connected \in BOOLEAN
    /\ conn \in Conns \cup {Nil}
    /\ open \subseteq Conns
    /\ stopClosed \subseteq Gens /\ doneClosed \subseteq Gens
    /\ filled \subseteq responseChans /\ responseChans \subseteq ActionIDs
    /\ actionID \in [Procs -> ActionIDs \cup {NoID}]
    /\ socket \subseteq Conns \X ActionIDs
    /\ eventChan \in 0..EventCap
    /\ pc \in [Procs -> CallerSteps]
    /\ disp \in [Conns -> DispSteps]
    /\ dispGen \in [Conns -> Gens]
    /\ reader \in [Conns -> ReaderSteps]
    /\ readerConn \in [Conns -> Conns \cup {Nil}]
    /\ message \in [Conns -> ActionIDs \cup {NoID}]
    /\ panicked \in BOOLEAN

(* The steps of a caller under each of the two mutexes, and those of an    *)
(* attempt before its channels and before its connection are made.         *)
UnderMu == Dialling \cup {"awaitDone", "relock", "write", "sWait"}
UnderLock == Dialling \cup {"cCheck", "enter", "awaitDone"}
BeforeChannels == {"cLock", "cCheck", "enter", "waitOld"}
BeforeDial == BeforeChannels \cup {"dial"}

CallersAt(steps) == {p \in Procs : pc[p] \in steps}

(* Who holds c.mu and c.connectionLock.                                    *)
MuHolder == \A p \in Procs : mu = p <=> pc[p] \in UnderMu
LockHolder == \A p \in Procs : connectionLock = p <=> pc[p] \in UnderLock

(* Nobody connects the client while an attempt is under way.               *)
DialsWhileDown == \A p \in Procs : pc[p] \in Dialling => ~ connected

(* connectImpl closes the connection it finds before it dials.             *)
DialsFromNil == \A p \in Procs : pc[p] \in {"waitOld", "dial"} => conn = Nil

AttemptsCounted == \A p \in Procs : pc[p] \in UnderLock \cup BeforeDial => attempts > 0

(* An attempt makes at most one pair of channels and one connection.       *)
GensPending ==
    /\ IsFiniteSet(CallersAt(BeforeChannels))
    /\ gen + Cardinality(CallersAt(BeforeChannels)) <= attempts

DialsPending ==
    /\ IsFiniteSet(CallersAt(BeforeDial))
    /\ dials + Cardinality(CallersAt(BeforeDial)) <= attempts

IInv ==
    /\ TypeOK
    /\ MuHolder /\ LockHolder /\ DialsWhileDown /\ DialsFromNil
    /\ AttemptsCounted /\ GensPending /\ DialsPending
    /\ AttemptsRecorded /\ ConnectedIsOpen /\ OpenIsCurrent

-----------------------------------------------------------------------------
(* A caller that moves joins or leaves the callers at given steps.         *)
LEMMA CallerMoves ==
    ASSUME pc \in [Procs -> CallerSteps], NEW p \in Procs, NEW step, NEW T,
           pc' = [pc EXCEPT ![p] = step], IsFiniteSet(CallersAt(T))
    PROVE  /\ IsFiniteSet(CallersAt(T)')
           /\ Cardinality(CallersAt(T)) \in Nat /\ Cardinality(CallersAt(T)') \in Nat
           /\ (pc[p] \in T <=> step \in T)
                => Cardinality(CallersAt(T)') = Cardinality(CallersAt(T))
           /\ (step \in T => pc[p] \in T)
                => Cardinality(CallersAt(T)') <= Cardinality(CallersAt(T))
           /\ pc[p] \notin T /\ step \in T
                => Cardinality(CallersAt(T)') = Cardinality(CallersAt(T)) + 1
           /\ pc[p] \in T /\ step \notin T
                => Cardinality(CallersAt(T)') = Cardinality(CallersAt(T)) - 1
  <1>1. CASE pc[p] \in T <=> step \in T
    <2>1. CallersAt(T)' = CallersAt(T)
      BY <1>1 DEF CallersAt
    <2> QED BY <1>1, <2>1, FS_CardinalityType
  <1>2. CASE pc[p] \notin T /\ step \in T
    <2>1. CallersAt(T)' = CallersAt(T) \cup {p} /\ p \notin CallersAt(T)
      BY <1>2 DEF CallersAt
    <2> QED BY <1>2, <2>1, FS_CardinalityType, FS_AddElement
  <1>3. CASE pc[p] \in T /\ step \notin T
    <2>1. CallersAt(T)' = CallersAt(T) \ {p} /\ p \in CallersAt(T)
      BY <1>3 DEF CallersAt
    <2>2. IsFiniteSet(CallersAt(T)') /\ Cardinality(CallersAt(T)') = Cardinality(CallersAt(T)) - 1
      BY <2>1, FS_RemoveElement
    <2>3. Cardinality(CallersAt(T)) \in Nat /\ Cardinality(CallersAt(T)') \in Nat
      BY <2>2, FS_CardinalityType
    <2> QED BY <1>3, <2>2, <2>3
  <1> QED BY <1>1, <1>2, <1>3

(* A caller at given steps is counted there.                               *)
LEMMA CallerCounts ==
    ASSUME NEW T, NEW p \in Procs, pc[p] \in T, IsFiniteSet(CallersAt(T))
    PROVE  Cardinality(CallersAt(T)) \in Nat /\ Cardinality(CallersAt(T)) >= 1
  <1>1. p \in CallersAt(T)
    BY DEF CallersAt
  <1>2. Cardinality(CallersAt(T)) # 0
    BY <1>1, FS_EmptySet
  <1> QED BY <1>2, FS_CardinalityType

(* While an attempt is under way the breaker has one outcome to hear of,   *)
(* and otherwise none.                                                     *)
LEMMA OneUnrecorded ==
    ASSUME TypeOK, MuHolder, AttemptsRecorded
    PROVE  /\ \A p \in Procs : pc[p] \in Dialling => unrecorded = 1
           /\ (\A p \in Procs : pc[p] \notin Dialling) => unrecorded = 0
  <1>1. ASSUME NEW p \in Procs, pc[p] \in Dialling PROVE unrecorded = 1
    <2>1. {q \in Procs : pc[q] \in Dialling} = {p}
      BY <1>1, ClientAssumption DEF MuHolder, UnderMu
    <2> QED BY <2>1, FS_Singleton DEF AttemptsRecorded
  <1>2. ASSUME \A p \in Procs : pc[p] \notin Dialling PROVE unrecorded = 0
    <2>1. {q \in Procs : pc[q] \in Dialling} = {}
      BY <1>2
    <2> QED BY <2>1, FS_EmptySet DEF AttemptsRecorded
  <1> QED BY <1>1, <1>2

(* TypeOK is these two parts.                                              *)
LEMMA TypeParts == TypeOK <=> CountsType /\ PartsType
  BY DEF TypeOK, CountsType, PartsType, CallerSteps, DispSteps, ReaderSteps

-----------------------------------------------------------------------------
(* What the steps mean for the numbers: the cases in which a caller moves  *)
(* and one of them changes, and the others.                                *)
Moves(p, step) == pc' = [pc EXCEPT ![p] = step]

Begun(p) ==
    /\ pc[p] = "idle" /\ Moves(p, "cLock")
    /\ attempts < MaxAttempts /\ attempts' = attempts + 1
    /\ UNCHANGED <<gen, dials, unrecorded>>

Admitted(p, step) ==
    /\ pc[p] = "enter" /\ step \in {"waitOld", "dial"} /\ Moves(p, step)
    /\ mu = NoProc
    /\ unrecorded' = unrecorded + 1
    /\ UNCHANGED <<gen, dials, attempts>>

ChannelsMade(p) ==
    /\ pc[p] = "waitOld" /\ Moves(p, "dial")
    /\ gen' = gen + 1
    /\ UNCHANGED counts

Dialled(p) ==
    /\ pc[p] = "dial" /\ Moves(p, "banner")
    /\ dials' = dials + 1
    /\ UNCHANGED <<gen, attempts, unrecorded>>

Recorded(p, step) ==
    /\ pc[p] \in Dialling /\ step \in {"idle", "awaitDone"} /\ Moves(p, step)
    /\ unrecorded' = unrecorded - 1
    /\ UNCHANGED <<gen, dials, attempts>>

Uncounted(p, step) ==
    /\ Moves(p, step)
    /\ step \in Dialling <=> pc[p] \in Dialling
    /\ step \in BeforeChannels => pc[p] \in BeforeChannels
    /\ step \in BeforeDial => pc[p] \in BeforeDial
    /\ UNCHANGED <<gen, counts>>

Still == UNCHANGED <<pc, gen, counts>>

CountStep ==
    \/ \E p \in Procs : Begun(p) \/ ChannelsMade(p) \/ Dialled(p)
    \/ \E p \in Procs, step \in CallerSteps :
          Admitted(p, step) \/ Recorded(p, step) \/ Uncounted(p, step)
    \/ Still

(* Every step is one of these.                                             *)
LEMMA StepsCount == TypeOK /\ [Next]_vars => CountStep
  <1> SUFFICES ASSUME TypeOK, [Next]_vars
               PROVE  CountStep
    OBVIOUS
  <1> USE ClientAssumption DEF TypeOK, CallerSteps, BeforeDial, BeforeChannels, Dialling,
      Moves, client, channels, responses, loops, counts
  <1>1. ASSUME NEW p \in Procs, BeginConnect(p) PROVE CountStep
    <2>1. Begun(p)
      BY <1>1 DEF BeginConnect, At, Goto, Begun
    <2> QED BY <2>1 DEF CountStep
  <1>4. ASSUME NEW p \in Procs, ConnectLock(p) PROVE CountStep
    <2>1. Uncounted(p, "cCheck")
      BY <1>4 DEF ConnectLock, At, Goto, Uncounted
    <2> QED BY <2>1 DEF CountStep
  <1>5. ASSUME NEW p \in Procs, ConnectCheck(p) PROVE CountStep
    <2>1. Uncounted(p, "enter") \/ Uncounted(p, "idle")
      BY <1>5 DEF ConnectCheck, At, Goto, Uncounted
    <2> QED BY <2>1 DEF CountStep
  <1>6. ASSUME NEW p \in Procs, ConnectEnter(p) PROVE CountStep
    <2>1. Uncounted(p, "idle") \/ Admitted(p, "dial") \/ Admitted(p, "waitOld") \/ Still
      BY <1>6 DEF ConnectEnter, At, Goto, CloseStop, CloseConn, Uncounted, Admitted, Still
    <2> QED BY <2>1 DEF CountStep
  <1>7. ASSUME NEW p \in Procs, ConnectNewChannels(p) PROVE CountStep
    <2>1. ChannelsMade(p)
      BY <1>7 DEF ConnectNewChannels, At, Goto, ChannelsMade
    <2> QED BY <2>1 DEF CountStep
  <1>8. ASSUME NEW p \in Procs, ConnectDial(p) PROVE CountStep
    <2>1. Dialled(p) \/ Recorded(p, "idle")
      BY <1>8 DEF ConnectDial, At, Goto, Record, ConnectReturn, Unlock, Dialled, Recorded
    <2> QED BY <2>1 DEF CountStep
  <1>9. ASSUME NEW p \in Procs, ConnectBanner(p) PROVE CountStep
    <2>1. Uncounted(p, "login") \/ Recorded(p, "idle")
      BY <1>9 DEF ConnectBanner, At, Goto, Record, ConnectReturn, Unlock, DispGoto,
       ReaderGoto, Uncounted, Recorded
    <2> QED BY <2>1 DEF CountStep
  <1>10. ASSUME NEW p \in Procs, ConnectLogin(p) PROVE CountStep
    <2>1. Uncounted(p, "ping") \/ Recorded(p, "awaitDone") \/ Still
      BY <1>10 DEF ConnectLogin, At, Goto, LoginFails, CloseStop, CloseConn, Record,
       Uncounted, Recorded, Still
    <2> QED BY <2>1 DEF CountStep
  <1>11. ASSUME NEW p \in Procs, ConnectPing(p) PROVE CountStep
    <2>1. Recorded(p, "idle") \/ Recorded(p, "awaitDone") \/ Still
      BY <1>11 DEF ConnectPing, At, Goto, LoginFails, CloseStop, CloseConn, Record,
       ConnectReturn, Unlock, Recorded, Still
    <2> QED BY <2>1 DEF CountStep
  <1>12. ASSUME NEW p \in Procs, ConnectAwaitDone(p) PROVE CountStep
    <2>1. Uncounted(p, "idle")
      BY <1>12 DEF ConnectAwaitDone, At, Goto, ConnectReturn, Unlock, Uncounted
    <2> QED BY <2>1 DEF CountStep
  <1>13. ASSUME NEW p \in Procs, SendLock(p) PROVE CountStep
    <2>1. Uncounted(p, "write") \/ Uncounted(p, "relock")
      BY <1>13 DEF SendLock, At, Goto, Lock, Uncounted
    <2> QED BY <2>1 DEF CountStep
  <1>14. ASSUME NEW p \in Procs, SendWrite(p) PROVE CountStep
    <2>1. Uncounted(p, "idle") \/ Uncounted(p, "sWait")
      BY <1>14 DEF SendWrite, At, Goto, Unlock, Uncounted
    <2> QED BY <2>1 DEF CountStep
  <1>15. ASSUME NEW p \in Procs, SendWait(p) PROVE CountStep
    <2>1. Uncounted(p, "idle")
      BY <1>15 DEF SendWait, At, Goto, Unlock, Uncounted
    <2> QED BY <2>1 DEF CountStep
  <1>16. ASSUME NEW p \in Procs, Disconnect(p) PROVE CountStep
    <2>1. Uncounted(p, "idle") \/ Uncounted(p, "dWait") \/ Still
      BY <1>16 DEF Disconnect, At, Goto, CloseStop, CloseConn, Uncounted, Still
    <2> QED BY <2>1 DEF CountStep
  <1>17. ASSUME NEW p \in Procs, DisconnectReturn(p) PROVE CountStep
    <2>1. Uncounted(p, "idle")
      BY <1>17 DEF DisconnectReturn, At, Goto, Uncounted
    <2> QED BY <2>1 DEF CountStep
  <1>18. ASSUME NEW c \in Conns, DispatcherStop(c) PROVE CountStep
    BY <1>18 DEF DispatcherStop, DispGoto, CountStep, Still
  <1>19. ASSUME NEW c \in Conns, DispatcherEvent(c) PROVE CountStep
    BY <1>19 DEF DispatcherEvent, DispGoto, CountStep, Still
  <1>20. ASSUME NEW c \in Conns, DispatcherHandle(c) PROVE CountStep
    BY <1>20 DEF DispatcherHandle, DispGoto, CountStep, Still
  <1>21. ASSUME NEW c \in Conns, DispatcherExit(c) PROVE CountStep
    BY <1>21 DEF DispatcherExit, DispGoto, CountStep, Still
  <1>22. ASSUME NEW c \in Conns, ReaderStart(c) PROVE CountStep
    BY <1>22 DEF ReaderStart, ReaderGoto, CountStep, Still
  <1>23. ASSUME NEW c \in Conns, ReaderTop(c) PROVE CountStep
    BY <1>23 DEF ReaderTop, ReaderGoto, CountStep, Still
  <1>24. ASSUME NEW c \in Conns, ReaderCheck(c) PROVE CountStep
    BY <1>24 DEF ReaderCheck, ReaderGoto, CountStep, Still
  <1>25. ASSUME NEW c \in Conns, ReaderDeliver(c) PROVE CountStep
    BY <1>25 DEF ReaderDeliver, ReaderGoto, CountStep, Still
  <1>26. ASSUME NEW c \in Conns, ReaderRead(c) PROVE CountStep
    BY <1>26 DEF ReaderRead, ReaderGoto, CountStep, Still
  <1>27. ASSUME NEW c \in Conns, ReaderCleanup(c) PROVE CountStep
    BY <1>27 DEF ReaderCleanup, ReaderGoto, CloseConn, CountStep, Still
  <1>28. CASE UNCHANGED vars
    BY <1>28 DEF vars, CountStep, Still
  <1> QED
    BY <1>1, <1>4, <1>5, <1>6, <1>7, <1>8, <1>9, <1>10, <1>11, <1>12, <1>13,
       <1>14, <1>15, <1>16, <1>17, <1>18, <1>19, <1>20, <1>21, <1>22, <1>23, <1>24, <1>25,
       <1>26, <1>27, <1>28
    DEF Next, Begin, ProcStep, DispatcherStep, ReaderStep

(* Every caller is at a step.                                              *)
LEMMA CallersHaveSteps == TypeOK => pc \in [Procs -> CallerSteps]
  BY DEF TypeOK, CallerSteps

(* The numbers are natural numbers.                                        *)
LEMMA CountsAreNumbers ==
    TypeOK => gen \in Nat /\ dials \in Nat /\ attempts \in Nat /\ unrecorded \in Nat
  BY ClientAssumption DEF TypeOK, Gens

(* An attempt gives up its right to new channels when it uses it or ends.  *)
LEMMA GensInductive == TypeOK /\ GensPending /\ [Next]_vars => GensPending'
  <1> SUFFICES ASSUME TypeOK, GensPending, [Next]_vars
               PROVE  GensPending'
    OBVIOUS
  <1>1. ASSUME NEW p \in Procs, Begun(p) PROVE GensPending'
    <2>1. pc' = [pc EXCEPT ![p] = "cLock"]
      BY <1>1 DEF Begun, Moves
    <2>2. pc[p] \notin BeforeChannels /\ "cLock" \in BeforeChannels
      BY <1>1 DEF Begun, BeforeChannels, BeforeDial, Dialling
    <2>3. /\ IsFiniteSet(CallersAt(BeforeChannels)')
          /\ Cardinality(CallersAt(BeforeChannels)) \in Nat
          /\ Cardinality(CallersAt(BeforeChannels)') \in Nat
          /\ Cardinality(CallersAt(BeforeChannels)') = Cardinality(CallersAt(BeforeChannels)) + 1
      BY <2>1, <2>2, CallerMoves, CallersHaveSteps DEF GensPending
    <2> QED BY <1>1, <2>3, CountsAreNumbers DEF Begun, GensPending, counts
  <1>2. ASSUME NEW p \in Procs, ChannelsMade(p) PROVE GensPending'
    <2>1. pc' = [pc EXCEPT ![p] = "dial"]
      BY <1>2 DEF ChannelsMade, Moves
    <2>2. pc[p] \in BeforeChannels /\ "dial" \notin BeforeChannels
      BY <1>2 DEF ChannelsMade, BeforeChannels, BeforeDial, Dialling
    <2>3. /\ IsFiniteSet(CallersAt(BeforeChannels)')
          /\ Cardinality(CallersAt(BeforeChannels)) \in Nat
          /\ Cardinality(CallersAt(BeforeChannels)') \in Nat
          /\ Cardinality(CallersAt(BeforeChannels)') = Cardinality(CallersAt(BeforeChannels)) - 1
      BY <2>1, <2>2, CallerMoves, CallersHaveSteps DEF GensPending
    <2> QED BY <1>2, <2>3, CountsAreNumbers DEF ChannelsMade, GensPending, counts
  <1>3. ASSUME NEW p \in Procs, Dialled(p) PROVE GensPending'
    <2>1. pc' = [pc EXCEPT ![p] = "banner"]
      BY <1>3 DEF Dialled, Moves
    <2>2. pc[p] \notin BeforeChannels /\ "banner" \notin BeforeChannels
      BY <1>3 DEF Dialled, BeforeChannels, BeforeDial, Dialling
    <2>3. /\ IsFiniteSet(CallersAt(BeforeChannels)')
          /\ Cardinality(CallersAt(BeforeChannels)) \in Nat
          /\ Cardinality(CallersAt(BeforeChannels)') \in Nat
          /\ Cardinality(CallersAt(BeforeChannels)') <= Cardinality(CallersAt(BeforeChannels))
      BY <2>1, <2>2, CallerMoves, CallersHaveSteps DEF GensPending
    <2> QED BY <1>3, <2>3, CountsAreNumbers DEF Dialled, GensPending, counts
  <1>4. ASSUME NEW p \in Procs, NEW step \in CallerSteps, Admitted(p, step)
        PROVE  GensPending'
    <2>1. pc' = [pc EXCEPT ![p] = step]
      BY <1>4 DEF Admitted, Moves
    <2>2. step \in BeforeChannels => pc[p] \in BeforeChannels
      BY <1>4 DEF Admitted, BeforeChannels, BeforeDial, Dialling
    <2>3. /\ IsFiniteSet(CallersAt(BeforeChannels)')
          /\ Cardinality(CallersAt(BeforeChannels)) \in Nat
          /\ Cardinality(CallersAt(BeforeChannels)') \in Nat
          /\ Cardinality(CallersAt(BeforeChannels)') <= Cardinality(CallersAt(BeforeChannels))
      BY <2>1, <2>2, CallerMoves, CallersHaveSteps DEF GensPending
    <2> QED BY <1>4, <2>3, CountsAreNumbers DEF Admitted, GensPending, counts
  <1>5. ASSUME NEW p \in Procs, NEW step \in CallerSteps, Recorded(p, step)
        PROVE  GensPending'
    <2>1. pc' = [pc EXCEPT ![p] = step]
      BY <1>5 DEF Recorded, Moves
    <2>2. step \in BeforeChannels => pc[p] \in BeforeChannels
      BY <1>5 DEF Recorded, BeforeChannels, BeforeDial, Dialling
    <2>3. /\ IsFiniteSet(CallersAt(BeforeChannels)')
          /\ Cardinality(CallersAt(BeforeChannels)) \in Nat
          /\ Cardinality(CallersAt(BeforeChannels)') \in Nat
          /\ Cardinality(CallersAt(BeforeChannels)') <= Cardinality(CallersAt(BeforeChannels))
      BY <2>1, <2>2, CallerMoves, CallersHaveSteps DEF GensPending
    <2> QED BY <1>5, <2>3, CountsAreNumbers DEF Recorded, GensPending, counts
  <1>6. ASSUME NEW p \in Procs, NEW step \in CallerSteps, Uncounted(p, step)
        PROVE  GensPending'
    <2>1. pc' = [pc EXCEPT ![p] = step]
      BY <1>6 DEF Uncounted, Moves
    <2>2. step \in BeforeChannels => pc[p] \in BeforeChannels
      BY <1>6 DEF Uncounted, BeforeChannels, BeforeDial, Dialling
    <2>3. /\ IsFiniteSet(CallersAt(BeforeChannels)')
          /\ Cardinality(CallersAt(BeforeChannels)) \in Nat
          /\ Cardinality(CallersAt(BeforeChannels)') \in Nat
          /\ Cardinality(CallersAt(BeforeChannels)') <= Cardinality(CallersAt(BeforeChannels))
      BY <2>1, <2>2, CallerMoves, CallersHaveSteps DEF GensPending
    <2> QED BY <1>6, <2>3, CountsAreNumbers DEF Uncounted, GensPending, counts
  <1>7. CASE Still
    <2>1. CallersAt(BeforeChannels)' = CallersAt(BeforeChannels)
      BY <1>7 DEF Still, CallersAt
    <2> QED BY <1>7, <2>1 DEF Still, GensPending, counts
  <1> QED
    BY <1>1, <1>2, <1>3, <1>4, <1>5, <1>6, <1>7, StepsCount DEF CountStep

(* And likewise its right to a connection.                                 *)
LEMMA DialsInductive == TypeOK /\ DialsPending /\ [Next]_vars => DialsPending'
  <1> SUFFICES ASSUME TypeOK, DialsPending, [Next]_vars
               PROVE  DialsPending'
    OBVIOUS
  <1>1. ASSUME NEW p \in Procs, Begun(p) PROVE DialsPending'
    <2>1. pc' = [pc EXCEPT ![p] = "cLock"]
      BY <1>1 DEF Begun, Moves
    <2>2. pc[p] \notin BeforeDial /\ "cLock" \in BeforeDial
      BY <1>1 DEF Begun, BeforeChannels, BeforeDial, Dialling
    <2>3. /\ IsFiniteSet(CallersAt(BeforeDial)')
          /\ Cardinality(CallersAt(BeforeDial)) \in Nat
          /\ Cardinality(CallersAt(BeforeDial)') \in Nat
          /\ Cardinality(CallersAt(BeforeDial)') = Cardinality(CallersAt(BeforeDial)) + 1
      BY <2>1, <2>2, CallerMoves, CallersHaveSteps DEF DialsPending
    <2> QED BY <1>1, <2>3, CountsAreNumbers DEF Begun, DialsPending, counts
  <1>2. ASSUME NEW p \in Procs, ChannelsMade(p) PROVE DialsPending'
    <2>1. pc' = [pc EXCEPT ![p] = "dial"]
      BY <1>2 DEF ChannelsMade, Moves
    <2>2. pc[p] \in BeforeDial /\ "dial" \in BeforeDial
      BY <1>2 DEF ChannelsMade, BeforeChannels, BeforeDial, Dialling
    <2>3. /\ IsFiniteSet(CallersAt(BeforeDial)')
          /\ Cardinality(CallersAt(BeforeDial)) \in Nat
          /\ Cardinality(CallersAt(BeforeDial)') \in Nat
          /\ Cardinality(CallersAt(BeforeDial)') <= Cardinality(CallersAt(BeforeDial))
      BY <2>1, <2>2, CallerMoves, CallersHaveSteps DEF DialsPending
    <2> QED BY <1>2, <2>3, CountsAreNumbers DEF ChannelsMade, DialsPending, counts
  <1>3. ASSUME NEW p \in Procs, Dialled(p) PROVE DialsPending'
    <2>1. pc' = [pc EXCEPT ![p] = "banner"]
      BY <1>3 DEF Dialled, Moves
    <2>2. pc[p] \in BeforeDial /\ "banner" \notin BeforeDial
      BY <1>3 DEF Dialled, BeforeChannels, BeforeDial, Dialling
    <2>3. /\ IsFiniteSet(CallersAt(BeforeDial)')
          /\ Cardinality(CallersAt(BeforeDial)) \in Nat
          /\ Cardinality(CallersAt(BeforeDial)') \in Nat
          /\ Cardinality(CallersAt(BeforeDial)') = Cardinality(CallersAt(BeforeDial)) - 1
      BY <2>1, <2>2, CallerMoves, CallersHaveSteps DEF DialsPending
    <2> QED BY <1>3, <2>3, CountsAreNumbers DEF Dialled, DialsPending, counts
  <1>4. ASSUME NEW p \in Procs, NEW step \in CallerSteps, Admitted(p, step)
        PROVE  DialsPending'
    <2>1. pc' = [pc EXCEPT ![p] = step]
      BY <1>4 DEF Admitted, Moves
    <2>2. step \in BeforeDial => pc[p] \in BeforeDial
      BY <1>4 DEF Admitted, BeforeChannels, BeforeDial, Dialling
    <2>3. /\ IsFiniteSet(CallersAt(BeforeDial)')
          /\ Cardinality(CallersAt(BeforeDial)) \in Nat
          /\ Cardinality(CallersAt(BeforeDial)') \in Nat
          /\ Cardinality(CallersAt(BeforeDial)') <= Cardinality(CallersAt(BeforeDial))
      BY <2>1, <2>2, CallerMoves, CallersHaveSteps DEF DialsPending
    <2> QED BY <1>4, <2>3, CountsAreNumbers DEF Admitted, DialsPending, counts
  <1>5. ASSUME NEW p \in Procs, NEW step \in CallerSteps, Recorded(p, step)
        PROVE  DialsPending'
    <2>1. pc' = [pc EXCEPT ![p] = step]
      BY <1>5 DEF Recorded, Moves
    <2>2. step \in BeforeDial => pc[p] \in BeforeDial
      BY <1>5 DEF Recorded, BeforeChannels, BeforeDial, Dialling
    <2>3. /\ IsFiniteSet(CallersAt(BeforeDial)')
          /\ Cardinality(CallersAt(BeforeDial)) \in Nat
          /\ Cardinality(CallersAt(BeforeDial)') \in Nat
          /\ Cardinality(CallersAt(BeforeDial)') <= Cardinality(CallersAt(BeforeDial))
      BY <2>1, <2>2, CallerMoves, CallersHaveSteps DEF DialsPending
    <2> QED BY <1>5, <2>3, CountsAreNumbers DEF Recorded, DialsPending, counts
  <1>6. ASSUME NEW p \in Procs, NEW step \in CallerSteps, Uncounted(p, step)
        PROVE  DialsPending'
    <2>1. pc' = [pc EXCEPT ![p] = step]
      BY <1>6 DEF Uncounted, Moves
    <2>2. step \in BeforeDial => pc[p] \in BeforeDial
      BY <1>6 DEF Uncounted, BeforeChannels, BeforeDial, Dialling
    <2>3. /\ IsFiniteSet(CallersAt(BeforeDial)')
          /\ Cardinality(CallersAt(BeforeDial)) \in Nat
          /\ Cardinality(CallersAt(BeforeDial)') \in Nat
          /\ Cardinality(CallersAt(BeforeDial)') <= Cardinality(CallersAt(BeforeDial))
      BY <2>1, <2>2, CallerMoves, CallersHaveSteps DEF DialsPending
    <2> QED BY <1>6, <2>3, CountsAreNumbers DEF Uncounted, DialsPending, counts
  <1>7. CASE Still
    <2>1. CallersAt(BeforeDial)' = CallersAt(BeforeDial)
      BY <1>7 DEF Still, CallersAt
    <2> QED BY <1>7, <2>1 DEF Still, DialsPending, counts
  <1> QED
    BY <1>1, <1>2, <1>3, <1>4, <1>5, <1>6, <1>7, StepsCount DEF CountStep

(* The breaker is told when an attempt leaves the steps of Dialling.       *)
LEMMA RecordedInductive == TypeOK /\ MuHolder /\ AttemptsRecorded /\
    [Next]_vars => AttemptsRecorded'
  <1> SUFFICES ASSUME TypeOK, MuHolder, AttemptsRecorded, [Next]_vars
               PROVE  AttemptsRecorded'
    OBVIOUS
  <1>1. ASSUME NEW p \in Procs, Begun(p) PROVE AttemptsRecorded'
    <2>1. {q \in Procs : pc'[q] \in Dialling} = {q \in Procs : pc[q] \in Dialling}
      BY <1>1, CallersHaveSteps DEF Begun, Moves, Dialling
    <2> QED BY <1>1, <2>1 DEF Begun, counts, AttemptsRecorded
  <1>2. ASSUME NEW p \in Procs, ChannelsMade(p) PROVE AttemptsRecorded'
    <2>1. {q \in Procs : pc'[q] \in Dialling} = {q \in Procs : pc[q] \in Dialling}
      BY <1>2, CallersHaveSteps DEF ChannelsMade, Moves, Dialling
    <2> QED BY <1>2, <2>1 DEF ChannelsMade, counts, AttemptsRecorded
  <1>3. ASSUME NEW p \in Procs, Dialled(p) PROVE AttemptsRecorded'
    <2>1. {q \in Procs : pc'[q] \in Dialling} = {q \in Procs : pc[q] \in Dialling}
      BY <1>3, CallersHaveSteps DEF Dialled, Moves, Dialling
    <2> QED BY <1>3, <2>1 DEF Dialled, counts, AttemptsRecorded
  <1>4. ASSUME NEW p \in Procs, NEW step \in CallerSteps, Admitted(p, step)
        PROVE  AttemptsRecorded'
    <2>1. \A q \in Procs : pc[q] \notin Dialling
      BY <1>4, ClientAssumption DEF Admitted, MuHolder, UnderMu
    <2>2. unrecorded = 0
      BY <2>1, OneUnrecorded
    <2>3. {q \in Procs : pc'[q] \in Dialling} = {p}
      BY <1>4, <2>1, CallersHaveSteps DEF Admitted, Moves, Dialling
    <2>4. unrecorded' = 1
      BY <1>4, <2>2 DEF Admitted
    <2>5. Cardinality({p}) = 1
      BY FS_Singleton
    <2> QED BY <2>3, <2>4, <2>5 DEF AttemptsRecorded
  <1>5. ASSUME NEW p \in Procs, NEW step \in CallerSteps, Recorded(p, step)
        PROVE  AttemptsRecorded'
    <2>1. \A q \in Procs \ {p} : pc[q] \notin Dialling
      BY <1>5, ClientAssumption DEF Recorded, MuHolder, UnderMu
    <2>2. unrecorded = 1
      BY <1>5, OneUnrecorded DEF Recorded
    <2>3. {q \in Procs : pc'[q] \in Dialling} = {}
      BY <1>5, <2>1, CallersHaveSteps DEF Recorded, Moves, Dialling
    <2> QED BY <1>5, <2>2, <2>3, FS_EmptySet DEF Recorded, AttemptsRecorded
  <1>6. ASSUME NEW p \in Procs, NEW step \in CallerSteps, Uncounted(p, step)
        PROVE  AttemptsRecorded'
    <2>1. {q \in Procs : pc'[q] \in Dialling} = {q \in Procs : pc[q] \in Dialling}
      BY <1>6, CallersHaveSteps DEF Uncounted, Moves, Dialling
    <2> QED BY <1>6, <2>1 DEF Uncounted, counts, AttemptsRecorded
  <1>7. CASE Still
    BY <1>7 DEF Still, counts, AttemptsRecorded
  <1> QED
    BY <1>1, <1>2, <1>3, <1>4, <1>5, <1>6, <1>7, StepsCount DEF CountStep

(* The pending attempts bound the channels and the connections.            *)
LEMMA CountsInductive == TypeOK /\ MuHolder /\ AttemptsRecorded /\ AttemptsCounted /\
    GensPending /\ DialsPending /\ [Next]_vars => CountsType'
  <1> SUFFICES ASSUME TypeOK, MuHolder, AttemptsRecorded, AttemptsCounted, GensPending,
                      DialsPending, [Next]_vars
               PROVE  CountsType'
    OBVIOUS
  <1>1. ASSUME NEW p \in Procs, Begun(p) PROVE CountsType'
    BY <1>1, TypeParts, ClientAssumption DEF Begun, CountsType, Gens, counts
  <1>2. ASSUME NEW p \in Procs, ChannelsMade(p) PROVE CountsType'
    <2>1. gen + 1 <= attempts
      <3>1. pc[p] \in BeforeChannels
        BY <1>2 DEF ChannelsMade, BeforeChannels
      <3> QED BY <3>1, CallerCounts, CountsAreNumbers DEF GensPending
    <2> QED BY <1>2, <2>1, TypeParts, CountsAreNumbers, ClientAssumption
               DEF ChannelsMade, CountsType, Gens, counts
  <1>3. ASSUME NEW p \in Procs, Dialled(p) PROVE CountsType'
    <2>1. dials + 1 <= attempts
      <3>1. pc[p] \in BeforeDial
        BY <1>3 DEF Dialled, BeforeDial
      <3> QED BY <3>1, CallerCounts, CountsAreNumbers DEF DialsPending
    <2> QED BY <1>3, <2>1, TypeParts, CountsAreNumbers DEF Dialled, CountsType, Gens
  <1>4. ASSUME NEW p \in Procs, NEW step \in CallerSteps, Admitted(p, step)
        PROVE  CountsType'
    <2>1. attempts > 0
      BY <1>4 DEF Admitted, AttemptsCounted, UnderLock
    <2>2. unrecorded = 0
      BY <1>4, OneUnrecorded, ClientAssumption DEF Admitted, MuHolder, UnderMu
    <2> QED BY <1>4, <2>1, <2>2, TypeParts, CountsAreNumbers DEF Admitted, CountsType, Gens
  <1>5. ASSUME NEW p \in Procs, NEW step \in CallerSteps, Recorded(p, step)
        PROVE  CountsType'
    <2>1. unrecorded = 1
      BY <1>5, OneUnrecorded DEF Recorded
    <2> QED BY <1>5, <2>1, TypeParts, CountsAreNumbers DEF Recorded, CountsType, Gens
  <1>6. ASSUME NEW p \in Procs, NEW step \in CallerSteps, Uncounted(p, step)
        PROVE  CountsType'
    BY <1>6, TypeParts, ClientAssumption DEF Uncounted, CountsType, Gens, counts
  <1>7. CASE Still
    BY <1>7, TypeParts, ClientAssumption DEF Still, CountsType, Gens, counts
  <1> QED
    BY <1>1, <1>2, <1>3, <1>4, <1>5, <1>6, <1>7, StepsCount DEF CountStep

(* Type correctness of the rest.                                           *)
LEMMA PartsInductive == CountsType /\ PartsType /\ DialsPending /\
    [Next]_vars => PartsType'
  <1> SUFFICES ASSUME CountsType, PartsType, DialsPending, [Next]_vars
               PROVE  PartsType'
    OBVIOUS
  <1> USE ClientAssumption DEF CountsType, PartsType, CallerSteps, DispSteps, ReaderSteps,
      Dialling, Conns, Gens, Nil, client, channels, responses, loops, counts
  <1>1. ASSUME NEW p \in Procs, BeginConnect(p) PROVE PartsType'
    BY <1>1 DEF BeginConnect, At, Goto
  <1>4. ASSUME NEW p \in Procs, ConnectLock(p) PROVE PartsType'
    BY <1>4 DEF ConnectLock, At, Goto
  <1>5. ASSUME NEW p \in Procs, ConnectCheck(p) PROVE PartsType'
    BY <1>5 DEF ConnectCheck, At, Goto
  <1>6. ASSUME NEW p \in Procs, ConnectEnter(p) PROVE PartsType'
    BY <1>6 DEF ConnectEnter, At, Goto, CloseStop, CloseConn
  <1>7. ASSUME NEW p \in Procs, ConnectNewChannels(p) PROVE PartsType'
    BY <1>7 DEF ConnectNewChannels, At, Goto
  <1>8. ASSUME NEW p \in Procs, ConnectDial(p) PROVE PartsType'
    <2>1. dials + 1 \in Conns
      <3>1. pc[p] \in BeforeDial
        BY <1>8 DEF ConnectDial, At, BeforeDial
      <3>2. dials \in Nat /\ attempts \in Nat /\ attempts <= MaxAttempts
        BY DEF CountsType
      <3>3. Cardinality(CallersAt(BeforeDial)) \in Nat \ {0}
        BY <3>1, CallerCounts DEF DialsPending
      <3>4. dials + Cardinality(CallersAt(BeforeDial)) <= attempts
        BY DEF DialsPending
      <3> HIDE DEF PartsType, CountsType
      <3> QED BY <3>2, <3>3, <3>4
    <2> QED BY <1>8, <2>1 DEF ConnectDial, At, Goto, Record, ConnectReturn, Unlock
  <1>9. ASSUME NEW p \in Procs, ConnectBanner(p) PROVE PartsType'
    <2>1. ASSUME DispGoto(conn, "select"), dispGen' = [dispGen EXCEPT ![conn] = gen],
                 ReaderGoto(conn, "start"), Goto(p, "login"),
                 UNCHANGED <<mu, connectionLock, open, counts>>
          PROVE  PartsType'
      BY <1>9, <2>1 DEF ConnectBanner, Goto, DispGoto, ReaderGoto
    <2>2. ASSUME open' = open \ {conn}, ConnectReturn(p), UNCHANGED <<disp, dispGen, reader>>
          PROVE  PartsType'
      BY <1>9, <2>2 DEF ConnectBanner, Goto, ConnectReturn, Unlock
    <2> QED BY <1>9, <2>1, <2>2 DEF ConnectBanner
  <1>10. ASSUME NEW p \in Procs, ConnectLogin(p) PROVE PartsType'
    BY <1>10 DEF ConnectLogin, At, Goto, LoginFails, CloseStop, CloseConn, Record
  <1>11. ASSUME NEW p \in Procs, ConnectPing(p) PROVE PartsType'
    BY <1>11 DEF ConnectPing, At, Goto, LoginFails, CloseStop, CloseConn, Record,
       ConnectReturn, Unlock
  <1>12. ASSUME NEW p \in Procs, ConnectAwaitDone(p) PROVE PartsType'
    BY <1>12 DEF ConnectAwaitDone, At, Goto, ConnectReturn, Unlock
  <1>13. ASSUME NEW p \in Procs, SendLock(p) PROVE PartsType'
    BY <1>13 DEF SendLock, At, Goto, Lock
  <1>14. ASSUME NEW p \in Procs, SendWrite(p) PROVE PartsType'
    <2>1. socket' \subseteq Conns \X ActionIDs
      BY <1>14 DEF SendWrite
    <2>2. /\ responseChans' \subseteq ActionIDs /\ filled' \subseteq responseChans'
          /\ actionID' \in [Procs -> ActionIDs \cup {NoID}]
      BY <1>14 DEF SendWrite
    <2>3. mu' \in Procs \cup {NoProc} /\ connected' \in BOOLEAN
      BY <1>14 DEF SendWrite, Unlock
    <2>4. pc' \in [Procs -> CallerSteps]
      BY <1>14 DEF SendWrite, Goto
    <2> QED BY <1>14, <2>1, <2>2, <2>3, <2>4 DEF SendWrite
  <1>15. ASSUME NEW p \in Procs, SendWait(p) PROVE PartsType'
    BY <1>15 DEF SendWait, At, Goto, Unlock
  <1>16. ASSUME NEW p \in Procs, Disconnect(p) PROVE PartsType'
    BY <1>16 DEF Disconnect, At, Goto, CloseStop, CloseConn
  <1>17. ASSUME NEW p \in Procs, DisconnectReturn(p) PROVE PartsType'
    BY <1>17 DEF DisconnectReturn, At, Goto
  <1>18. ASSUME NEW c \in Conns, DispatcherStop(c) PROVE PartsType'
    BY <1>18 DEF DispatcherStop, DispGoto
  <1>19. ASSUME NEW c \in Conns, DispatcherEvent(c) PROVE PartsType'
    BY <1>19 DEF DispatcherEvent, DispGoto
  <1>20. ASSUME NEW c \in Conns, DispatcherHandle(c) PROVE PartsType'
    BY <1>20 DEF DispatcherHandle, DispGoto
  <1>21. ASSUME NEW c \in Conns, DispatcherExit(c) PROVE PartsType'
    <2>1. doneClosed' \subseteq Gens
      BY <1>21 DEF DispatcherExit
    <2>2. disp' \in [Conns -> DispSteps]
      BY <1>21 DEF DispatcherExit, DispGoto
    <2>3. panicked' \in BOOLEAN
      BY <1>21 DEF DispatcherExit
    <2> QED BY <1>21, <2>1, <2>2, <2>3 DEF DispatcherExit
  <1>22. ASSUME NEW c \in Conns, ReaderStart(c) PROVE PartsType'
    BY <1>22 DEF ReaderStart, ReaderGoto
  <1>23. ASSUME NEW c \in Conns, ReaderTop(c) PROVE PartsType'
    BY <1>23 DEF ReaderTop, ReaderGoto
  <1>24. ASSUME NEW c \in Conns, ReaderCheck(c) PROVE PartsType'
    BY <1>24 DEF ReaderCheck, ReaderGoto
  <1>25. ASSUME NEW c \in Conns, ReaderDeliver(c) PROVE PartsType'
    BY <1>25 DEF ReaderDeliver, ReaderGoto
  <1>26. ASSUME NEW c \in Conns, ReaderRead(c) PROVE PartsType'
    <2>1. socket' \subseteq Conns \X ActionIDs
      BY <1>26 DEF ReaderRead
    <2>2. message' \in [Conns -> ActionIDs \cup {NoID}]
      BY <1>26 DEF ReaderRead
    <2>3. \/ eventChan' = eventChan
          \/ eventChan' = IF eventChan < EventCap THEN eventChan + 1 ELSE eventChan
      BY <1>26 DEF ReaderRead
    <2>4. eventChan' \in 0..EventCap
      BY <2>3
    <2>5. PICK step \in ReaderSteps : reader' = [reader EXCEPT ![c] = step]
      <3>1. ReaderGoto(c, "deliver") \/ ReaderGoto(c, "top") \/ ReaderGoto(c, "cleanup")
        BY <1>26 DEF ReaderRead
      <3> QED BY <3>1 DEF ReaderGoto
    <2>6. reader' \in [Conns -> ReaderSteps]
      BY <2>5
    <2> QED BY <1>26, <2>1, <2>2, <2>4, <2>6 DEF ReaderRead
  <1>27. ASSUME NEW c \in Conns, ReaderCleanup(c) PROVE PartsType'
    BY <1>27 DEF ReaderCleanup, ReaderGoto, CloseConn
  <1>28. CASE UNCHANGED vars
    BY <1>28 DEF vars
  <1> QED
    BY <1>1, <1>4, <1>5, <1>6, <1>7, <1>8, <1>9, <1>10, <1>11, <1>12, <1>13,
       <1>14, <1>15, <1>16, <1>17, <1>18, <1>19, <1>20, <1>21, <1>22, <1>23, <1>24, <1>25,
       <1>26, <1>27, <1>28
    DEF Next, Begin, ProcStep, DispatcherStep, ReaderStep

(* c.mu is held exactly by the callers at the steps under it.              *)
LEMMA MuInductive == TypeOK /\ MuHolder /\ [Next]_vars => MuHolder'
  <1> SUFFICES ASSUME TypeOK, MuHolder, [Next]_vars
               PROVE  MuHolder'
    OBVIOUS
  <1> USE ClientAssumption DEF TypeOK, MuHolder, UnderMu, Dialling, client, channels,
      responses, loops, counts
  <1>1. ASSUME NEW p \in Procs, BeginConnect(p) PROVE MuHolder'
    BY <1>1 DEF BeginConnect, At, Goto
  <1>4. ASSUME NEW p \in Procs, ConnectLock(p) PROVE MuHolder'
    BY <1>4 DEF ConnectLock, At, Goto
  <1>5. ASSUME NEW p \in Procs, ConnectCheck(p) PROVE MuHolder'
    BY <1>5 DEF ConnectCheck, At, Goto
  <1>6. ASSUME NEW p \in Procs, ConnectEnter(p) PROVE MuHolder'
    BY <1>6 DEF ConnectEnter, At, Goto, CloseStop, CloseConn
  <1>7. ASSUME NEW p \in Procs, ConnectNewChannels(p) PROVE MuHolder'
    BY <1>7 DEF ConnectNewChannels, At, Goto
  <1>8. ASSUME NEW p \in Procs, ConnectDial(p) PROVE MuHolder'
    BY <1>8 DEF ConnectDial, At, Goto, Record, ConnectReturn, Unlock
  <1>9. ASSUME NEW p \in Procs, ConnectBanner(p) PROVE MuHolder'
    BY <1>9 DEF ConnectBanner, At, Goto, Record, ConnectReturn, Unlock, DispGoto,
       ReaderGoto
  <1>10. ASSUME NEW p \in Procs, ConnectLogin(p) PROVE MuHolder'
    BY <1>10 DEF ConnectLogin, At, Goto, LoginFails, CloseStop, CloseConn, Record
  <1>11. ASSUME NEW p \in Procs, ConnectPing(p) PROVE MuHolder'
    BY <1>11 DEF ConnectPing, At, Goto, LoginFails, CloseStop, CloseConn, Record,
       ConnectReturn, Unlock
  <1>12. ASSUME NEW p \in Procs, ConnectAwaitDone(p) PROVE MuHolder'
    BY <1>12 DEF ConnectAwaitDone, At, Goto, ConnectReturn, Unlock
  <1>13. ASSUME NEW p \in Procs, SendLock(p) PROVE MuHolder'
    BY <1>13 DEF SendLock, At, Goto, Lock
  <1>14. ASSUME NEW p \in Procs, SendWrite(p) PROVE MuHolder'
    BY <1>14 DEF SendWrite, At, Goto, Unlock
  <1>15. ASSUME NEW p \in Procs, SendWait(p) PROVE MuHolder'
    BY <1>15 DEF SendWait, At, Goto, Unlock
  <1>16. ASSUME NEW p \in Procs, Disconnect(p) PROVE MuHolder'
    BY <1>16 DEF Disconnect, At, Goto, CloseStop, CloseConn
  <1>17. ASSUME NEW p \in Procs, DisconnectReturn(p) PROVE MuHolder'
    BY <1>17 DEF DisconnectReturn, At, Goto
  <1>18. ASSUME NEW c \in Conns, DispatcherStop(c) PROVE MuHolder'
    BY <1>18 DEF DispatcherStop, DispGoto
  <1>19. ASSUME NEW c \in Conns, DispatcherEvent(c) PROVE MuHolder'
    BY <1>19 DEF DispatcherEvent, DispGoto
  <1>20. ASSUME NEW c \in Conns, DispatcherHandle(c) PROVE MuHolder'
    BY <1>20 DEF DispatcherHandle, DispGoto
  <1>21. ASSUME NEW c \in Conns, DispatcherExit(c) PROVE MuHolder'
    BY <1>21 DEF DispatcherExit, DispGoto
  <1>22. ASSUME NEW c \in Conns, ReaderStart(c) PROVE MuHolder'
    BY <1>22 DEF ReaderStart, ReaderGoto
  <1>23. ASSUME NEW c \in Conns, ReaderTop(c) PROVE MuHolder'
    BY <1>23 DEF ReaderTop, ReaderGoto
  <1>24. ASSUME NEW c \in Conns, ReaderCheck(c) PROVE MuHolder'
    BY <1>24 DEF ReaderCheck, ReaderGoto
  <1>25. ASSUME NEW c \in Conns, ReaderDeliver(c) PROVE MuHolder'
    BY <1>25 DEF ReaderDeliver, ReaderGoto
  <1>26. ASSUME NEW c \in Conns, ReaderRead(c) PROVE MuHolder'
    BY <1>26 DEF ReaderRead, ReaderGoto
  <1>27. ASSUME NEW c \in Conns, ReaderCleanup(c) PROVE MuHolder'
    BY <1>27 DEF ReaderCleanup, ReaderGoto, CloseConn
  <1>28. CASE UNCHANGED vars
    BY <1>28 DEF vars
  <1> QED
    BY <1>1, <1>4, <1>5, <1>6, <1>7, <1>8, <1>9, <1>10, <1>11, <1>12, <1>13,
       <1>14, <1>15, <1>16, <1>17, <1>18, <1>19, <1>20, <1>21, <1>22, <1>23, <1>24, <1>25,
       <1>26, <1>27, <1>28
    DEF Next, Begin, ProcStep, DispatcherStep, ReaderStep

(* And so is c.connectionLock.                                             *)
LEMMA LockInductive == TypeOK /\ LockHolder /\ [Next]_vars => LockHolder'
  <1> SUFFICES ASSUME TypeOK, LockHolder, [Next]_vars
               PROVE  LockHolder'
    OBVIOUS
  <1> USE ClientAssumption DEF TypeOK, LockHolder, UnderLock, Dialling, client, channels,
      responses, loops, counts
  <1>1. ASSUME NEW p \in Procs, BeginConnect(p) PROVE LockHolder'
    BY <1>1 DEF BeginConnect, At, Goto
  <1>4. ASSUME NEW p \in Procs, ConnectLock(p) PROVE LockHolder'
    BY <1>4 DEF ConnectLock, At, Goto
  <1>5. ASSUME NEW p \in Procs, ConnectCheck(p) PROVE LockHolder'
    BY <1>5 DEF ConnectCheck, At, Goto
  <1>6. ASSUME NEW p \in Procs, ConnectEnter(p) PROVE LockHolder'
    BY <1>6 DEF ConnectEnter, At, Goto, CloseStop, CloseConn
  <1>7. ASSUME NEW p \in Procs, ConnectNewChannels(p) PROVE LockHolder'
    BY <1>7 DEF ConnectNewChannels, At, Goto
  <1>8. ASSUME NEW p \in Procs, ConnectDial(p) PROVE LockHolder'
    BY <1>8 DEF ConnectDial, At, Goto, Record, ConnectReturn, Unlock
  <1>9. ASSUME NEW p \in Procs, ConnectBanner(p) PROVE LockHolder'
    BY <1>9 DEF ConnectBanner, At, Goto, Record, ConnectReturn, Unlock, DispGoto,
       ReaderGoto
  <1>10. ASSUME NEW p \in Procs, ConnectLogin(p) PROVE LockHolder'
    BY <1>10 DEF ConnectLogin, At, Goto, LoginFails, CloseStop, CloseConn, Record
  <1>11. ASSUME NEW p \in Procs, ConnectPing(p) PROVE LockHolder'
    BY <1>11 DEF ConnectPing, At, Goto, LoginFails, CloseStop, CloseConn, Record,
       ConnectReturn, Unlock
  <1>12. ASSUME NEW p \in Procs, ConnectAwaitDone(p) PROVE LockHolder'
    BY <1>12 DEF ConnectAwaitDone, At, Goto, ConnectReturn, Unlock
  <1>13. ASSUME NEW p \in Procs, SendLock(p) PROVE LockHolder'
    BY <1>13 DEF SendLock, At, Goto, Lock
  <1>14. ASSUME NEW p \in Procs, SendWrite(p) PROVE LockHolder'
    BY <1>14 DEF SendWrite, At, Goto, Unlock
  <1>15. ASSUME NEW p \in Procs, SendWait(p) PROVE LockHolder'
    BY <1>15 DEF SendWait, At, Goto, Unlock
  <1>16. ASSUME NEW p \in Procs, Disconnect(p) PROVE LockHolder'
    <2>1. connectionLock' = connectionLock
      BY <1>16 DEF Disconnect, CloseStop
    <2>2. pc' = pc \/ pc' = [pc EXCEPT ![p] = "dWait"]
      BY <1>16 DEF Disconnect, CloseStop, Goto
    <2>3. pc[p] = "idle"
      BY <1>16 DEF Disconnect, At
    <2> QED BY <2>1, <2>2, <2>3
  <1>17. ASSUME NEW p \in Procs, DisconnectReturn(p) PROVE LockHolder'
    BY <1>17 DEF DisconnectReturn, At, Goto
  <1>18. ASSUME NEW c \in Conns, DispatcherStop(c) PROVE LockHolder'
    BY <1>18 DEF DispatcherStop, DispGoto
  <1>19. ASSUME NEW c \in Conns, DispatcherEvent(c) PROVE LockHolder'
    BY <1>19 DEF DispatcherEvent, DispGoto
  <1>20. ASSUME NEW c \in Conns, DispatcherHandle(c) PROVE LockHolder'
    BY <1>20 DEF DispatcherHandle, DispGoto
  <1>21. ASSUME NEW c \in Conns, DispatcherExit(c) PROVE LockHolder'
    BY <1>21 DEF DispatcherExit, DispGoto
  <1>22. ASSUME NEW c \in Conns, ReaderStart(c) PROVE LockHolder'
    BY <1>22 DEF ReaderStart, ReaderGoto
  <1>23. ASSUME NEW c \in Conns, ReaderTop(c) PROVE LockHolder'
    BY <1>23 DEF ReaderTop, ReaderGoto
  <1>24. ASSUME NEW c \in Conns, ReaderCheck(c) PROVE LockHolder'
    BY <1>24 DEF ReaderCheck, ReaderGoto
  <1>25. ASSUME NEW c \in Conns, ReaderDeliver(c) PROVE LockHolder'
    BY <1>25 DEF ReaderDeliver, ReaderGoto
  <1>26. ASSUME NEW c \in Conns, ReaderRead(c) PROVE LockHolder'
    BY <1>26 DEF ReaderRead, ReaderGoto
  <1>27. ASSUME NEW c \in Conns, ReaderCleanup(c) PROVE LockHolder'
    BY <1>27 DEF ReaderCleanup, ReaderGoto, CloseConn
  <1>28. CASE UNCHANGED vars
    BY <1>28 DEF vars
  <1> QED
    BY <1>1, <1>4, <1>5, <1>6, <1>7, <1>8, <1>9, <1>10, <1>11, <1>12, <1>13,
       <1>14, <1>15, <1>16, <1>17, <1>18, <1>19, <1>20, <1>21, <1>22, <1>23, <1>24, <1>25,
       <1>26, <1>27, <1>28
    DEF Next, Begin, ProcStep, DispatcherStep, ReaderStep

(* Only the holder of c.mu sets connected, at the end of its attempt.      *)
LEMMA DownInductive == TypeOK /\ MuHolder /\ DialsWhileDown /\
    [Next]_vars => DialsWhileDown'
  <1> SUFFICES ASSUME TypeOK, MuHolder, DialsWhileDown, [Next]_vars
               PROVE  DialsWhileDown'
    OBVIOUS
  <1> USE ClientAssumption DEF TypeOK, MuHolder, DialsWhileDown, UnderMu, Dialling,
      client, channels, responses, loops, counts
  <1>1. ASSUME NEW p \in Procs, BeginConnect(p) PROVE DialsWhileDown'
    BY <1>1 DEF BeginConnect, At, Goto
  <1>4. ASSUME NEW p \in Procs, ConnectLock(p) PROVE DialsWhileDown'
    BY <1>4 DEF ConnectLock, At, Goto
  <1>5. ASSUME NEW p \in Procs, ConnectCheck(p) PROVE DialsWhileDown'
    BY <1>5 DEF ConnectCheck, At, Goto
  <1>6. ASSUME NEW p \in Procs, ConnectEnter(p) PROVE DialsWhileDown'
    BY <1>6 DEF ConnectEnter, At, Goto, CloseStop, CloseConn
  <1>7. ASSUME NEW p \in Procs, ConnectNewChannels(p) PROVE DialsWhileDown'
    BY <1>7 DEF ConnectNewChannels, At, Goto
  <1>8. ASSUME NEW p \in Procs, ConnectDial(p) PROVE DialsWhileDown'
    BY <1>8 DEF ConnectDial, At, Goto, Record, ConnectReturn, Unlock
  <1>9. ASSUME NEW p \in Procs, ConnectBanner(p) PROVE DialsWhileDown'
    BY <1>9 DEF ConnectBanner, At, Goto, Record, ConnectReturn, Unlock, DispGoto,
       ReaderGoto
  <1>10. ASSUME NEW p \in Procs, ConnectLogin(p) PROVE DialsWhileDown'
    BY <1>10 DEF ConnectLogin, At, Goto, LoginFails, CloseStop, CloseConn, Record
  <1>11. ASSUME NEW p \in Procs, ConnectPing(p) PROVE DialsWhileDown'
    BY <1>11 DEF ConnectPing, At, Goto, LoginFails, CloseStop, CloseConn, Record,
       ConnectReturn, Unlock
  <1>12. ASSUME NEW p \in Procs, ConnectAwaitDone(p) PROVE DialsWhileDown'
    BY <1>12 DEF ConnectAwaitDone, At, Goto, ConnectReturn, Unlock
  <1>13. ASSUME NEW p \in Procs, SendLock(p) PROVE DialsWhileDown'
    BY <1>13 DEF SendLock, At, Goto, Lock
  <1>14. ASSUME NEW p \in Procs, SendWrite(p) PROVE DialsWhileDown'
    BY <1>14 DEF SendWrite, At, Goto, Unlock
  <1>15. ASSUME NEW p \in Procs, SendWait(p) PROVE DialsWhileDown'
    BY <1>15 DEF SendWait, At, Goto, Unlock
  <1>16. ASSUME NEW p \in Procs, Disconnect(p) PROVE DialsWhileDown'
    BY <1>16 DEF Disconnect, At, Goto, CloseStop, CloseConn
  <1>17. ASSUME NEW p \in Procs, DisconnectReturn(p) PROVE DialsWhileDown'
    BY <1>17 DEF DisconnectReturn, At, Goto
  <1>18. ASSUME NEW c \in Conns, DispatcherStop(c) PROVE DialsWhileDown'
    BY <1>18 DEF DispatcherStop, DispGoto
  <1>19. ASSUME NEW c \in Conns, DispatcherEvent(c) PROVE DialsWhileDown'
    BY <1>19 DEF DispatcherEvent, DispGoto
  <1>20. ASSUME NEW c \in Conns, DispatcherHandle(c) PROVE DialsWhileDown'
    BY <1>20 DEF DispatcherHandle, DispGoto
  <1>21. ASSUME NEW c \in Conns, DispatcherExit(c) PROVE DialsWhileDown'
    BY <1>21 DEF DispatcherExit, DispGoto
  <1>22. ASSUME NEW c \in Conns, ReaderStart(c) PROVE DialsWhileDown'
    BY <1>22 DEF ReaderStart, ReaderGoto
  <1>23. ASSUME NEW c \in Conns, ReaderTop(c) PROVE DialsWhileDown'
    BY <1>23 DEF ReaderTop, ReaderGoto
  <1>24. ASSUME NEW c \in Conns, ReaderCheck(c) PROVE DialsWhileDown'
    BY <1>24 DEF ReaderCheck, ReaderGoto
  <1>25. ASSUME NEW c \in Conns, ReaderDeliver(c) PROVE DialsWhileDown'
    BY <1>25 DEF ReaderDeliver, ReaderGoto
  <1>26. ASSUME NEW c \in Conns, ReaderRead(c) PROVE DialsWhileDown'
    BY <1>26 DEF ReaderRead, ReaderGoto
  <1>27. ASSUME NEW c \in Conns, ReaderCleanup(c) PROVE DialsWhileDown'
    BY <1>27 DEF ReaderCleanup, ReaderGoto, CloseConn
  <1>28. CASE UNCHANGED vars
    BY <1>28 DEF vars
  <1> QED
    BY <1>1, <1>4, <1>5, <1>6, <1>7, <1>8, <1>9, <1>10, <1>11, <1>12, <1>13,
       <1>14, <1>15, <1>16, <1>17, <1>18, <1>19, <1>20, <1>21, <1>22, <1>23, <1>24, <1>25,
       <1>26, <1>27, <1>28
    DEF Next, Begin, ProcStep, DispatcherStep, ReaderStep

(* While an attempt holds c.mu nobody else sets c.conn.                    *)
LEMMA NilInductive == TypeOK /\ MuHolder /\ DialsFromNil /\ [Next]_vars => DialsFromNil'
  <1> SUFFICES ASSUME TypeOK, MuHolder, DialsFromNil, [Next]_vars
               PROVE  DialsFromNil'
    OBVIOUS
  <1> USE ClientAssumption DEF TypeOK, MuHolder, DialsFromNil, UnderMu, Dialling,
      client, channels, responses, loops, counts
  <1>1. ASSUME NEW p \in Procs, BeginConnect(p) PROVE DialsFromNil'
    BY <1>1 DEF BeginConnect, At, Goto
  <1>4. ASSUME NEW p \in Procs, ConnectLock(p) PROVE DialsFromNil'
    BY <1>4 DEF ConnectLock, At, Goto
  <1>5. ASSUME NEW p \in Procs, ConnectCheck(p) PROVE DialsFromNil'
    BY <1>5 DEF ConnectCheck, At, Goto
  <1>6. ASSUME NEW p \in Procs, ConnectEnter(p) PROVE DialsFromNil'
    BY <1>6 DEF ConnectEnter, At, Goto, CloseStop, CloseConn
  <1>7. ASSUME NEW p \in Procs, ConnectNewChannels(p) PROVE DialsFromNil'
    BY <1>7 DEF ConnectNewChannels, At, Goto
  <1>8. ASSUME NEW p \in Procs, ConnectDial(p) PROVE DialsFromNil'
    BY <1>8 DEF ConnectDial, At, Goto, Record, ConnectReturn, Unlock
  <1>9. ASSUME NEW p \in Procs, ConnectBanner(p) PROVE DialsFromNil'
    BY <1>9 DEF ConnectBanner, At, Goto, Record, ConnectReturn, Unlock, DispGoto,
       ReaderGoto
  <1>10. ASSUME NEW p \in Procs, ConnectLogin(p) PROVE DialsFromNil'
    BY <1>10 DEF ConnectLogin, At, Goto, LoginFails, CloseStop, CloseConn, Record
  <1>11. ASSUME NEW p \in Procs, ConnectPing(p) PROVE DialsFromNil'
    BY <1>11 DEF ConnectPing, At, Goto, LoginFails, CloseStop, CloseConn, Record,
       ConnectReturn, Unlock
  <1>12. ASSUME NEW p \in Procs, ConnectAwaitDone(p) PROVE DialsFromNil'
    BY <1>12 DEF ConnectAwaitDone, At, Goto, ConnectReturn, Unlock
  <1>13. ASSUME NEW p \in Procs, SendLock(p) PROVE DialsFromNil'
    BY <1>13 DEF SendLock, At, Goto, Lock
  <1>14. ASSUME NEW p \in Procs, SendWrite(p) PROVE DialsFromNil'
    BY <1>14 DEF SendWrite, At, Goto, Unlock
  <1>15. ASSUME NEW p \in Procs, SendWait(p) PROVE DialsFromNil'
    BY <1>15 DEF SendWait, At, Goto, Unlock
  <1>16. ASSUME NEW p \in Procs, Disconnect(p) PROVE DialsFromNil'
    BY <1>16 DEF Disconnect, At, Goto, CloseStop, CloseConn
  <1>17. ASSUME NEW p \in Procs, DisconnectReturn(p) PROVE DialsFromNil'
    BY <1>17 DEF DisconnectReturn, At, Goto
  <1>18. ASSUME NEW c \in Conns, DispatcherStop(c) PROVE DialsFromNil'
    BY <1>18 DEF DispatcherStop, DispGoto
  <1>19. ASSUME NEW c \in Conns, DispatcherEvent(c) PROVE DialsFromNil'
    BY <1>19 DEF DispatcherEvent, DispGoto
  <1>20. ASSUME NEW c \in Conns, DispatcherHandle(c) PROVE DialsFromNil'
    BY <1>20 DEF DispatcherHandle, DispGoto
  <1>21. ASSUME NEW c \in Conns, DispatcherExit(c) PROVE DialsFromNil'
    BY <1>21 DEF DispatcherExit, DispGoto
  <1>22. ASSUME NEW c \in Conns, ReaderStart(c) PROVE DialsFromNil'
    BY <1>22 DEF ReaderStart, ReaderGoto
  <1>23. ASSUME NEW c \in Conns, ReaderTop(c) PROVE DialsFromNil'
    BY <1>23 DEF ReaderTop, ReaderGoto
  <1>24. ASSUME NEW c \in Conns, ReaderCheck(c) PROVE DialsFromNil'
    BY <1>24 DEF ReaderCheck, ReaderGoto
  <1>25. ASSUME NEW c \in Conns, ReaderDeliver(c) PROVE DialsFromNil'
    BY <1>25 DEF ReaderDeliver, ReaderGoto
  <1>26. ASSUME NEW c \in Conns, ReaderRead(c) PROVE DialsFromNil'
    BY <1>26 DEF ReaderRead, ReaderGoto
  <1>27. ASSUME NEW c \in Conns, ReaderCleanup(c) PROVE DialsFromNil'
    BY <1>27 DEF ReaderCleanup, ReaderGoto, CloseConn
  <1>28. CASE UNCHANGED vars
    BY <1>28 DEF vars
  <1> QED
    BY <1>1, <1>4, <1>5, <1>6, <1>7, <1>8, <1>9, <1>10, <1>11, <1>12, <1>13,
       <1>14, <1>15, <1>16, <1>17, <1>18, <1>19, <1>20, <1>21, <1>22, <1>23, <1>24, <1>25,
       <1>26, <1>27, <1>28
    DEF Next, Begin, ProcStep, DispatcherStep, ReaderStep

(* Every attempt is counted when it begins.                                *)
LEMMA CountedInductive == TypeOK /\ AttemptsCounted /\ [Next]_vars => AttemptsCounted'
  <1> SUFFICES ASSUME TypeOK, AttemptsCounted, [Next]_vars
               PROVE  AttemptsCounted'
    OBVIOUS
  <1> USE ClientAssumption DEF TypeOK, AttemptsCounted, UnderLock, BeforeDial,
      BeforeChannels, Dialling, client, channels, responses, loops, counts
  <1>1. ASSUME NEW p \in Procs, BeginConnect(p) PROVE AttemptsCounted'
    BY <1>1 DEF BeginConnect, At, Goto
  <1>4. ASSUME NEW p \in Procs, ConnectLock(p) PROVE AttemptsCounted'
    BY <1>4 DEF ConnectLock, At, Goto
  <1>5. ASSUME NEW p \in Procs, ConnectCheck(p) PROVE AttemptsCounted'
    BY <1>5 DEF ConnectCheck, At, Goto
  <1>6. ASSUME NEW p \in Procs, ConnectEnter(p) PROVE AttemptsCounted'
    BY <1>6 DEF ConnectEnter, At, Goto, CloseStop, CloseConn
  <1>7. ASSUME NEW p \in Procs, ConnectNewChannels(p) PROVE AttemptsCounted'
    BY <1>7 DEF ConnectNewChannels, At, Goto
  <1>8. ASSUME NEW p \in Procs, ConnectDial(p) PROVE AttemptsCounted'
    BY <1>8 DEF ConnectDial, At, Goto, Record, ConnectReturn, Unlock
  <1>9. ASSUME NEW p \in Procs, ConnectBanner(p) PROVE AttemptsCounted'
    BY <1>9 DEF ConnectBanner, At, Goto, Record, ConnectReturn, Unlock, DispGoto,
       ReaderGoto
  <1>10. ASSUME NEW p \in Procs, ConnectLogin(p) PROVE AttemptsCounted'
    BY <1>10 DEF ConnectLogin, At, Goto, LoginFails, CloseStop, CloseConn, Record
  <1>11. ASSUME NEW p \in Procs, ConnectPing(p) PROVE AttemptsCounted'
    BY <1>11 DEF ConnectPing, At, Goto, LoginFails, CloseStop, CloseConn, Record,
       ConnectReturn, Unlock
  <1>12. ASSUME NEW p \in Procs, ConnectAwaitDone(p) PROVE AttemptsCounted'
    BY <1>12 DEF ConnectAwaitDone, At, Goto, ConnectReturn, Unlock
  <1>13. ASSUME NEW p \in Procs, SendLock(p) PROVE AttemptsCounted'
    BY <1>13 DEF SendLock, At, Goto, Lock
  <1>14. ASSUME NEW p \in Procs, SendWrite(p) PROVE AttemptsCounted'
    BY <1>14 DEF SendWrite, At, Goto, Unlock
  <1>15. ASSUME NEW p \in Procs, SendWait(p) PROVE AttemptsCounted'
    BY <1>15 DEF SendWait, At, Goto, Unlock
  <1>16. ASSUME NEW p \in Procs, Disconnect(p) PROVE AttemptsCounted'
    BY <1>16 DEF Disconnect, At, Goto, CloseStop, CloseConn
  <1>17. ASSUME NEW p \in Procs, DisconnectReturn(p) PROVE AttemptsCounted'
    BY <1>17 DEF DisconnectReturn, At, Goto
  <1>18. ASSUME NEW c \in Conns, DispatcherStop(c) PROVE AttemptsCounted'
    BY <1>18 DEF DispatcherStop, DispGoto
  <1>19. ASSUME NEW c \in Conns, DispatcherEvent(c) PROVE AttemptsCounted'
    BY <1>19 DEF DispatcherEvent, DispGoto
  <1>20. ASSUME NEW c \in Conns, DispatcherHandle(c) PROVE AttemptsCounted'
    BY <1>20 DEF DispatcherHandle, DispGoto
  <1>21. ASSUME NEW c \in Conns, DispatcherExit(c) PROVE AttemptsCounted'
    BY <1>21 DEF DispatcherExit, DispGoto
  <1>22. ASSUME NEW c \in Conns, ReaderStart(c) PROVE AttemptsCounted'
    BY <1>22 DEF ReaderStart, ReaderGoto
  <1>23. ASSUME NEW c \in Conns, ReaderTop(c) PROVE AttemptsCounted'
    BY <1>23 DEF ReaderTop, ReaderGoto
  <1>24. ASSUME NEW c \in Conns, ReaderCheck(c) PROVE AttemptsCounted'
    BY <1>24 DEF ReaderCheck, ReaderGoto
  <1>25. ASSUME NEW c \in Conns, ReaderDeliver(c) PROVE AttemptsCounted'
    BY <1>25 DEF ReaderDeliver, ReaderGoto
  <1>26. ASSUME NEW c \in Conns, ReaderRead(c) PROVE AttemptsCounted'
    BY <1>26 DEF ReaderRead, ReaderGoto
  <1>27. ASSUME NEW c \in Conns, ReaderCleanup(c) PROVE AttemptsCounted'
    BY <1>27 DEF ReaderCleanup, ReaderGoto, CloseConn
  <1>28. CASE UNCHANGED vars
    BY <1>28 DEF vars
  <1> QED
    BY <1>1, <1>4, <1>5, <1>6, <1>7, <1>8, <1>9, <1>10, <1>11, <1>12, <1>13,
       <1>14, <1>15, <1>16, <1>17, <1>18, <1>19, <1>20, <1>21, <1>22, <1>23, <1>24, <1>25,
       <1>26, <1>27, <1>28
    DEF Next, Begin, ProcStep, DispatcherStep, ReaderStep

(* Whoever closes or replaces the connection clears connected, or finds it *)
(* cleared.                                                                *)
LEMMA OpenInductive == TypeOK /\ DialsWhileDown /\ ConnectedIsOpen /\
    [Next]_vars => ConnectedIsOpen'
  <1> SUFFICES ASSUME TypeOK, DialsWhileDown, ConnectedIsOpen, [Next]_vars
               PROVE  ConnectedIsOpen'
    OBVIOUS
  <1> USE ClientAssumption DEF TypeOK, DialsWhileDown, ConnectedIsOpen, Dialling, Conns,
      client, channels, responses, loops, counts
  <1>1. ASSUME NEW p \in Procs, BeginConnect(p) PROVE ConnectedIsOpen'
    BY <1>1 DEF BeginConnect, At, Goto
  <1>4. ASSUME NEW p \in Procs, ConnectLock(p) PROVE ConnectedIsOpen'
    BY <1>4 DEF ConnectLock, At, Goto
  <1>5. ASSUME NEW p \in Procs, ConnectCheck(p) PROVE ConnectedIsOpen'
    BY <1>5 DEF ConnectCheck, At, Goto
  <1>6. ASSUME NEW p \in Procs, ConnectEnter(p) PROVE ConnectedIsOpen'
    BY <1>6 DEF ConnectEnter, At, Goto, CloseStop, CloseConn
  <1>7. ASSUME NEW p \in Procs, ConnectNewChannels(p) PROVE ConnectedIsOpen'
    BY <1>7 DEF ConnectNewChannels, At, Goto
  <1>8. ASSUME NEW p \in Procs, ConnectDial(p) PROVE ConnectedIsOpen'
    BY <1>8 DEF ConnectDial, At, Goto, Record, ConnectReturn, Unlock
  <1>9. ASSUME NEW p \in Procs, ConnectBanner(p) PROVE ConnectedIsOpen'
    BY <1>9 DEF ConnectBanner, At, Goto, Record, ConnectReturn, Unlock, DispGoto,
       ReaderGoto
  <1>10. ASSUME NEW p \in Procs, ConnectLogin(p) PROVE ConnectedIsOpen'
    BY <1>10 DEF ConnectLogin, At, Goto, LoginFails, CloseStop, CloseConn, Record
  <1>11. ASSUME NEW p \in Procs, ConnectPing(p) PROVE ConnectedIsOpen'
    BY <1>11 DEF ConnectPing, At, Goto, LoginFails, CloseStop, CloseConn, Record,
       ConnectReturn, Unlock
  <1>12. ASSUME NEW p \in Procs, ConnectAwaitDone(p) PROVE ConnectedIsOpen'
    BY <1>12 DEF ConnectAwaitDone, At, Goto, ConnectReturn, Unlock
  <1>13. ASSUME NEW p \in Procs, SendLock(p) PROVE ConnectedIsOpen'
    BY <1>13 DEF SendLock, At, Goto, Lock
  <1>14. ASSUME NEW p \in Procs, SendWrite(p) PROVE ConnectedIsOpen'
    BY <1>14 DEF SendWrite, At, Goto, Unlock
  <1>15. ASSUME NEW p \in Procs, SendWait(p) PROVE ConnectedIsOpen'
    BY <1>15 DEF SendWait, At, Goto, Unlock
  <1>16. ASSUME NEW p \in Procs, Disconnect(p) PROVE ConnectedIsOpen'
    BY <1>16 DEF Disconnect, At, Goto, CloseStop, CloseConn
  <1>17. ASSUME NEW p \in Procs, DisconnectReturn(p) PROVE ConnectedIsOpen'
    BY <1>17 DEF DisconnectReturn, At, Goto
  <1>18. ASSUME NEW c \in Conns, DispatcherStop(c) PROVE ConnectedIsOpen'
    BY <1>18 DEF DispatcherStop, DispGoto
  <1>19. ASSUME NEW c \in Conns, DispatcherEvent(c) PROVE ConnectedIsOpen'
    BY <1>19 DEF DispatcherEvent, DispGoto
  <1>20. ASSUME NEW c \in Conns, DispatcherHandle(c) PROVE ConnectedIsOpen'
    BY <1>20 DEF DispatcherHandle, DispGoto
  <1>21. ASSUME NEW c \in Conns, DispatcherExit(c) PROVE ConnectedIsOpen'
    BY <1>21 DEF DispatcherExit, DispGoto
  <1>22. ASSUME NEW c \in Conns, ReaderStart(c) PROVE ConnectedIsOpen'
    BY <1>22 DEF ReaderStart, ReaderGoto
  <1>23. ASSUME NEW c \in Conns, ReaderTop(c) PROVE ConnectedIsOpen'
    BY <1>23 DEF ReaderTop, ReaderGoto
  <1>24. ASSUME NEW c \in Conns, ReaderCheck(c) PROVE ConnectedIsOpen'
    BY <1>24 DEF ReaderCheck, ReaderGoto
  <1>25. ASSUME NEW c \in Conns, ReaderDeliver(c) PROVE ConnectedIsOpen'
    BY <1>25 DEF ReaderDeliver, ReaderGoto
  <1>26. ASSUME NEW c \in Conns, ReaderRead(c) PROVE ConnectedIsOpen'
    BY <1>26 DEF ReaderRead, ReaderGoto
  <1>27. ASSUME NEW c \in Conns, ReaderCleanup(c) PROVE ConnectedIsOpen'
    BY <1>27 DEF ReaderCleanup, ReaderGoto, CloseConn
  <1>28. CASE UNCHANGED vars
    BY <1>28 DEF vars
  <1> QED
    BY <1>1, <1>4, <1>5, <1>6, <1>7, <1>8, <1>9, <1>10, <1>11, <1>12, <1>13,
       <1>14, <1>15, <1>16, <1>17, <1>18, <1>19, <1>20, <1>21, <1>22, <1>23, <1>24, <1>25,
       <1>26, <1>27, <1>28
    DEF Next, Begin, ProcStep, DispatcherStep, ReaderStep

(* Whoever clears c.conn has closed it, and a dial finds none.             *)
LEMMA CurrentInductive == TypeOK /\ DialsFromNil /\ OpenIsCurrent /\
    [Next]_vars => OpenIsCurrent'
  <1> SUFFICES ASSUME TypeOK, DialsFromNil, OpenIsCurrent, [Next]_vars
               PROVE  OpenIsCurrent'
    OBVIOUS
  <1> USE ClientAssumption DEF TypeOK, DialsFromNil, OpenIsCurrent, Dialling, Conns, Nil,
      client, channels, responses, loops, counts
  <1>1. ASSUME NEW p \in Procs, BeginConnect(p) PROVE OpenIsCurrent'
    BY <1>1 DEF BeginConnect, At, Goto
  <1>4. ASSUME NEW p \in Procs, ConnectLock(p) PROVE OpenIsCurrent'
    BY <1>4 DEF ConnectLock, At, Goto
  <1>5. ASSUME NEW p \in Procs, ConnectCheck(p) PROVE OpenIsCurrent'
    BY <1>5 DEF ConnectCheck, At, Goto
  <1>6. ASSUME NEW p \in Procs, ConnectEnter(p) PROVE OpenIsCurrent'
    BY <1>6 DEF ConnectEnter, At, Goto, CloseStop, CloseConn
  <1>7. ASSUME NEW p \in Procs, ConnectNewChannels(p) PROVE OpenIsCurrent'
    BY <1>7 DEF ConnectNewChannels, At, Goto
  <1>8. ASSUME NEW p \in Procs, ConnectDial(p) PROVE OpenIsCurrent'
    <2>1. conn = Nil /\ Nil \notin Conns
      BY <1>8 DEF ConnectDial, At
    <2>2. open = {}
      BY <2>1
    <2> QED BY <1>8, <2>2 DEF ConnectDial
  <1>9. ASSUME NEW p \in Procs, ConnectBanner(p) PROVE OpenIsCurrent'
    BY <1>9 DEF ConnectBanner, At, Goto, Record, ConnectReturn, Unlock, DispGoto,
       ReaderGoto
  <1>10. ASSUME NEW p \in Procs, ConnectLogin(p) PROVE OpenIsCurrent'
    BY <1>10 DEF ConnectLogin, At, Goto, LoginFails, CloseStop, CloseConn, Record
  <1>11. ASSUME NEW p \in Procs, ConnectPing(p) PROVE OpenIsCurrent'
    BY <1>11 DEF ConnectPing, At, Goto, LoginFails, CloseStop, CloseConn, Record,
       ConnectReturn, Unlock
  <1>12. ASSUME NEW p \in Procs, ConnectAwaitDone(p) PROVE OpenIsCurrent'
    BY <1>12 DEF ConnectAwaitDone, At, Goto, ConnectReturn, Unlock
  <1>13. ASSUME NEW p \in Procs, SendLock(p) PROVE OpenIsCurrent'
    BY <1>13 DEF SendLock, At, Goto, Lock
  <1>14. ASSUME NEW p \in Procs, SendWrite(p) PROVE OpenIsCurrent'
    BY <1>14 DEF SendWrite, At, Goto, Unlock
  <1>15. ASSUME NEW p \in Procs, SendWait(p) PROVE OpenIsCurrent'
    BY <1>15 DEF SendWait, At, Goto, Unlock
  <1>16. ASSUME NEW p \in Procs, Disconnect(p) PROVE OpenIsCurrent'
    BY <1>16 DEF Disconnect, At, Goto, CloseStop, CloseConn
  <1>17. ASSUME NEW p \in Procs, DisconnectReturn(p) PROVE OpenIsCurrent'
    BY <1>17 DEF DisconnectReturn, At, Goto
  <1>18. ASSUME NEW c \in Conns, DispatcherStop(c) PROVE OpenIsCurrent'
    BY <1>18 DEF DispatcherStop, DispGoto
  <1>19. ASSUME NEW c \in Conns, DispatcherEvent(c) PROVE OpenIsCurrent'
    BY <1>19 DEF DispatcherEvent, DispGoto
  <1>20. ASSUME NEW c \in Conns, DispatcherHandle(c) PROVE OpenIsCurrent'
    BY <1>20 DEF DispatcherHandle, DispGoto
  <1>21. ASSUME NEW c \in Conns, DispatcherExit(c) PROVE OpenIsCurrent'
    BY <1>21 DEF DispatcherExit, DispGoto
  <1>22. ASSUME NEW c \in Conns, ReaderStart(c) PROVE OpenIsCurrent'
    BY <1>22 DEF ReaderStart, ReaderGoto
  <1>23. ASSUME NEW c \in Conns, ReaderTop(c) PROVE OpenIsCurrent'
    BY <1>23 DEF ReaderTop, ReaderGoto
  <1>24. ASSUME NEW c \in Conns, ReaderCheck(c) PROVE OpenIsCurrent'
    BY <1>24 DEF ReaderCheck, ReaderGoto
  <1>25. ASSUME NEW c \in Conns, ReaderDeliver(c) PROVE OpenIsCurrent'
    BY <1>25 DEF ReaderDeliver, ReaderGoto
  <1>26. ASSUME NEW c \in Conns, ReaderRead(c) PROVE OpenIsCurrent'
    BY <1>26 DEF ReaderRead, ReaderGoto
  <1>27. ASSUME NEW c \in Conns, ReaderCleanup(c) PROVE OpenIsCurrent'
    BY <1>27 DEF ReaderCleanup, ReaderGoto, CloseConn
  <1>28. CASE UNCHANGED vars
    BY <1>28 DEF vars
  <1> QED
    BY <1>1, <1>4, <1>5, <1>6, <1>7, <1>8, <1>9, <1>10, <1>11, <1>12, <1>13,
       <1>14, <1>15, <1>16, <1>17, <1>18, <1>19, <1>20, <1>21, <1>22, <1>23, <1>24, <1>25,
       <1>26, <1>27, <1>28
    DEF Next, Begin, ProcStep, DispatcherStep, ReaderStep

-----------------------------------------------------------------------------
(* The inductive invariant holds.                                          *)
LEMMA IInvInit == Init => IInv
  <1> SUFFICES ASSUME Init PROVE IInv
    OBVIOUS
  <1> USE ClientAssumption DEF Init
  <1>1. TypeOK
    <2>1. CountsType
      BY DEF CountsType, Gens
    <2>2. PartsType
      <3>1. pc \in [Procs -> CallerSteps] /\ disp \in [Conns -> DispSteps]
        BY DEF CallerSteps, DispSteps
      <3>2. dispGen \in [Conns -> Gens] /\ reader \in [Conns -> ReaderSteps]
        BY DEF Gens, ReaderSteps
      <3>3. /\ readerConn \in [Conns -> Conns \cup {Nil}]
            /\ message \in [Conns -> ActionIDs \cup {NoID}]
        OBVIOUS
      <3>4. eventChan \in 0..EventCap
        OBVIOUS
      <3>5. open \subseteq Conns /\ stopClosed \subseteq Gens /\ doneClosed \subseteq Gens
        OBVIOUS
      <3>6. /\ filled \subseteq responseChans /\ responseChans \subseteq ActionIDs
            /\ actionID \in [Procs -> ActionIDs \cup {NoID}]
        OBVIOUS
      <3>7. socket \subseteq Conns \X ActionIDs
        OBVIOUS
      <3>8. connected \in BOOLEAN /\ panicked \in BOOLEAN
        OBVIOUS
      <3>9. /\ mu \in Procs \cup {NoProc} /\ connectionLock \in Procs \cup {NoProc}
            /\ conn \in Conns \cup {Nil}
        OBVIOUS
      <3> QED BY <3>1, <3>2, <3>3, <3>4, <3>5, <3>6, <3>7, <3>8, <3>9 DEF PartsType
    <2> QED BY <2>1, <2>2, TypeParts
  <1>2. MuHolder /\ LockHolder /\ DialsWhileDown /\ DialsFromNil /\ AttemptsCounted
    BY DEF MuHolder, LockHolder, DialsWhileDown, DialsFromNil, AttemptsCounted,
           UnderMu, UnderLock, BeforeDial, BeforeChannels, Dialling
  <1>3. GensPending
    <2>1. CallersAt(BeforeChannels) = {}
      BY DEF CallersAt, BeforeChannels
    <2> QED BY <2>1, FS_EmptySet DEF GensPending
  <1>4. DialsPending
    <2>1. CallersAt(BeforeDial) = {}
      BY DEF CallersAt, BeforeDial, BeforeChannels
    <2> QED BY <2>1, FS_EmptySet DEF DialsPending
  <1>5. AttemptsRecorded
    <2>1. {p \in Procs : pc[p] \in Dialling} = {}
      BY DEF Dialling
    <2> QED BY <2>1, FS_EmptySet DEF AttemptsRecorded
  <1>6. ConnectedIsOpen /\ OpenIsCurrent
    BY DEF ConnectedIsOpen, OpenIsCurrent
  <1> QED BY <1>1, <1>2, <1>3, <1>4, <1>5, <1>6 DEF IInv

(* IInv holds in every state of the client.                                *)
THEOREM ClientInvariant == Spec => []IInv
  <1>1. IInv /\ [Next]_vars => IInv'
    <2> SUFFICES ASSUME IInv, [Next]_vars PROVE IInv'
      OBVIOUS
    <2>1. CountsType' /\ PartsType'
      BY CountsInductive, PartsInductive, TypeParts DEF IInv
    <2>2. TypeOK'
      BY <2>1 DEF TypeOK, CountsType, PartsType, CallerSteps, DispSteps, ReaderSteps
    <2>3. MuHolder' /\ LockHolder' /\ DialsWhileDown' /\ DialsFromNil' /\ AttemptsCounted'
      BY MuInductive, LockInductive, DownInductive, NilInductive, CountedInductive DEF IInv
    <2>4. /\ GensPending' /\ DialsPending' /\ AttemptsRecorded'
          /\ ConnectedIsOpen' /\ OpenIsCurrent'
      BY GensInductive, DialsInductive, RecordedInductive, OpenInductive, CurrentInductive
      DEF IInv
    <2> QED BY <2>2, <2>3, <2>4 DEF IInv
  <1> QED BY IInvInit, <1>1, PTL DEF Spec

(* Every variable of the client keeps its type: an attempt of connectImpl  *)
(* makes no more than one pair of channels and one connection, so they are *)
(* bounded by the attempts.                                                *)
THEOREM TypeCorrect == Spec => []TypeOK
  <1>1. IInv => TypeOK
    BY DEF IInv
  <1> QED BY ClientInvariant, <1>1, PTL

(* A client that says it is connected has an open connection, whichever    *)
(* read loops, old ones included, clean up: they and Disconnect clear      *)
(* c.connected under the c.mu under which they close c.conn.               *)
THEOREM ConnectedMeansOpen == Spec => []ConnectedIsOpen
  <1>1. IInv => ConnectedIsOpen
    BY DEF IInv
  <1> QED BY ClientInvariant, <1>1, PTL

(* No open connection is lost, for any number of callers, attempts and     *)
(* read loops: c.conn is set only by the holder of c.mu that has found it  *)
(* nil, and cleared only by who has closed it.                             *)
THEOREM NoConnectionLost == Spec => []OpenIsCurrent
  <1>1. IInv => OpenIsCurrent
    BY DEF IInv
  <1> QED BY ClientInvariant, <1>1, PTL

(* The circuit breaker hears exactly once of every attempt it allowed, on  *)
(* every path through connectImpl and for any number of callers.           *)
THEOREM BreakerHearsOnce == Spec => []AttemptsRecorded
  <1>1. IInv => AttemptsRecorded
    BY DEF IInv
  <1> QED BY ClientInvariant, <1>1, PTL

=============================================================================
