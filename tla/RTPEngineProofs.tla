-------------------------- MODULE RTPEngineProofs --------------------------
(***************************************************************************)
(* Theorems about RTPEngine for any number of callers, cookies and dials:  *)
(* what goroutines that share r.conn can and cannot do to each other.      *)
(***************************************************************************)
EXTENDS RTPEngine, TLAPS

Steps == {"idle", "dial", "encode", "write", "load", "read", "close"}

(* Between the dial and the deferred close the caller has a socket of its  *)
(* own, though r.conn need not be it any more.                             *)
Dialled(p) == pc[p] \in {"encode", "write", "load", "read", "close"}

Results == {"none", "undialled", "unencoded", "unsent", "timeout", "ok", "error"} \cup Disturbed

EngineType ==
    /\ dials \in Nat
    /\ conn \in 0..dials
    /\ pc \in [Callers -> Steps]
    /\ own \in [Callers -> 0..dials]
    /\ socket \in [Callers -> 0..dials]
    /\ answer \in [Callers -> 0..dials]
    /\ result \in [Callers -> Results]
    /\ cookie \in Seq(Cookies) /\ Len(cookie) = dials
    /\ packets \subseteq [socket : 1..dials, request : 1..dials]
    /\ overlapped \subseteq Callers

(* No socket leaks: the one in r.conn is the only one ever open, and what  *)
(* is on its way is on its way to it.                                      *)
OnlyConnOpen ==
    /\ open = {conn} \ {Nil}
    /\ \A k \in packets : k.socket = conn

(* Callers that run at the same time know it from the history.             *)
OverlapRecorded ==
    \A p, q \in Callers : p # q /\ pc[p] # "idle" /\ pc[q] # "idle" => p \in overlapped

(* While a caller runs alone r.conn is the socket it dialled, it has       *)
(* loaded no other, and nothing but its own command is on its way.         *)
AloneOwnsConn ==
    \A p \in Callers : p \notin overlapped /\ Dialled(p) =>
        /\ conn = own[p]
        /\ pc[p] \in {"write", "read"} => socket[p] = own[p]
        /\ \A k \in packets : k.request = own[p]

(* A request has its outcome only when it ends, and a socket and an answer *)
(* by the time it needs them.                                              *)
Progress ==
    \A p \in Callers :
        /\ pc[p] \notin {"idle", "close"} => result[p] = "none"
        /\ Dialled(p) => own[p] # Nil
        /\ result[p] = "ok" => own[p] # Nil /\ answer[p] # Nil

IInv == /\ EngineType /\ OnlyConnOpen /\ OverlapRecorded /\ AloneOwnsConn /\ Progress
        /\ UndisturbedWhenAlone /\ OwnAnswer

-----------------------------------------------------------------------------

(* Drawing the cookie of a new request leaves the others' as they are.     *)
LEMMA AppendKeeps ==
    ASSUME NEW S, NEW s \in Seq(S), NEW e \in S
    PROVE  /\ Append(s, e) \in Seq(S) /\ Len(Append(s, e)) = Len(s) + 1
           /\ \A i \in 1..Len(s) : Append(s, e)[i] = s[i]
  OBVIOUS

(* Every step of Request, of its deferred close and of Close keeps the     *)
(* client's fields and the callers' locals in their types.                 *)
LEMMA TypeInductive == EngineType /\ OnlyConnOpen /\ Progress /\ [Next]_vars => EngineType'
  <1> SUFFICES ASSUME EngineType, OnlyConnOpen, Progress, [Next]_vars
               PROVE  EngineType'
    OBVIOUS
  <1> USE EngineAssumption
      DEF EngineType, OnlyConnOpen, Progress, Dialled, Steps, Results, Disturbed, Nil,
          Goto, Running, calls
  <1>1. ASSUME NEW p \in Callers, Begin(p) PROVE EngineType'
    BY <1>1 DEF Begin
  <1>2. ASSUME NEW p \in Callers, EnsureConnection(p) PROVE EngineType'
    <2>1. CASE UNCHANGED <<dials, own, cookie>>
      <3>1. packets' \subseteq packets
        BY <1>2 DEF EnsureConnection
      <3>2. conn' \in 0..dials /\ UNCHANGED <<socket, answer, overlapped>>
        BY <1>2, <2>1 DEF EnsureConnection
      <3>3. result' \in [Callers -> Results] /\ pc' \in [Callers -> Steps]
        BY <1>2 DEF EnsureConnection
      <3> QED BY <2>1, <3>1, <3>2, <3>3
    <2>2. CASE dials' = dials + 1 /\ conn' = dials + 1
               /\ own' = [own EXCEPT ![p] = dials + 1] /\ Goto(p, "encode")
               /\ (\E k \in Cookies : cookie' = Append(cookie, k)) /\ UNCHANGED result
      <3>1. PICK k \in Cookies : cookie' = Append(cookie, k)
        BY <1>2, <2>2 DEF EnsureConnection
      <3>2. cookie' \in Seq(Cookies) /\ Len(cookie') = dials + 1
        BY <3>1, AppendKeeps
      <3>3. 0..dials \subseteq 0..(dials + 1) /\ 1..dials \subseteq 1..(dials + 1)
        OBVIOUS
      <3>4. packets' \subseteq [socket : 1..dials', request : 1..dials']
        <4>1. packets' \subseteq packets
          BY <1>2 DEF EnsureConnection
        <4> QED BY <2>2, <3>3, <4>1
      <3>5. /\ own' \in [Callers -> 0..dials'] /\ socket' \in [Callers -> 0..dials']
            /\ answer' \in [Callers -> 0..dials']
        BY <1>2, <2>2, <3>3 DEF EnsureConnection
      <3> QED
        BY <1>2, <2>2, <3>2, <3>4, <3>5 DEF EnsureConnection
    <2> QED BY <1>2, <2>1, <2>2 DEF EnsureConnection
  <1>3. ASSUME NEW p \in Callers, Encode(p) PROVE EngineType'
    BY <1>3 DEF Encode, Return
  <1>4. ASSUME NEW p \in Callers, Write(p) PROVE EngineType'
    <2>1. CASE /\ socket[p] \in open
               /\ packets' = packets \cup {[socket |-> socket[p], request |-> own[p]]}
               /\ Goto(p, "load")
               /\ UNCHANGED result
      <3>1. pc[p] = "write" /\ UNCHANGED <<conn, dials, own, socket, cookie, answer, overlapped>>
        BY <1>4 DEF Write
      <3>2. socket[p] \in 1..dials /\ own[p] \in 1..dials
        BY <2>1, <3>1
      <3> QED BY <2>1, <3>1, <3>2
    <2>2. ASSUME NEW r \in {"closed", "unsent"}, Return(p, r), UNCHANGED packets
          PROVE  EngineType'
      BY <1>4, <2>2 DEF Write, Return
    <2> QED BY <1>4, <2>1, <2>2 DEF Write
  <1>5. ASSUME NEW p \in Callers, Load(p) PROVE EngineType'
    BY <1>5 DEF Load, Return
  <1>6. ASSUME NEW p \in Callers, Read(p) PROVE EngineType'
    <2>1. packets' \subseteq packets
      BY <1>6 DEF Read
    <2>2. answer' \in [Callers -> 0..dials]
      <3>1. answer' = answer \/ \E k \in packets : answer' = [answer EXCEPT ![p] = k.request]
        BY <1>6 DEF Read, Accept
      <3>2. \A k \in packets : k.request \in 0..dials
        OBVIOUS
      <3> QED BY <3>1, <3>2
    <2>3. result' \in [Callers -> Results] /\ pc' \in [Callers -> Steps]
      BY <1>6 DEF Read, Accept, Return
    <2> QED BY <1>6, <2>1, <2>2, <2>3 DEF Read
  <1>7. ASSUME NEW p \in Callers, Finish(p) PROVE EngineType'
    BY <1>7 DEF Finish, CloseSocket
  <1>8. CASE Close
    BY <1>8 DEF Close, CloseSocket
  <1>9. CASE UNCHANGED vars
    BY <1>9 DEF vars
  <1> QED
    BY <1>1, <1>2, <1>3, <1>4, <1>5, <1>6, <1>7, <1>8, <1>9 DEF Next

(* ensureConnection closes the socket it replaces and the deferred         *)
(* function the one it finds, so that no step leaves a second one open.    *)
LEMMA OpenInductive == EngineType /\ OnlyConnOpen /\ [Next]_vars => OnlyConnOpen'
  <1> SUFFICES ASSUME EngineType, OnlyConnOpen, [Next]_vars
               PROVE  OnlyConnOpen'
    OBVIOUS
  <1> USE EngineAssumption DEF EngineType, OnlyConnOpen, Nil, calls
  <1>1. ASSUME NEW p \in Callers, Begin(p) PROVE OnlyConnOpen'
    BY <1>1 DEF Begin
  <1>2. ASSUME NEW p \in Callers, EnsureConnection(p) PROVE OnlyConnOpen'
    BY <1>2 DEF EnsureConnection
  <1>3. ASSUME NEW p \in Callers, Encode(p) PROVE OnlyConnOpen'
    BY <1>3 DEF Encode, Return
  <1>4. ASSUME NEW p \in Callers, Write(p) PROVE OnlyConnOpen'
    BY <1>4 DEF Write, Return
  <1>5. ASSUME NEW p \in Callers, Load(p) PROVE OnlyConnOpen'
    BY <1>5 DEF Load, Return
  <1>6. ASSUME NEW p \in Callers, Read(p) PROVE OnlyConnOpen'
    BY <1>6 DEF Read, Return, Accept
  <1>7. ASSUME NEW p \in Callers, Finish(p) PROVE OnlyConnOpen'
    BY <1>7 DEF Finish, CloseSocket
  <1>8. CASE Close
    BY <1>8 DEF Close, CloseSocket
  <1>9. CASE UNCHANGED vars
    BY <1>9 DEF vars
  <1> QED
    BY <1>1, <1>2, <1>3, <1>4, <1>5, <1>6, <1>7, <1>8, <1>9 DEF Next

(* A caller that starts while others run is recorded as overlapping, and   *)
(* they are; the record is taken back only by one that starts alone.       *)
LEMMA OverlapInductive == EngineType /\ OverlapRecorded /\ [Next]_vars => OverlapRecorded'
  <1> SUFFICES ASSUME EngineType, OverlapRecorded, [Next]_vars
               PROVE  OverlapRecorded'
    OBVIOUS
  <1> USE EngineAssumption DEF EngineType, OverlapRecorded, Goto, Running, calls, Steps
  <1>1. ASSUME NEW p \in Callers, Begin(p) PROVE OverlapRecorded'
    BY <1>1 DEF Begin
  <1>2. ASSUME NEW p \in Callers, EnsureConnection(p) PROVE OverlapRecorded'
    BY <1>2 DEF EnsureConnection
  <1>3. ASSUME NEW p \in Callers, Encode(p) PROVE OverlapRecorded'
    BY <1>3 DEF Encode, Return
  <1>4. ASSUME NEW p \in Callers, Write(p) PROVE OverlapRecorded'
    BY <1>4 DEF Write, Return
  <1>5. ASSUME NEW p \in Callers, Load(p) PROVE OverlapRecorded'
    BY <1>5 DEF Load, Return
  <1>6. ASSUME NEW p \in Callers, Read(p) PROVE OverlapRecorded'
    BY <1>6 DEF Read, Return, Accept
  <1>7. ASSUME NEW p \in Callers, Finish(p) PROVE OverlapRecorded'
    BY <1>7 DEF Finish, CloseSocket
  <1>8. CASE Close
    BY <1>8 DEF Close, CloseSocket
  <1>9. CASE UNCHANGED vars
    BY <1>9 DEF vars
  <1> QED
    BY <1>1, <1>2, <1>3, <1>4, <1>5, <1>6, <1>7, <1>8, <1>9 DEF Next

(* No step of another caller, nor of Close, changes r.conn or the packets  *)
(* under a caller that still counts as alone.                              *)
LEMMA AloneInductive ==
    EngineType /\ OnlyConnOpen /\ OverlapRecorded /\ Progress /\ AloneOwnsConn /\ [Next]_vars
        => AloneOwnsConn'
  <1> SUFFICES ASSUME EngineType, OnlyConnOpen, OverlapRecorded, Progress, AloneOwnsConn,
                      [Next]_vars
               PROVE  AloneOwnsConn'
    OBVIOUS
  <1> USE EngineAssumption DEF EngineType, OnlyConnOpen, OverlapRecorded, Progress, AloneOwnsConn,
          Dialled, Goto, Running, calls, Nil, Steps
  <1>1. ASSUME NEW p \in Callers, Begin(p) PROVE AloneOwnsConn'
    BY <1>1 DEF Begin
  <1>2. ASSUME NEW p \in Callers, EnsureConnection(p) PROVE AloneOwnsConn'
    BY <1>2 DEF EnsureConnection
  <1>3. ASSUME NEW p \in Callers, Encode(p) PROVE AloneOwnsConn'
    BY <1>3 DEF Encode, Return
  <1>4. ASSUME NEW p \in Callers, Write(p) PROVE AloneOwnsConn'
    <2>1. ASSUME NEW q \in Callers, q \notin overlapped, Dialled(q)', NEW k \in packets'
          PROVE  k.request = own[q]
      <3>1. Dialled(q) /\ q = p
        BY <1>4, <2>1 DEF Write, Return
      <3>2. k \in packets \/ k.request = own[p]
        BY <1>4 DEF Write
      <3> QED BY <2>1, <3>1, <3>2
    <2> QED BY <1>4, <2>1 DEF Write, Return
  <1>5. ASSUME NEW p \in Callers, Load(p) PROVE AloneOwnsConn'
    BY <1>5 DEF Load, Return
  <1>6. ASSUME NEW p \in Callers, Read(p) PROVE AloneOwnsConn'
    BY <1>6 DEF Read, Return, Accept
  <1>7. ASSUME NEW p \in Callers, Finish(p) PROVE AloneOwnsConn'
    BY <1>7 DEF Finish, CloseSocket
  <1>8. CASE Close
    BY <1>8 DEF Close, CloseSocket
  <1>9. CASE UNCHANGED vars
    BY <1>9 DEF vars
  <1> QED
    BY <1>1, <1>2, <1>3, <1>4, <1>5, <1>6, <1>7, <1>8, <1>9 DEF Next

(* The steps of Request come in the order of its code.                     *)
LEMMA ProgressInductive == EngineType /\ Progress /\ [Next]_vars => Progress'
  <1> SUFFICES ASSUME EngineType, Progress, [Next]_vars
               PROVE  Progress'
    OBVIOUS
  <1> USE EngineAssumption DEF EngineType, Progress, Dialled, Goto, calls, Nil, Steps, Running
  <1>1. ASSUME NEW p \in Callers, Begin(p) PROVE Progress'
    BY <1>1 DEF Begin
  <1>2. ASSUME NEW p \in Callers, EnsureConnection(p) PROVE Progress'
    BY <1>2 DEF EnsureConnection
  <1>3. ASSUME NEW p \in Callers, Encode(p) PROVE Progress'
    BY <1>3 DEF Encode, Return
  <1>4. ASSUME NEW p \in Callers, Write(p) PROVE Progress'
    BY <1>4 DEF Write, Return
  <1>5. ASSUME NEW p \in Callers, Load(p) PROVE Progress'
    BY <1>5 DEF Load, Return
  <1>6. ASSUME NEW p \in Callers, Read(p) PROVE Progress'
    BY <1>6 DEF Read, Return, Accept
  <1>7. ASSUME NEW p \in Callers, Finish(p) PROVE Progress'
    BY <1>7 DEF Finish, CloseSocket
  <1>8. CASE Close
    BY <1>8 DEF Close, CloseSocket
  <1>9. CASE UNCHANGED vars
    BY <1>9 DEF vars
  <1> QED
    BY <1>1, <1>2, <1>3, <1>4, <1>5, <1>6, <1>7, <1>8, <1>9 DEF Next

(* The outcomes "closed", "mismatch" and "panic" of Write, Load and Read   *)
(* need a foreign socket or a foreign packet, which a caller that is alone *)
(* never has.                                                              *)
LEMMA UndisturbedInductive ==
    EngineType /\ OnlyConnOpen /\ OverlapRecorded /\ Progress /\ AloneOwnsConn
            /\ UndisturbedWhenAlone /\ [Next]_vars
        => UndisturbedWhenAlone'
  <1> SUFFICES ASSUME EngineType, OnlyConnOpen, OverlapRecorded, Progress, AloneOwnsConn,
                      UndisturbedWhenAlone, [Next]_vars
               PROVE  UndisturbedWhenAlone'
    OBVIOUS
  <1> USE EngineAssumption DEF EngineType, OnlyConnOpen, OverlapRecorded, Progress, AloneOwnsConn,
          UndisturbedWhenAlone, Disturbed, Dialled, Goto, Running, calls, Nil, Steps
  <1>1. ASSUME NEW p \in Callers, Begin(p) PROVE UndisturbedWhenAlone'
    BY <1>1 DEF Begin
  <1>2. ASSUME NEW p \in Callers, EnsureConnection(p) PROVE UndisturbedWhenAlone'
    BY <1>2 DEF EnsureConnection
  <1>3. ASSUME NEW p \in Callers, Encode(p) PROVE UndisturbedWhenAlone'
    BY <1>3 DEF Encode, Return
  <1>4. ASSUME NEW p \in Callers, Write(p) PROVE UndisturbedWhenAlone'
    BY <1>4 DEF Write, Return
  <1>5. ASSUME NEW p \in Callers, Load(p) PROVE UndisturbedWhenAlone'
    BY <1>5 DEF Load, Return
  <1>6. ASSUME NEW p \in Callers, Read(p) PROVE UndisturbedWhenAlone'
    BY <1>6 DEF Read, Return, Accept
  <1>7. ASSUME NEW p \in Callers, Finish(p) PROVE UndisturbedWhenAlone'
    BY <1>7 DEF Finish, CloseSocket
  <1>8. CASE Close
    BY <1>8 DEF Close, CloseSocket
  <1>9. CASE UNCHANGED vars
    BY <1>9 DEF vars
  <1> QED
    BY <1>1, <1>2, <1>3, <1>4, <1>5, <1>6, <1>7, <1>8, <1>9 DEF Next

(* The comparison of the cookies in Read is all that ties an answer to its *)
(* request once callers overlap; a later cookie never changes it.          *)
LEMMA OwnAnswerInductive ==
    EngineType /\ Progress /\ AloneOwnsConn /\ OwnAnswer /\ [Next]_vars => OwnAnswer'
  <1> SUFFICES ASSUME EngineType, Progress, AloneOwnsConn, OwnAnswer, [Next]_vars
               PROVE  OwnAnswer'
    OBVIOUS
  <1> USE EngineAssumption
      DEF EngineType, Progress, AloneOwnsConn, OwnAnswer, Dialled, Goto, Running, calls, Nil, Steps
  <1>1. ASSUME NEW p \in Callers, Begin(p) PROVE OwnAnswer'
    BY <1>1 DEF Begin
  <1>2. ASSUME NEW p \in Callers, EnsureConnection(p) PROVE OwnAnswer'
    <2> SUFFICES ASSUME NEW q \in Callers, result'[q] = "ok", answer'[q] # own'[q]
                 PROVE  q \in overlapped' /\ cookie'[answer'[q]] = cookie'[own'[q]]
      BY DEF OwnAnswer
    <2>1. q # p /\ result[q] = "ok" /\ own'[q] = own[q] /\ answer'[q] = answer[q]
      BY <1>2 DEF EnsureConnection
    <2>2. own[q] \in 1..Len(cookie) /\ answer[q] \in 1..Len(cookie)
      BY <2>1
    <2>3. \A i \in 1..Len(cookie) : cookie'[i] = cookie[i]
      <3>1. cookie' = cookie \/ \E k \in Cookies : cookie' = Append(cookie, k)
        BY <1>2 DEF EnsureConnection
      <3>2. ASSUME NEW k \in Cookies, cookie' = Append(cookie, k)
            PROVE  \A i \in 1..Len(cookie) : cookie'[i] = cookie[i]
        BY <3>2, AppendKeeps
      <3> QED BY <3>1, <3>2
    <2> QED BY <1>2, <2>1, <2>2, <2>3 DEF EnsureConnection
  <1>3. ASSUME NEW p \in Callers, Encode(p) PROVE OwnAnswer'
    BY <1>3 DEF Encode, Return
  <1>4. ASSUME NEW p \in Callers, Write(p) PROVE OwnAnswer'
    BY <1>4 DEF Write, Return
  <1>5. ASSUME NEW p \in Callers, Load(p) PROVE OwnAnswer'
    BY <1>5 DEF Load, Return
  <1>6. ASSUME NEW p \in Callers, Read(p) PROVE OwnAnswer'
    BY <1>6 DEF Read, Return, Accept
  <1>7. ASSUME NEW p \in Callers, Finish(p) PROVE OwnAnswer'
    BY <1>7 DEF Finish, CloseSocket
  <1>8. CASE Close
    BY <1>8 DEF Close, CloseSocket
  <1>9. CASE UNCHANGED vars
    BY <1>9 DEF vars
  <1> QED
    BY <1>1, <1>2, <1>3, <1>4, <1>5, <1>6, <1>7, <1>8, <1>9 DEF Next

-----------------------------------------------------------------------------
(* What the callers' interleavings keep, from which both properties of the *)
(* client follow; OnlyConnOpen says in passing that Request never leaks a  *)
(* socket, and OverlapRecorded that the history misses no overlap.         *)
THEOREM EngineInvariant == Spec => []IInv
  <1>1. Init => IInv
    BY EngineAssumption DEF Init, IInv, EngineType, OnlyConnOpen, OverlapRecorded, AloneOwnsConn,
       Progress, UndisturbedWhenAlone, OwnAnswer, Dialled, Steps, Results, Disturbed, Nil
  <1>2. IInv /\ [Next]_vars => IInv'
    BY TypeInductive, OpenInductive, OverlapInductive, AloneInductive, ProgressInductive,
       UndisturbedInductive, OwnAnswerInductive DEF IInv
  <1> QED
    BY <1>1, <1>2, PTL DEF Spec

(* A request that meets no other on its engine, nor Close, never fails     *)
(* because of r.conn: for any number of callers and of requests before it. *)
THEOREM AloneUndisturbed == Spec => []UndisturbedWhenAlone
  <1>1. IInv => UndisturbedWhenAlone
    BY DEF IInv
  <1> QED
    BY <1>1, EngineInvariant, PTL

(* A request that succeeds has the answer to its own command, or one of a  *)
(* request it overlapped with that had drawn the same cookie.              *)
THEOREM AnswersOwn == Spec => []OwnAnswer
  <1>1. IInv => OwnAnswer
    BY DEF IInv
  <1> QED
    BY <1>1, EngineInvariant, PTL

(* Request never leaks a socket: whatever overlaps with whatever, the only *)
(* one open is the one in r.conn.                                          *)
THEOREM NoSocketLeaks == Spec => []OnlyConnOpen
  <1>1. IInv => OnlyConnOpen
    BY DEF IInv
  <1> QED
    BY <1>1, EngineInvariant, PTL

=============================================================================
