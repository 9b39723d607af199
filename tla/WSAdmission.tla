---------------------------- MODULE WSAdmission ----------------------------
(***************************************************************************)
(* The connection table of the WebSocket server, pkg/websocket/server.go:  *)
(* handleWebSocket from the capacity test to the session it starts, the    *)
(* circuit breaker it consults, the "ws:" keys it keeps in storage,        *)
(* cleanConnections and Stop.                                              *)
(*                                                                         *)
(* net/http runs every handler in a goroutine of its own and the handlers  *)
(* share the table and the breaker; each critical section and each storage *)
(* call is a step.  A session is handleClient with the goroutines it       *)
(* starts; module WSSession has their steps.  The breaker's calls are      *)
(* atomic here; module CircuitBreaker has theirs.                          *)
(***************************************************************************)
EXTENDS Naturals, FiniteSets

CONSTANTS
    Clients,            \* clients; one that is refused tries again
    MaxConnections,     \* config.MaxConnections
    FailureThreshold,   \* of the breaker
    HalfOpenMaxReqs

ASSUME AdmissionAssumption ==
    /\ IsFiniteSet(Clients)
    /\ {MaxConnections, FailureThreshold, HalfOpenMaxReqs} \subseteq Nat \ {0}

Outside == {"cleaner", "stop"}      \* who closes sessions besides themselves
Closers == Outside \cup {"session"}

VARIABLES
    pc,             \* where the handler of each client is
    overlapped,     \* history: clients that tested the capacity while others had
    connections,    \* s.connections
    stored,         \* clients whose "ws:" key is in storage
    breaker,        \* s.circuitBreaker
    leaked,         \* history: a probe of this half-open period is never recorded
    session,        \* the goroutine of handleClient
    helpers,        \* clients with a keepalive goroutine or a reader
    writing,        \* clients to which one of these writes, with closeMu held
    phase,          \* client.closed and how far closeConnection is
    closer,         \*   the caller that does it
    call,           \* whom the cleaner and Stop are closing: one client or none
    sweep,          \* clients Stop has yet to close
    stop,           \* progress of Stop
    late            \* history: some client registered after Stop took its snapshot

admission == <<pc, overlapped, breaker, leaked>>
table == <<connections, stored, late>>
life == <<session, helpers, writing, phase, closer, call>>
stopping == <<sweep, stop>>
vars == <<admission, table, life, stopping>>

HandlerSteps == {"new", "check", "allow", "upgrade", "register", "store", "spawn",
                 "record", "done"}

TypeOK ==
    /\ pc \in [Clients -> HandlerSteps]
    /\ overlapped \subseteq Clients
    /\ connections \subseteq Clients /\ stored \subseteq Clients
    /\ breaker \in [state: {"closed", "open", "halfOpen"},
                    failures: 0..FailureThreshold, reqs: 0..HalfOpenMaxReqs]
    /\ leaked \in BOOLEAN /\ late \in BOOLEAN
    /\ session \in [Clients -> {"none", "dial", "run", "return", "over"}]
    /\ helpers \subseteq Clients /\ writing \subseteq helpers
    /\ phase \in [Clients -> {"open", "remove", "key", "closed"}]
    /\ closer \in [Clients -> Closers \cup {"none"}]
    /\ call \in [Outside -> SUBSET Clients]
    /\ sweep \subseteq Clients
    /\ stop \in {"no", "shutdown", "closing", "wait", "done"}

Init ==
    /\ pc = [c \in Clients |-> "new"]
    /\ overlapped = {}
    /\ connections = {} /\ stored = {} /\ late = FALSE
    /\ breaker = [state |-> "closed", failures |-> 0, reqs |-> 0]
    /\ leaked = FALSE
    /\ session = [c \in Clients |-> "none"]
    /\ helpers = {} /\ writing = {}
    /\ phase = [c \in Clients |-> "open"]
    /\ closer = [c \in Clients |-> "none"]
    /\ call = [x \in Outside |-> {}]
    /\ sweep = {}
    /\ stop = "no"

Goto(c, step) == pc' = [pc EXCEPT ![c] = step]

(* Handlers between their capacity test and the table.                     *)
InFlight == {c \in Clients : pc[c] \in {"allow", "upgrade", "register"}}

-----------------------------------------------------------------------------
(* The circuit breaker                                                     *)

(* Mutant of Allows: one probe more than the limit passes.                 *)
AllowsOneMore ==
    \/ breaker.state = "closed" /\ UNCHANGED breaker
    \/ breaker.state = "open" /\ breaker' = [breaker EXCEPT !.state = "halfOpen", !.reqs = 1]
    \/ /\ breaker.state = "halfOpen" /\ breaker.reqs <= HalfOpenMaxReqs
       /\ breaker' = [breaker EXCEPT !.reqs = @ + 1]

(* AllowRequest lets the caller through; open becomes half-open once the   *)
(* reset timeout is over.                                                  *)
Allows ==
    \/ breaker.state = "closed" /\ UNCHANGED breaker
    \/ breaker.state = "open" /\ breaker' = [breaker EXCEPT !.state = "halfOpen", !.reqs = 1]
    \/ /\ breaker.state = "halfOpen" /\ breaker.reqs < HalfOpenMaxReqs
       /\ breaker' = [breaker EXCEPT !.reqs = @ + 1]

Refuses ==
    \/ breaker.state = "open"
    \/ breaker.state = "halfOpen" /\ breaker.reqs = HalfOpenMaxReqs

RecordSuccess ==
    breaker' = [breaker EXCEPT !.failures = 0,
                               !.state = IF @ = "halfOpen" THEN "closed" ELSE @]

(* Mutant of RecordFailure: a failed probe does not open the breaker.      *)
RecordFailureOfClosed ==
    LET n == IF breaker.failures < FailureThreshold THEN breaker.failures + 1
                                                    ELSE breaker.failures
    IN  breaker' = [breaker EXCEPT
                       !.failures = n,
                       !.state = IF @ = "closed" /\ n = FailureThreshold THEN "open" ELSE @]

RecordFailure ==
    LET n == IF breaker.failures < FailureThreshold THEN breaker.failures + 1
                                                    ELSE breaker.failures
    IN  breaker' = [breaker EXCEPT
                       !.failures = n,
                       !.state = IF @ = "halfOpen" \/ n = FailureThreshold THEN "open" ELSE @]

-----------------------------------------------------------------------------
(* handleWebSocket                                                         *)

(* A request arrives; Stop has closed the listener.                        *)
Accept(c) ==
    /\ pc[c] = "new"
    /\ stop = "no"
    /\ Goto(c, "check")
    /\ UNCHANGED <<overlapped, breaker, leaked, table, life, stopping>>

(* Mutant of CheckCapacity: one connection more than the limit passes.     *)
CheckCapacityInclusive(c) ==
    /\ pc[c] = "check"
    /\ Goto(c, IF Cardinality(connections) <= MaxConnections THEN "allow" ELSE "new")
    /\ overlapped' = IF InFlight = {} THEN overlapped \ {c} ELSE overlapped \cup {c}
    /\ UNCHANGED <<breaker, leaked, table, life, stopping>>

(* len(s.connections) is tested under the read lock, which is released.    *)
CheckCapacity(c) ==
    /\ pc[c] = "check"
    /\ Goto(c, IF Cardinality(connections) < MaxConnections THEN "allow" ELSE "new")
    /\ overlapped' = IF InFlight = {} THEN overlapped \ {c} ELSE overlapped \cup {c}
    /\ UNCHANGED <<breaker, leaked, table, life, stopping>>

(* A request that is no WebSocket upgrade returns after AllowRequest       *)
(* without recording an outcome.                                           *)
AllowRequest(c) ==
    /\ pc[c] = "allow"
    /\ \/ Allows /\ Goto(c, "upgrade") /\ leaked' = (leaked /\ breaker.state # "open")
       \/ Allows /\ Goto(c, "new") /\ leaked' = (leaked \/ breaker'.state = "halfOpen")
       \/ Refuses /\ Goto(c, "new") /\ UNCHANGED <<breaker, leaked>>
    /\ UNCHANGED <<overlapped, table, life, stopping>>

(* Upgrade takes over the connection, or the failure is recorded.  Which   *)
(* of the handlers' subprotocols the shared upgrader holds is left out.    *)
Upgrade(c) ==
    /\ pc[c] = "upgrade"
    /\ \/ Goto(c, "register") /\ UNCHANGED breaker
       \/ Goto(c, "new") /\ RecordFailure
    /\ UNCHANGED <<overlapped, leaked, table, life, stopping>>

(* The table gets the client, whatever its size is by now.                 *)
Register(c) ==
    /\ pc[c] = "register"
    /\ connections' = connections \cup {c}
    /\ late' = (late \/ stop \in {"closing", "wait", "done"})
    /\ Goto(c, "store")
    /\ UNCHANGED <<overlapped, breaker, leaked, stored, life, stopping>>

(* Mutant of StoreKey: the session is started before the key is stored.    *)
StoreKeyAfterSpawn(c) ==
    /\ pc[c] = "store"
    /\ \/ /\ session[c] = "none"
          /\ session' = [session EXCEPT ![c] = "dial"]
          /\ UNCHANGED <<stored, pc>>
       \/ /\ session[c] # "none"
          /\ stored' = stored \cup {c}
          /\ Goto(c, "record")
          /\ UNCHANGED session
    /\ UNCHANGED <<overlapped, breaker, leaked, connections, late, helpers, writing, phase,
                   closer, call, stopping>>

StoreKey(c) ==
    /\ pc[c] = "store"
    /\ stored' = stored \cup {c}
    /\ Goto(c, "spawn")
    /\ UNCHANGED <<overlapped, breaker, leaked, connections, late, life,
                   stopping>>

(* wg.Add(1) and the goroutine of the session.                             *)
Spawn(c) ==
    /\ pc[c] = "spawn"
    /\ session' = [session EXCEPT ![c] = "dial"]
    /\ Goto(c, "record")
    /\ UNCHANGED <<overlapped, breaker, leaked, table, helpers, writing, phase, closer, call,
                   stopping>>

(* The handshake counts as a success whatever becomes of the session.      *)
Record(c) ==
    /\ pc[c] = "record"
    /\ RecordSuccess
    /\ Goto(c, "done")
    /\ UNCHANGED <<overlapped, leaked, table, life, stopping>>

-----------------------------------------------------------------------------
(* closeConnection                                                         *)

(* Under closeMu, which a write to the client holds, the client is marked  *)
(* closed and its context is cancelled.  Only the first caller x goes on.  *)
CloseMark(x, c) ==
    /\ c \notin writing
    /\ phase' = [phase EXCEPT ![c] = IF @ = "open" THEN "remove" ELSE @]
    /\ closer' = [closer EXCEPT ![c] = IF phase[c] = "open" THEN x ELSE @]

(* The connections are closed and the client leaves the table.             *)
CloseRemove(c) ==
    /\ phase[c] = "remove"
    /\ connections' = connections \ {c}
    /\ phase' = [phase EXCEPT ![c] = "key"]
    /\ UNCHANGED <<admission, stored, late, session, helpers, writing, closer, call, stopping>>

CloseKey(c) ==
    /\ phase[c] = "key"
    /\ stored' = stored \ {c}
    /\ phase' = [phase EXCEPT ![c] = "closed"]
    /\ closer' = [closer EXCEPT ![c] = "none"]
    /\ call' = [x \in Outside |-> IF x = closer[c] THEN {} ELSE call[x]]
    /\ UNCHANGED <<admission, connections, late, session, helpers, writing, stopping>>

(* The cleaner or Stop marks the client it has come to.                    *)
CallMark(x, c) ==
    /\ c \in call[x]
    /\ closer[c] # x
    /\ CloseMark(x, c)
    /\ call' = [call EXCEPT ![x] = IF phase[c] = "open" THEN {c} ELSE {}]
    /\ UNCHANGED <<admission, table, session, helpers, writing, stopping>>

(* cleanConnections comes to a client that was silent for 30 minutes,      *)
(* which one without a session never was.                                  *)
CleanConnections(c) ==
    /\ stop # "done"
    /\ call["cleaner"] = {}
    /\ c \in connections
    /\ session[c] \notin {"none", "over"}
    /\ call' = [call EXCEPT !["cleaner"] = {c}]
    /\ UNCHANGED <<admission, table, session, helpers, writing, phase, closer, stopping>>

-----------------------------------------------------------------------------
(* The sessions                                                            *)

(* The backend is dialled; keepalive and the two readers are started.      *)
SessionStarts(c) ==
    /\ session[c] = "dial"
    /\ session' = [session EXCEPT ![c] = "run"]
    /\ helpers' = helpers \cup {c}
    /\ UNCHANGED <<admission, table, writing, phase, closer, call, stopping>>

(* One of them locks closeMu, finds the client not closed and writes to    *)
(* it, without a deadline.                                                 *)
WriteBegin(c) ==
    /\ c \in helpers \ writing
    /\ phase[c] = "open"
    /\ writing' = writing \cup {c}
    /\ UNCHANGED <<admission, table, session, helpers, phase, closer, call, stopping>>

(* After an error the goroutine returns, perhaps as the last one.          *)
WriteEnd(c) ==
    /\ c \in writing
    /\ writing' = writing \ {c}
    /\ helpers' \in {helpers, helpers \ {c}}
    /\ UNCHANGED <<admission, table, session, phase, closer, call, stopping>>

(* The last of them returns.                                               *)
HelpersEnd(c) ==
    /\ c \in helpers \ writing
    /\ helpers' = helpers \ {c}
    /\ UNCHANGED <<admission, table, session, writing, phase, closer, call, stopping>>

(* handleClient returns: the dial or a reader fails, or the context is     *)
(* done.  The deferred closeConnection gets closeMu.                       *)
SessionReturns(c) ==
    /\ session[c] \in {"dial", "run"}
    /\ session' = [session EXCEPT ![c] = "return"]
    /\ CloseMark("session", c)
    /\ UNCHANGED <<admission, table, helpers, writing, call, stopping>>

(* The deferred wg.Done().                                                 *)
SessionOver(c) ==
    /\ session[c] = "return"
    /\ closer[c] # "session"
    /\ session' = [session EXCEPT ![c] = "over"]
    /\ UNCHANGED <<admission, table, helpers, writing, phase, closer, call, stopping>>

-----------------------------------------------------------------------------
(* Stop                                                                    *)

(* httpServer.Shutdown begins: no new requests.                            *)
StopBegin ==
    /\ stop = "no"
    /\ stop' = "shutdown"
    /\ UNCHANGED <<admission, table, life, sweep>>

(* Mutant of CloseAllConnections: only clients with a running session are  *)
(* taken.                                                                  *)
CloseAllConnectionsRunning ==
    /\ stop = "shutdown"
    /\ sweep' = {c \in connections : session[c] = "run"}
    /\ stop' = "closing"
    /\ UNCHANGED <<admission, table, life>>

(* Shutdown has returned, after 30 s at the latest.  It does not wait for  *)
(* handlers whose connection is upgraded.  closeAllConnections takes a     *)
(* snapshot of the table.                                                  *)
CloseAllConnections ==
    /\ stop = "shutdown"
    /\ sweep' = connections
    /\ stop' = "closing"
    /\ UNCHANGED <<admission, table, life>>

(* One client after the other is closed.                                   *)
StopClose(c) ==
    /\ c \in sweep
    /\ call["stop"] = {}
    /\ sweep' = sweep \ {c}
    /\ call' = [call EXCEPT !["stop"] = {c}]
    /\ UNCHANGED <<admission, table, session, helpers, writing, phase, closer, stop>>

StopClosed ==
    /\ stop = "closing"
    /\ sweep = {}
    /\ call["stop"] = {}
    /\ stop' = "wait"
    /\ UNCHANGED <<admission, table, life, sweep>>

(* wg.Wait returns: every goroutine of a session has called Done.          *)
(* registry.Shutdown has a timeout of its own.                             *)
StopWait ==
    /\ stop = "wait"
    /\ \A c \in Clients : session[c] \in {"none", "over"}
    /\ helpers = {}
    /\ stop' = "done"
    /\ UNCHANGED <<admission, table, life, sweep>>

-----------------------------------------------------------------------------

HandleWebSocket(c) ==
    \/ CheckCapacity(c) \/ AllowRequest(c) \/ Upgrade(c) \/ Register(c) \/ StoreKey(c)
    \/ Spawn(c) \/ Record(c)
CloseStep(c) == CloseRemove(c) \/ CloseKey(c)
HandleClient(c) == SessionStarts(c) \/ SessionReturns(c) \/ SessionOver(c)
SessionStep(c) ==
    \/ HandleClient(c) \/ WriteBegin(c) \/ WriteEnd(c) \/ HelpersEnd(c)
    \/ CleanConnections(c) \/ CloseStep(c) \/ \E x \in Outside : CallMark(x, c)
StopStep == CloseAllConnections \/ StopClosed \/ StopWait \/ \E c \in Clients : StopClose(c)

Next ==
    \/ \E c \in Clients : Accept(c) \/ HandleWebSocket(c) \/ SessionStep(c)
    \/ StopBegin \/ StopStep

Spec == Init /\ [][Next]_vars

(* The handlers are scheduled, and storage calls and handshakes return.    *)
FairSpec == Spec /\ \A c \in Clients : WF_vars(HandleWebSocket(c))

-----------------------------------------------------------------------------
(* The table exceeds MaxConnections by no more than the number of its      *)
(* clients whose handshake overlapped with another: the limit is tested    *)
(* under one lock (line 527) and the client added under a later one (620). *)
CapacityKeptUnlessOverlapped ==
    Cardinality(connections) <=
        MaxConnections + Cardinality(connections \cap overlapped)

(* While the server is not being stopped, the "ws:" key of a client that   *)
(* has left the table is about to be deleted, in whatever order the        *)
(* handler, the session and the cleaner run (lines 619-641, 1445-1451).    *)
KeysFollowConnections ==
    stop = "no" => \A c \in stored \ connections : phase[c] = "key"

(* A half-open breaker is decided by the handshakes it admits, unless a    *)
(* request that was no upgrade took the probe and returned at line 570.    *)
HalfOpenDecided == (breaker.state = "halfOpen") ~> (breaker.state # "halfOpen" \/ leaked)

(* Stop waits only for sessions that have been told to end: when it comes  *)
(* to wg.Wait (line 509), every client with a session still to come or     *)
(* still running is closed, whoever closed it, unless a handler registered *)
(* its client after the snapshot of closeAllConnections (line 1461).       *)
StopLeavesNoneOpen ==
    stop \in {"wait", "done"} /\ ~ late =>
        \A c \in connections \cup helpers : phase[c] # "open"

=============================================================================
