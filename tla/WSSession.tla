----------------------------- MODULE WSSession -----------------------------
(***************************************************************************)
(* One WebSocket client of the gateway, pkg/websocket/server.go:           *)
(* handleClient with the goroutines it starts (keepalive, client reader,   *)
(* backend reader), the failover of both readers, closeConnection, the     *)
(* connection cleaner, Stop and the health map of the backends.            *)
(*                                                                         *)
(* The goroutines share the fields of ClientConnection without a lock, so  *)
(* every read or write of such a field is a step of its own.  Peers and    *)
(* the network decide whether a read, a write or a dial succeeds.  A write *)
(* has no deadline (line 639 removes the one of the handshake): it ends    *)
(* when the peer reads, the network fails or this side closes the          *)
(* connection.  client.closeMu is held over the writes to the client, so   *)
(* keepalive in "write" or the backend reader in "toClient" has it.        *)
(*                                                                         *)
(* WSAdmission has the same closeConnection as it looks from the table of  *)
(* all clients.  The two modules have no name in common.                   *)
(***************************************************************************)
EXTENDS Naturals, FiniteSets

CONSTANTS
    NumBackends,        \* config.BackendServers, in their order
    FailoverThreshold,  \* config.FailoverThreshold, 1 by default
    MaxDials,           \* bound on successful dials; further ones fail
    MaxChecks           \* bound on health checks with a new result

ASSUME SessionAssumption ==
    /\ NumBackends \in Nat \ {0}
    /\ FailoverThreshold \in Nat \ {0}
    /\ MaxDials \in Nat \ {0}
    /\ MaxChecks \in Nat

Backends == 1..NumBackends
Conns == 1..MaxDials        \* backend connections, as they are dialled
Nil == 0
ErrCap == 3                 \* errChan := make(chan error, 3)
Readers == {"client", "backend"}
Dialers == Readers \cup {"handler"}
CloseCallers == {"handler", "cleaner"}

VARIABLES
    health,         \* s.backendHealth
    checks,         \* results of CheckBackendHealth that changed it
    inMap,          \* the session is in s.connections
    closed,         \* client.closed
    cancelled,      \* ctx is done
    clientDone,     \* client.clientDone is closed
    errChan,        \* errors sent and not received
    clientOpen,     \* client.Conn is not closed by the server
    backendConn,    \* client.BackendConn
    current,        \* client.CurrentBackend, as a backend or Nil
    errorCount,     \* client.ErrorCount, up to the threshold
    open,           \* backend connections not closed by the server
    dials,
    handler,        \* what handleClient does
    target,         \*   the backend it or a reader is about to dial
    reader,         \* what the readers do
    using,          \*   the backend connection a reader has in hand
    keepalive,      \* what the keepalive goroutine does
    closing,        \* progress of closeConnection, by caller
    lateDials       \* history: a reader's dials after the context was done

healthMap == <<health, checks>>
clientVars == <<inMap, closed, cancelled, clientDone, errChan, clientOpen>>
backend == <<backendConn, current, errorCount, open, dials, lateDials>>
goroutines == <<handler, target, reader, using, keepalive, closing>>
sessionVars == <<healthMap, clientVars, backend, goroutines>>

ReaderSteps == {"none", "loop", "fetch", "read", "send", "toClient", "mark",
                "select", "dial", "close", "setConn", "setCurrent", "retry", "done"}
ClosingSteps == {"none", "mark", "client", "backend", "remove", "key"}

(* The bound on errChan says that no goroutine ever blocks on sending.     *)
SessionTypeOK ==
    /\ health \in [Backends -> BOOLEAN] /\ checks \in 0..MaxChecks
    /\ {inMap, closed, cancelled, clientDone, clientOpen} \subseteq BOOLEAN
    /\ errChan \in 0..ErrCap
    /\ backendConn \in Conns \cup {Nil} /\ current \in Backends \cup {Nil}
    /\ errorCount \in 0..FailoverThreshold
    /\ open \subseteq Conns
    /\ dials \in 0..MaxDials /\ lateDials \in [Readers -> 0..dials]
    /\ handler \in {"select", "dial", "wait", "closing", "done"}
    /\ target \in [Dialers -> Backends \cup {Nil}]
    /\ reader \in [Readers -> ReaderSteps]
    /\ using \in [Readers -> Conns \cup {Nil}]
    /\ keepalive \in {"none", "run", "write", "done"}
    /\ closing \in [CloseCallers -> ClosingSteps]

SessionInit ==
    /\ health = [b \in Backends |-> TRUE] /\ checks = 0
    /\ inMap = TRUE /\ closed = FALSE /\ cancelled = FALSE /\ clientDone = FALSE
    /\ errChan = 0
    /\ clientOpen = TRUE
    /\ backendConn = Nil /\ current = Nil /\ errorCount = 0
    /\ open = {} /\ dials = 0 /\ lateDials = [r \in Readers |-> 0]
    /\ handler = "select"
    /\ target = [g \in Dialers |-> Nil]
    /\ reader = [r \in Readers |-> "none"]
    /\ using = [r \in Readers |-> Nil]
    /\ keepalive = "none"
    /\ closing = [x \in CloseCallers |-> "none"]

ReaderGoto(r, step) == reader' = [reader EXCEPT ![r] = step]
Take(r, conn) == using' = [using EXCEPT ![r] = conn]

CloseMuFree == keepalive # "write" /\ reader["backend"] # "toClient"

(* selectHealthyBackend: the first healthy one, or the first.              *)
SelectHealthyBackend ==
    IF \E b \in Backends : health[b]
    THEN CHOOSE b \in Backends : health[b] /\ \A c \in Backends : health[c] => b <= c
    ELSE 1

(* connectToBackend succeeds for goroutine g.                              *)
Connect(g) ==
    /\ dials < MaxDials
    /\ dials' = dials + 1
    /\ open' = open \cup {dials + 1}
    /\ lateDials' = IF cancelled /\ g \in Readers THEN [lateDials EXCEPT ![g] = @ + 1]
                                                   ELSE lateDials

-----------------------------------------------------------------------------
(* handleClient                                                            *)

HandlerSelect ==
    /\ handler = "select"
    /\ target' = [target EXCEPT !["handler"] = SelectHealthyBackend]
    /\ handler' = "dial"
    /\ UNCHANGED <<healthMap, clientVars, backend, reader, using, keepalive, closing>>

(* A failed dial closes the session; otherwise the goroutines start.       *)
HandlerDial ==
    /\ handler = "dial"
    /\ target' = [target EXCEPT !["handler"] = Nil]
    /\ \/ /\ handler' = "closing"
          /\ closing' = [closing EXCEPT !["handler"] = "mark"]
          /\ UNCHANGED <<backend, reader, keepalive>>
       \/ /\ Connect("handler")
          /\ backendConn' = dials + 1
          /\ current' = target["handler"]
          /\ reader' = [r \in Readers |-> "loop"]
          /\ keepalive' = "run"
          /\ handler' = "wait"
          /\ UNCHANGED <<errorCount, closing>>
    /\ UNCHANGED <<healthMap, clientVars, using>>

(* The context is done, or a reader reports an error.                      *)
HandlerWait ==
    /\ handler = "wait"
    /\ \/ cancelled /\ UNCHANGED errChan
       \/ errChan > 0 /\ errChan' = errChan - 1
    /\ handler' = "closing"
    /\ closing' = [closing EXCEPT !["handler"] = "mark"]
    /\ UNCHANGED <<healthMap, inMap, closed, cancelled, clientDone, clientOpen, backend, target,
                   reader, using, keepalive>>

HandlerReturn ==
    /\ handler = "closing"
    /\ closing["handler"] = "none"
    /\ handler' = "done"
    /\ UNCHANGED <<healthMap, clientVars, backend, target, reader, using, keepalive,
                   closing>>

-----------------------------------------------------------------------------
(* closeConnection, called by handleClient when it returns and by the      *)
(* cleaner or Stop.                                                        *)

(* Under closeMu.  The first caller goes on.                               *)
MarkClosed(x) ==
    /\ closing[x] = "mark"
    /\ CloseMuFree
    /\ closed' = TRUE
    /\ cancelled' = TRUE
    /\ closing' = [closing EXCEPT ![x] = IF closed THEN "none" ELSE "client"]
    /\ UNCHANGED <<healthMap, inMap, clientDone, errChan, clientOpen, backend, handler, target,
                   reader, using, keepalive>>

CloseClient(x) ==
    /\ closing[x] = "client"
    /\ clientOpen' = FALSE
    /\ closing' = [closing EXCEPT ![x] = "backend"]
    /\ UNCHANGED <<healthMap, inMap, closed, cancelled, clientDone, errChan, backend, handler,
                   target, reader, using, keepalive>>

(* The backend connection that the field names by now.                     *)
CloseBackend(x) ==
    /\ closing[x] = "backend"
    /\ open' = open \ {backendConn}
    /\ closing' = [closing EXCEPT ![x] = "remove"]
    /\ UNCHANGED <<healthMap, clientVars, backendConn, current, errorCount, dials, lateDials,
                   handler, target, reader, using, keepalive>>

RemoveClient(x) ==
    /\ closing[x] = "remove"
    /\ inMap' = FALSE
    /\ closing' = [closing EXCEPT ![x] = "key"]
    /\ UNCHANGED <<healthMap, closed, cancelled, clientDone, errChan, clientOpen, backend,
                   handler, target, reader, using, keepalive>>

(* storage.Delete of the "ws:" key, which WSAdmission keeps.               *)
DeleteKey(x) ==
    /\ closing[x] = "key"
    /\ closing' = [closing EXCEPT ![x] = "none"]
    /\ UNCHANGED <<healthMap, clientVars, backend, handler, target, reader, using, keepalive>>

(* Mutant of CleanSession: a session whose client reader has ended is      *)
(* skipped.                                                                *)
CleanSessionActive ==
    /\ closing["cleaner"] = "none"
    /\ inMap
    /\ ~ clientDone
    /\ closing' = [closing EXCEPT !["cleaner"] = "mark"]
    /\ UNCHANGED <<healthMap, clientVars, backend, handler, target, reader, using, keepalive>>

(* cleanConnections finds LastActivity older than 30 minutes.  Only        *)
(* messages of the client count as activity: any client can be silent that *)
(* long, and one whose reader has returned is bound to be.  Stop closes    *)
(* the session in the same way, so that this is the step of either; the    *)
(* second one of them waits for closeMu, finds client.closed and returns.  *)
CleanSession ==
    /\ closing["cleaner"] = "none"
    /\ inMap
    /\ closing' = [closing EXCEPT !["cleaner"] = "mark"]
    /\ UNCHANGED <<healthMap, clientVars, backend, handler, target, reader, using, keepalive>>

(* CheckBackendHealth: a test of one backend has a new result.             *)
CheckBackendHealth ==
    /\ checks < MaxChecks
    /\ checks' = checks + 1
    /\ \E b \in Backends : health' = [health EXCEPT ![b] = ~ @]
    /\ UNCHANGED <<clientVars, backend, goroutines>>

-----------------------------------------------------------------------------
(* The keepalive goroutine                                                 *)

(* The ticker: a SIP OPTIONS is written to the client with closeMu held.   *)
KeepaliveTick ==
    /\ keepalive = "run"
    /\ CloseMuFree
    /\ keepalive' = IF closed THEN "done" ELSE "write"
    /\ UNCHANGED <<healthMap, clientVars, backend, handler, target, reader, using, closing>>

KeepaliveWritten ==
    /\ keepalive = "write"
    /\ keepalive' \in {"run", "done"}
    /\ UNCHANGED <<healthMap, clientVars, backend, handler, target, reader, using, closing>>

KeepaliveEnd ==
    /\ keepalive = "run"
    /\ cancelled \/ clientDone
    /\ keepalive' = "done"
    /\ UNCHANGED <<healthMap, clientVars, backend, handler, target, reader, using, closing>>

-----------------------------------------------------------------------------
(* What the two readers have in common.                                    *)

(* The deferred close(client.clientDone) or close(client.backendDone).     *)
Finish(r) ==
    /\ ReaderGoto(r, "done")
    /\ clientDone' = (clientDone \/ r = "client")

(* errChan <- err and return.                                              *)
GiveUp(r) ==
    /\ errChan' = errChan + 1
    /\ Finish(r)

(* Mutant of CountError: the reader reports the error and does not return. *)
CountErrorGoesOn(r) ==
    /\ errChan' = errChan + 1
    /\ ReaderGoto(r, "loop")
    /\ UNCHANGED <<errorCount, clientDone>>

(* A backend error is counted; at the threshold failover begins, before    *)
(* it the reader gives up.                                                 *)
CountError(r) ==
    LET n == IF errorCount < FailoverThreshold THEN errorCount + 1 ELSE errorCount IN
    /\ errorCount' = n
    /\ \/ n = FailoverThreshold /\ ReaderGoto(r, "mark") /\ UNCHANGED <<errChan, clientDone>>
       \/ n < FailoverThreshold /\ GiveUp(r)

(* UpdateBackendHealth(client.CurrentBackend, false).                      *)
FailoverMark(r) ==
    /\ reader[r] = "mark"
    /\ health' = [health EXCEPT ![current] = FALSE]
    /\ ReaderGoto(r, "select")
    /\ UNCHANGED <<checks, clientVars, backend, handler, target, using, keepalive, closing>>

FailoverSelect(r) ==
    /\ reader[r] = "select"
    /\ \/ /\ SelectHealthyBackend # current
          /\ target' = [target EXCEPT ![r] = SelectHealthyBackend]
          /\ ReaderGoto(r, "dial")
          /\ UNCHANGED <<errChan, clientDone>>
       \/ /\ SelectHealthyBackend = current
          /\ GiveUp(r)
          /\ UNCHANGED target
    /\ UNCHANGED <<healthMap, inMap, closed, cancelled, clientOpen, backend, handler, using,
                   keepalive, closing>>

(* Only the client reader closes the connection it replaces.               *)
FailoverDial(r) ==
    /\ reader[r] = "dial"
    /\ \/ /\ Connect(r)
          /\ Take(r, dials + 1)
          /\ ReaderGoto(r, IF r = "client" THEN "close" ELSE "setConn")
          /\ UNCHANGED <<target, errChan, clientDone>>
       \/ /\ target' = [target EXCEPT ![r] = Nil]
          /\ GiveUp(r)
          /\ UNCHANGED <<open, dials, lateDials, using>>
    /\ UNCHANGED <<healthMap, inMap, closed, cancelled, clientOpen, backendConn, current,
                   errorCount, handler, keepalive, closing>>

FailoverClose(r) ==
    /\ reader[r] = "close"
    /\ open' = open \ {backendConn}
    /\ ReaderGoto(r, "setConn")
    /\ UNCHANGED <<healthMap, clientVars, backendConn, current, errorCount, dials, lateDials,
                   handler, target, using, keepalive, closing>>

FailoverSetConn(r) ==
    /\ reader[r] = "setConn"
    /\ backendConn' = using[r]
    /\ ReaderGoto(r, "setCurrent")
    /\ UNCHANGED <<healthMap, clientVars, current, errorCount, open, dials, lateDials, handler,
                   target, using, keepalive, closing>>

(* CurrentBackend and ErrorCount; the client reader then retries.          *)
FailoverSetCurrent(r) ==
    /\ reader[r] = "setCurrent"
    /\ current' = target[r]
    /\ errorCount' = 0
    /\ target' = [target EXCEPT ![r] = Nil]
    /\ \/ r = "client" /\ ReaderGoto(r, "retry") /\ UNCHANGED using
       \/ r = "backend" /\ ReaderGoto(r, "loop") /\ Take(r, Nil)
    /\ UNCHANGED <<healthMap, clientVars, backendConn, open, dials, lateDials, handler,
                   keepalive, closing>>

-----------------------------------------------------------------------------
(* The client reader                                                       *)

ClientLoop ==
    /\ reader["client"] = "loop"
    /\ \/ cancelled /\ Finish("client")
       \/ ~ cancelled /\ ReaderGoto("client", "read") /\ UNCHANGED clientDone
    /\ UNCHANGED <<healthMap, inMap, closed, cancelled, errChan, clientOpen, backend, handler,
                   target, using, keepalive, closing>>

(* A message, which goes to the backend, a normal close, or an error (a    *)
(* closed connection, the peer, or the deadline of 2 hours).  What was     *)
(* buffered can still be read after the connection is closed.              *)
ClientRead ==
    /\ reader["client"] = "read"
    /\ \/ /\ ReaderGoto("client", "send")
          /\ Take("client", backendConn)
          /\ UNCHANGED <<errChan, clientDone>>
       \/ Finish("client") /\ UNCHANGED <<errChan, using>>
       \/ GiveUp("client") /\ UNCHANGED using
    /\ UNCHANGED <<healthMap, inMap, closed, cancelled, clientOpen, backend, handler, target,
                   keepalive, closing>>

(* The write to the backend returns.                                       *)
ClientWrite ==
    /\ reader["client"] = "send"
    /\ Take("client", Nil)
    /\ \/ /\ using["client"] \in open
          /\ errorCount' = 0
          /\ ReaderGoto("client", "loop")
          /\ UNCHANGED <<errChan, clientDone>>
       \/ CountError("client")
    /\ UNCHANGED <<healthMap, inMap, closed, cancelled, clientOpen, backendConn, current, open,
                   dials, lateDials, handler, target, keepalive, closing>>

(* The message is written once more, to the new connection; an error is    *)
(* only logged.                                                            *)
ClientRetry ==
    /\ reader["client"] = "retry"
    /\ Take("client", Nil)
    /\ ReaderGoto("client", "loop")
    /\ UNCHANGED <<healthMap, clientVars, backend, handler, target, keepalive, closing>>

-----------------------------------------------------------------------------
(* The backend reader                                                      *)

(* Mutant of BackendLoop: the loop does not check whether the session is   *)
(* over.                                                                   *)
BackendLoopUnchecked ==
    /\ reader["backend"] = "loop"
    /\ ReaderGoto("backend", "fetch")
    /\ UNCHANGED <<healthMap, clientVars, backend, handler, target, using, keepalive, closing>>

BackendLoop ==
    /\ reader["backend"] = "loop"
    /\ \/ (cancelled \/ clientDone) /\ Finish("backend")
       \/ /\ ~ cancelled /\ ~ clientDone
          /\ ReaderGoto("backend", "fetch")
          /\ UNCHANGED clientDone
    /\ UNCHANGED <<healthMap, inMap, closed, cancelled, errChan, clientOpen, backend, handler,
                   target, using, keepalive, closing>>

(* The connection to read from.                                            *)
BackendFetch ==
    /\ reader["backend"] = "fetch"
    /\ ReaderGoto("backend", "read")
    /\ Take("backend", backendConn)
    /\ UNCHANGED <<healthMap, clientVars, backend, handler, target, keepalive, closing>>

(* A normal close, or an error, which is taken for one of the backend even *)
(* when this side closed the connection.                                   *)
BackendRead ==
    /\ reader["backend"] = "read"
    /\ Take("backend", Nil)
    /\ \/ Finish("backend") /\ UNCHANGED <<errorCount, errChan>>
       \/ CountError("backend")
    /\ UNCHANGED <<healthMap, inMap, closed, cancelled, clientOpen, backendConn, current, open,
                   dials, lateDials, handler, target, keepalive, closing>>

(* A message, shown to the SIP handler (the proxy, which start-up sets),   *)
(* goes to the client under closeMu, unless the session is closed by then. *)
BackendForward ==
    /\ reader["backend"] = "read"
    /\ CloseMuFree
    /\ Take("backend", Nil)
    /\ \/ closed /\ Finish("backend")
       \/ ~ closed /\ ReaderGoto("backend", "toClient") /\ UNCHANGED clientDone
    /\ UNCHANGED <<healthMap, inMap, closed, cancelled, errChan, clientOpen, backend, handler,
                   target, keepalive, closing>>

(* The write to the client returns and closeMu is unlocked.                *)
BackendForwarded ==
    /\ reader["backend"] = "toClient"
    /\ \/ ReaderGoto("backend", "loop") /\ UNCHANGED <<errChan, clientDone>>
       \/ GiveUp("backend")
    /\ UNCHANGED <<healthMap, inMap, closed, cancelled, clientOpen, backend, handler, target,
                   using, keepalive, closing>>

-----------------------------------------------------------------------------

HandlerStep == HandlerSelect \/ HandlerDial \/ HandlerWait \/ HandlerReturn
ClosingStep(x) ==
    MarkClosed(x) \/ CloseClient(x) \/ CloseBackend(x) \/ RemoveClient(x) \/ DeleteKey(x)
KeepaliveStep == KeepaliveTick \/ KeepaliveWritten \/ KeepaliveEnd
Failover(r) ==
    \/ FailoverMark(r) \/ FailoverSelect(r) \/ FailoverDial(r)
    \/ FailoverClose(r) \/ FailoverSetConn(r) \/ FailoverSetCurrent(r)
ClientStep ==
    ClientLoop \/ ClientRead \/ ClientWrite \/ ClientRetry \/ Failover("client")
BackendStep ==
    \/ BackendLoop \/ BackendFetch \/ BackendRead
    \/ BackendForward \/ BackendForwarded \/ Failover("backend")

SessionNext ==
    \/ HandlerStep \/ ClientStep \/ BackendStep \/ KeepaliveStep
    \/ \E x \in CloseCallers : ClosingStep(x)
    \/ CleanSession \/ CheckBackendHealth

SessionSpec == SessionInit /\ [][SessionNext]_sessionVars

(* A reader that waits for a peer: for a message, or for a write that goes *)
(* to somebody who need not read.                                          *)
WaitsForBackend(r) == reader[r] \in {"read", "send", "retry"} /\ using[r] \in open
WaitsForClient == reader["client"] = "read" /\ clientOpen

(* Goroutines are scheduled, one that waits for closeMu gets it when it is *)
(* free again and again, and dials have a timeout; nothing makes a peer    *)
(* read or send.  The cleaner finds the client that has left in one of its *)
(* rounds, as long as no other client holds it up: it is one goroutine for *)
(* all of them, which WSAdmission shows.                                   *)
FairSessionSpec ==
    /\ SessionSpec
    /\ WF_sessionVars(HandlerStep \/ ClosingStep("handler"))
    /\ WF_sessionVars(ClientStep /\ ~ WaitsForBackend("client") /\ ~ WaitsForClient)
    /\ WF_sessionVars(BackendStep /\ ~ WaitsForBackend("backend") /\ CloseMuFree)
    /\ WF_sessionVars(keepalive = "run" /\ KeepaliveStep)
    /\ SF_sessionVars(ClosingStep("cleaner") \/ (clientDone /\ CleanSession))

-----------------------------------------------------------------------------
AllReturned ==
    /\ handler = "done"
    /\ reader["client"] \in {"none", "done"} /\ reader["backend"] \in {"none", "done"}
    /\ keepalive \in {"none", "done"}

(* The session has been closed and forgotten, and a reader still waits on  *)
(* a backend connection: a failover replaced BackendConn without closing   *)
(* it (line 1012) or set it after closeConnection had read it, so nobody   *)
(* will close it.                                                          *)
HeldByOrphan(r) == ~ inMap /\ WaitsForBackend(r)

(* A session that is closed, or whose client has left, ends: all           *)
(* goroutines return, so that Stop, which waits for them, is not held up,  *)
(* and the client leaves the table.  After a normal close no goroutine     *)
(* reports an error and handleClient goes on waiting; only the cleaner     *)
(* ends such a session (line 1498).  It takes two things for granted that  *)
(* the code does not ensure: that no write to the client, over which       *)
(* closeMu is held, lasts for ever (it would block line 1417), and that no *)
(* reader hangs on a connection that was lost track of.                    *)
SessionEnds ==
    /\ []<>CloseMuFree
    /\ \A r \in Readers : []<>(~ HeldByOrphan(r))
    => (clientDone \/ closed ~> AllReturned /\ ~ inMap)

(* After the context is done each reader completes at most one failover:   *)
(* a session that is over leaves a bounded number of fresh connections.    *)
LateDialsBounded == \A r \in Readers : lateDials[r] <= 1

=============================================================================
