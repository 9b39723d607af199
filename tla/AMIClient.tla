----------------------------- MODULE AMIClient -----------------------------
(***************************************************************************)
(* The client of one Asterisk manager interface, AMIClient in              *)
(* pkg/ami/ami.go.  The goroutines of Procs call Connect, SendAction and   *)
(* Disconnect.  Every connection that gets as far as the banner starts an  *)
(* event dispatcher and a read loop, which share the mutex c.mu, the       *)
(* channels stopChan and doneChan and the field c.conn with those of the   *)
(* earlier connections: all of them look at the client's current fields.   *)
(*                                                                         *)
(* A step is what happens between two points where a goroutine can wait:   *)
(* for a lock, a channel, a timer or the network.  The network decides     *)
(* freely whether a dial, a read or a write succeeds.  Closing a closed    *)
(* channel panics; the model stops there.                                  *)
(***************************************************************************)
EXTENDS Naturals, FiniteSets

CONSTANTS
    Procs,
    NoProc,
    ActionIDs,
    NoID,
    MaxAttempts,    \* bound on the calls of Connect
    EventCap        \* capacity of eventChan, 100 in the code

ASSUME ClientAssumption ==
    /\ NoProc \notin Procs
    /\ NoID \notin ActionIDs
    /\ MaxAttempts \in Nat \ {0}
    /\ EventCap \in Nat \ {0}

Conns == 1..MaxAttempts     \* connections, numbered as they are dialled
Nil == 0                    \* c.conn == nil
Gens == 0..MaxAttempts      \* pairs of stopChan and doneChan, as they are made

VARIABLES
    mu,             \* holder of c.mu, or NoProc
    connectionLock, \* holder of c.connectionLock, or NoProc
    connected,
    conn,           \* c.conn
    open,           \* connections not yet closed by the client
    gen,            \* the current stopChan and doneChan
    stopClosed,     \* generations whose stopChan is closed
    doneClosed,     \* generations whose doneChan is closed
    responseChans,  \* ActionIDs with an entry in responseChans
    filled,         \* those whose channel holds a response
    actionID,       \* the ActionID of a caller in sendActionLocked
    socket,         \* <<connection, ActionID>>: responses not yet read
    eventChan,      \* number of buffered events
    pc,             \* what the goroutines of Procs do
    disp, dispGen,  \* dispatchers: state, and the stopChan they select on
    reader,         \* read loops: state,
    readerConn,     \*   the connection they read
    message,        \*   and the ActionID of the response they have read
    dials,
    attempts,       \* calls of Connect so far
    unrecorded,     \* attempts the breaker allowed and heard nothing of yet
    panicked

client == <<connected, conn, open>>
channels == <<gen, stopClosed, doneClosed>>
responses == <<responseChans, filled, actionID, socket>>
loops == <<disp, dispGen, reader, readerConn, message, eventChan>>
counts == <<dials, attempts, unrecorded>>
vars == <<mu, connectionLock, client, channels, responses, loops, pc, counts, panicked>>

Dialling == {"waitOld", "dial", "banner", "login", "ping"}

TypeOK ==
    /\ mu \in Procs \cup {NoProc}
    /\ connectionLock \in Procs \cup {NoProc}
    /\ connected \in BOOLEAN
    /\ conn \in Conns \cup {Nil}
    /\ open \subseteq Conns
    /\ gen \in Gens
    /\ stopClosed \subseteq Gens /\ doneClosed \subseteq Gens
    /\ filled \subseteq responseChans /\ responseChans \subseteq ActionIDs
    /\ actionID \in [Procs -> ActionIDs \cup {NoID}]
    /\ socket \subseteq Conns \X ActionIDs
    /\ eventChan \in 0..EventCap
    /\ pc \in [Procs -> {"idle", "cLock", "cCheck", "enter", "awaitDone", "relock",
                         "write", "sWait", "dWait"} \cup Dialling]
    /\ disp \in [Conns -> {"none", "select", "handle", "exit", "done"}]
    /\ dispGen \in [Conns -> Gens]
    /\ reader \in [Conns -> {"none", "start", "top", "check", "read", "deliver",
                             "cleanup", "done"}]
    /\ readerConn \in [Conns -> Conns \cup {Nil}]
    /\ message \in [Conns -> ActionIDs \cup {NoID}]
    /\ dials \in 0..attempts /\ attempts \in 0..MaxAttempts
    /\ unrecorded \in 0..attempts
    /\ panicked \in BOOLEAN

Init ==
    /\ mu = NoProc /\ connectionLock = NoProc
    /\ connected = FALSE /\ conn = Nil /\ open = {}
    /\ gen = 0 /\ stopClosed = {} /\ doneClosed = {}
    /\ responseChans = {} /\ filled = {} /\ socket = {}
    /\ actionID = [p \in Procs |-> NoID]
    /\ eventChan = 0
    /\ pc = [p \in Procs |-> "idle"]
    /\ disp = [c \in Conns |-> "none"]
    /\ dispGen = [c \in Conns |-> 0]
    /\ reader = [c \in Conns |-> "none"]
    /\ readerConn = [c \in Conns |-> Nil]
    /\ message = [c \in Conns |-> NoID]
    /\ dials = 0 /\ attempts = 0 /\ unrecorded = 0
    /\ panicked = FALSE

At(p, step) == ~ panicked /\ pc[p] = step
Goto(p, step) == pc' = [pc EXCEPT ![p] = step]
DispGoto(d, step) == disp' = [disp EXCEPT ![d] = step]
ReaderGoto(r, step) == reader' = [reader EXCEPT ![r] = step]

Lock(p) == mu = NoProc /\ mu' = p
Unlock(p) == mu = p /\ mu' = NoProc

(* close(c.stopChan); ok is what follows if that does not panic.           *)
CloseStop(ok) ==
    \/ /\ gen \in stopClosed
       /\ panicked' = TRUE
       /\ UNCHANGED <<mu, connectionLock, client, channels, responses, pc, counts>>
    \/ /\ gen \notin stopClosed
       /\ stopClosed' = stopClosed \cup {gen}
       /\ ok
       /\ UNCHANGED <<panicked, gen, doneClosed>>

(* closeConn.                                                              *)
CloseConn == conn' = Nil /\ open' = open \ {conn}

(* One call of circuitBreaker.RecordSuccess or RecordFailure for the       *)
(* attempt that AllowRequest let through.                                  *)
Record == unrecorded' = unrecorded - 1 /\ UNCHANGED <<dials, attempts>>

-----------------------------------------------------------------------------
(* Connect and connectImpl                                                 *)

BeginConnect(p) ==
    /\ At(p, "idle")
    /\ attempts < MaxAttempts
    /\ attempts' = attempts + 1
    /\ Goto(p, "cLock")
    /\ UNCHANGED <<mu, connectionLock, client, channels, responses, loops, dials,
                   unrecorded, panicked>>

ConnectLock(p) ==
    /\ At(p, "cLock")
    /\ connectionLock = NoProc
    /\ connectionLock' = p
    /\ Goto(p, "cCheck")
    /\ UNCHANGED <<mu, client, channels, responses, loops, counts, panicked>>

(* Already connected, or throttled: the last attempt is less than 5        *)
(* seconds old.                                                            *)
ConnectCheck(p) ==
    /\ At(p, "cCheck")
    /\ mu = NoProc
    /\ \/ ~ connected /\ Goto(p, "enter") /\ UNCHANGED connectionLock
       \/ Goto(p, "idle") /\ connectionLock' = NoProc
    /\ UNCHANGED <<mu, client, channels, responses, loops, counts, panicked>>

(* connectImpl returns to Connect, whose deferred unlock follows.          *)
ConnectReturn(p) ==
    /\ Unlock(p)
    /\ connectionLock' = NoProc
    /\ Goto(p, "idle")

(* connectImpl up to the dial.  A connection left over is closed, and so   *)
(* is stopChan.                                                            *)
ConnectEnter(p) ==
    /\ At(p, "enter")
    /\ mu = NoProc
    /\ \/ /\ connectionLock' = NoProc     \* connected, or the breaker is open
          /\ Goto(p, "idle")
          /\ UNCHANGED <<mu, client, channels, responses, counts, panicked>>
       \/ /\ ~ connected
          /\ conn = Nil
          /\ mu' = p
          /\ unrecorded' = unrecorded + 1
          /\ Goto(p, "dial")
          /\ UNCHANGED <<connectionLock, client, channels, responses, dials, attempts, panicked>>
       \/ /\ ~ connected
          /\ conn # Nil
          /\ CloseStop(/\ mu' = p
                       /\ unrecorded' = unrecorded + 1
                       /\ CloseConn
                       /\ Goto(p, "waitOld")
                       /\ UNCHANGED <<connectionLock, connected, responses, dials, attempts>>)
    /\ UNCHANGED loops

(* doneChan is closed or 500 ms are over: new channels.                    *)
ConnectNewChannels(p) ==
    /\ At(p, "waitOld")
    /\ gen' = gen + 1
    /\ Goto(p, "dial")
    /\ UNCHANGED <<mu, connectionLock, client, stopClosed, doneClosed, responses, loops,
                   counts, panicked>>

(* Mutant of ConnectDial: a failed dial is not reported to the breaker.    *)
ConnectDialUnrecorded(p) ==
    /\ At(p, "dial")
    /\ ConnectReturn(p)
    /\ UNCHANGED <<client, channels, responses, loops, counts, panicked>>

ConnectDial(p) ==
    /\ At(p, "dial")
    /\ \/ /\ dials' = dials + 1
          /\ conn' = dials + 1
          /\ open' = open \cup {dials + 1}
          /\ Goto(p, "banner")
          /\ UNCHANGED <<mu, connectionLock, attempts, unrecorded>>
       \/ /\ Record
          /\ ConnectReturn(p)
          /\ UNCHANGED <<conn, open>>
    /\ UNCHANGED <<connected, channels, responses, loops, panicked>>

(* The banner arrives and both loops start; or it does not and the         *)
(* connection is closed, but c.conn keeps it.                              *)
ConnectBanner(p) ==
    /\ At(p, "banner")
    /\ \/ /\ DispGoto(conn, "select")
          /\ dispGen' = [dispGen EXCEPT ![conn] = gen]
          /\ ReaderGoto(conn, "start")
          /\ Goto(p, "login")
          /\ UNCHANGED <<mu, connectionLock, open, counts>>
       \/ /\ open' = open \ {conn}
          /\ Record
          /\ ConnectReturn(p)
          /\ UNCHANGED <<disp, dispGen, reader>>
    /\ UNCHANGED <<connected, conn, channels, responses, readerConn, message, eventChan,
                   panicked>>

(* A write of the login or of the ping fails.                              *)
LoginFails(p) ==
    /\ CloseStop(/\ CloseConn
                 /\ Record
                 /\ Goto(p, "awaitDone")
                 /\ UNCHANGED <<mu, connectionLock, connected, responses>>)
    /\ UNCHANGED loops

ConnectLogin(p) ==
    /\ At(p, "login")
    /\ \/ /\ conn \in open
          /\ Goto(p, "ping")
          /\ UNCHANGED <<mu, connectionLock, client, channels, responses, loops, counts,
                         panicked>>
       \/ LoginFails(p)

ConnectPing(p) ==
    /\ At(p, "ping")
    /\ \/ /\ conn \in open
          /\ connected' = TRUE
          /\ Record
          /\ ConnectReturn(p)
          /\ UNCHANGED <<conn, open, channels, responses, loops, panicked>>
       \/ LoginFails(p)

(* Mutant of ConnectAwaitDone: the failure is reported again after the     *)
(* wait.                                                                   *)
ConnectAwaitDoneRecords(p) ==
    /\ At(p, "awaitDone")
    /\ gen \in doneClosed
    /\ Record
    /\ ConnectReturn(p)
    /\ UNCHANGED <<client, channels, responses, loops, panicked>>

(* <-c.doneChan, with c.mu held.                                           *)
ConnectAwaitDone(p) ==
    /\ At(p, "awaitDone")
    /\ gen \in doneClosed
    /\ ConnectReturn(p)
    /\ UNCHANGED <<client, channels, responses, loops, counts, panicked>>

-----------------------------------------------------------------------------
(* SendAction                                                              *)

(* On a client that is not connected, connectImpl is called with c.mu      *)
(* held and locks it again.                                                *)
SendLock(p) ==
    /\ At(p, "idle")
    /\ Lock(p)
    /\ Goto(p, IF connected THEN "write" ELSE "relock")
    /\ UNCHANGED <<connectionLock, client, channels, responses, loops, counts, panicked>>

(* sendActionLocked up to the select.  A failed write leaves c.conn.  The  *)
(* ActionID is the caller's, the proxy's clients choose theirs, or a new   *)
(* one.                                                                    *)
SendWrite(p) ==
    /\ At(p, "write")
    /\ \/ /\ conn = Nil
          /\ Unlock(p)
          /\ Goto(p, "idle")
          /\ UNCHANGED <<connected, responses>>
       \/ /\ conn # Nil
          /\ connected' = FALSE
          /\ Unlock(p)
          /\ Goto(p, "idle")
          /\ UNCHANGED responses
       \/ /\ conn \in open
          /\ \E id \in ActionIDs :
                /\ responseChans' = responseChans \cup {id}
                /\ filled' = filled \ {id}
                /\ actionID' = [actionID EXCEPT ![p] = id]
                /\ \/ socket' = socket \cup {<<conn, id>>}
                   \/ UNCHANGED socket        \* Asterisk does not answer
          /\ Goto(p, "sWait")
          /\ UNCHANGED <<mu, connected>>
    /\ UNCHANGED <<connectionLock, conn, open, channels, loops, counts, panicked>>

(* The response, or the channel closed under the caller, or the timeout.   *)
(* Only the map entry goes: the response may still come, and is looked up  *)
(* then.                                                                   *)
SendWait(p) ==
    /\ At(p, "sWait")
    /\ responseChans' = responseChans \ {actionID[p]}
    /\ filled' = filled \ {actionID[p]}
    /\ actionID' = [actionID EXCEPT ![p] = NoID]
    /\ Unlock(p)
    /\ Goto(p, "idle")
    /\ UNCHANGED <<connectionLock, client, channels, socket, loops, counts, panicked>>

-----------------------------------------------------------------------------
(* Disconnect                                                              *)

(* Mutant of Disconnect: connected is not cleared.                         *)
DisconnectKeepsFlag(p) ==
    /\ At(p, "idle")
    /\ mu = NoProc
    /\ connected
    /\ CloseStop(CloseConn /\ Goto(p, "dWait")
                 /\ UNCHANGED <<mu, connectionLock, connected, responses, counts>>)
    /\ UNCHANGED loops

(* Only a connected client does anything.                                  *)
Disconnect(p) ==
    /\ At(p, "idle")
    /\ mu = NoProc
    /\ connected
    /\ CloseStop(/\ CloseConn
                 /\ connected' = FALSE
                 /\ responseChans' = {} /\ filled' = {}
                 /\ Goto(p, "dWait")
                 /\ UNCHANGED <<mu, connectionLock, actionID, socket, counts>>)
    /\ UNCHANGED loops

(* The dispatcher is done, or 2 seconds are over.                          *)
DisconnectReturn(p) ==
    /\ At(p, "dWait")
    /\ Goto(p, "idle")
    /\ UNCHANGED <<mu, connectionLock, client, channels, responses, loops, counts, panicked>>

-----------------------------------------------------------------------------
(* eventDispatcher                                                         *)

(* The select: a closed stopChan and a buffered event are equally good.    *)
DispatcherStop(d) ==
    /\ ~ panicked
    /\ disp[d] = "select"
    /\ dispGen[d] \in stopClosed
    /\ DispGoto(d, "exit")
    /\ UNCHANGED <<mu, connectionLock, client, channels, responses, pc, dispGen, reader,
                   readerConn, message, eventChan, counts, panicked>>

DispatcherEvent(d) ==
    /\ ~ panicked
    /\ disp[d] = "select"
    /\ eventChan > 0
    /\ eventChan' = eventChan - 1
    /\ DispGoto(d, "handle")
    /\ UNCHANGED <<mu, connectionLock, client, channels, responses, pc, dispGen, reader,
                   readerConn, message, counts, panicked>>

(* The handlers are copied under c.mu, and the next select looks at the    *)
(* client's current stopChan.                                              *)
DispatcherHandle(d) ==
    /\ ~ panicked
    /\ disp[d] = "handle"
    /\ mu = NoProc
    /\ DispGoto(d, "select")
    /\ dispGen' = [dispGen EXCEPT ![d] = gen]
    /\ UNCHANGED <<mu, connectionLock, client, channels, responses, pc, reader, readerConn,
                   message, eventChan, counts, panicked>>

(* Mutant of DispatcherExit: doneChan is not closed.                       *)
DispatcherExitSilent(d) ==
    /\ ~ panicked
    /\ disp[d] = "exit"
    /\ DispGoto(d, "done")
    /\ UNCHANGED <<mu, connectionLock, client, channels, responses, pc, dispGen, reader,
                   readerConn, message, eventChan, counts, panicked>>

(* The deferred close(c.doneChan), whichever doneChan that is by now.      *)
DispatcherExit(d) ==
    /\ ~ panicked
    /\ disp[d] = "exit"
    /\ IF gen \in doneClosed
       THEN panicked' = TRUE /\ UNCHANGED <<doneClosed, disp>>
       ELSE /\ doneClosed' = doneClosed \cup {gen}
            /\ DispGoto(d, "done")
            /\ UNCHANGED panicked
    /\ UNCHANGED <<mu, connectionLock, client, gen, stopClosed, responses, pc, dispGen,
                   reader, readerConn, message, eventChan, counts>>

-----------------------------------------------------------------------------
(* readLoop                                                                *)

(* The connection it reads is the client's when it first gets c.mu.        *)
ReaderStart(r) ==
    /\ ~ panicked
    /\ reader[r] = "start"
    /\ mu = NoProc
    /\ readerConn' = [readerConn EXCEPT ![r] = conn]
    /\ ReaderGoto(r, IF conn = Nil THEN "cleanup" ELSE "top")
    /\ UNCHANGED <<mu, connectionLock, client, channels, responses, pc, disp, dispGen,
                   message, eventChan, counts, panicked>>

ReaderTop(r) ==
    /\ ~ panicked
    /\ reader[r] = "top"
    /\ ReaderGoto(r, IF gen \in stopClosed THEN "cleanup" ELSE "check")
    /\ UNCHANGED <<mu, connectionLock, client, channels, responses, pc, disp, dispGen,
                   readerConn, message, eventChan, counts, panicked>>

ReaderCheck(r) ==
    /\ ~ panicked
    /\ reader[r] = "check"
    /\ mu = NoProc
    /\ ReaderGoto(r, IF conn = Nil THEN "cleanup" ELSE "read")
    /\ UNCHANGED <<mu, connectionLock, client, channels, responses, pc, disp, dispGen,
                   readerConn, message, eventChan, counts, panicked>>

(* A response, an event (dropped when eventChan is full) or a read error.  *)
(* The reader is buffered: messages can still follow the close.            *)
ReaderRead(r) ==
    /\ ~ panicked
    /\ reader[r] = "read"
    /\ \/ \E id \in ActionIDs :
             /\ <<readerConn[r], id>> \in socket
             /\ socket' = socket \ {<<readerConn[r], id>>}
             /\ message' = [message EXCEPT ![r] = id]
             /\ ReaderGoto(r, "deliver")
             /\ UNCHANGED eventChan
       \/ /\ eventChan' = IF eventChan < EventCap THEN eventChan + 1 ELSE eventChan
          /\ ReaderGoto(r, "top")
          /\ UNCHANGED <<socket, message>>
       \/ ReaderGoto(r, "cleanup") /\ UNCHANGED <<socket, message, eventChan>>
    /\ UNCHANGED <<mu, connectionLock, client, channels, responseChans, filled, actionID, pc,
                   disp, dispGen, readerConn, counts, panicked>>

(* Under c.mu: the response goes into the channel of its ActionID, if      *)
(* there is one.                                                           *)
ReaderDeliver(r) ==
    /\ ~ panicked
    /\ reader[r] = "deliver"
    /\ mu = NoProc
    /\ filled' = filled \cup ({message[r]} \cap responseChans)
    /\ message' = [message EXCEPT ![r] = NoID]
    /\ ReaderGoto(r, "top")
    /\ UNCHANGED <<mu, connectionLock, client, channels, responseChans, actionID, socket, pc,
                   disp, dispGen, readerConn, eventChan, counts, panicked>>

(* Mutant of ReaderCleanup: it closes the connection it has read and       *)
(* forgets the client's.                                                   *)
ReaderCleanupOwn(r) ==
    /\ ~ panicked
    /\ reader[r] = "cleanup"
    /\ mu = NoProc
    /\ connected' = FALSE
    /\ conn' = Nil /\ open' = open \ {readerConn[r]}
    /\ responseChans' = {} /\ filled' = {}
    /\ ReaderGoto(r, "done")
    /\ UNCHANGED <<mu, connectionLock, channels, actionID, socket, pc, disp, dispGen,
                   readerConn, message, eventChan, counts, panicked>>

(* The deferred cleanup closes the client's current connection.            *)
ReaderCleanup(r) ==
    /\ ~ panicked
    /\ reader[r] = "cleanup"
    /\ mu = NoProc
    /\ connected' = FALSE
    /\ CloseConn
    /\ responseChans' = {} /\ filled' = {}
    /\ ReaderGoto(r, "done")
    /\ UNCHANGED <<mu, connectionLock, channels, actionID, socket, pc, disp, dispGen,
                   readerConn, message, eventChan, counts, panicked>>

-----------------------------------------------------------------------------

ProcStep(p) ==
    \/ ConnectLock(p) \/ ConnectCheck(p) \/ ConnectEnter(p) \/ ConnectNewChannels(p)
    \/ ConnectDial(p) \/ ConnectBanner(p) \/ ConnectLogin(p) \/ ConnectPing(p)
    \/ ConnectAwaitDone(p)
    \/ SendWrite(p) \/ SendWait(p) \/ DisconnectReturn(p)

(* A call that waits for its first lock has done nothing yet.              *)
Begin(p) == BeginConnect(p) \/ SendLock(p) \/ Disconnect(p)

DispatcherStep(d) ==
    \/ DispatcherStop(d) \/ DispatcherEvent(d) \/ DispatcherHandle(d) \/ DispatcherExit(d)

ReaderStep(r) ==
    \/ ReaderStart(r) \/ ReaderTop(r) \/ ReaderCheck(r) \/ ReaderDeliver(r)
    \/ ReaderCleanup(r)

Next ==
    \/ \E p \in Procs : Begin(p) \/ ProcStep(p)
    \/ \E c \in Conns : DispatcherStep(c) \/ ReaderStep(c) \/ ReaderRead(c)

Spec == Init /\ [][Next]_vars

(* Goroutines are scheduled and timers fire.  Nothing makes the server     *)
(* send, so a read may take for ever.                                      *)
FairSpec ==
    /\ Spec
    /\ \A p \in Procs : WF_vars(ProcStep(p))
    /\ \A c \in Conns : WF_vars(DispatcherStep(c)) /\ WF_vars(ReaderStep(c))

-----------------------------------------------------------------------------
(* A client that says it is connected has an open connection, although     *)
(* read loops of earlier connections clean up whatever c.conn is.          *)
ConnectedIsOpen == connected => conn \in open

(* No connection is lost: one that the client has dialled and not closed   *)
(* is c.conn, although read loops of earlier connections clear that field  *)
(* and connectImpl overwrites it.                                          *)
OpenIsCurrent == open \subseteq {conn}

(* Every attempt that the circuit breaker allows is reported to it exactly *)
(* once, on every error path of connectImpl; otherwise a half-open breaker *)
(* would stay so.                                                          *)
AttemptsRecorded == unrecorded = Cardinality({p \in Procs : pc[p] \in Dialling})

(* c.mu is released again, with two exceptions: SendAction on a client     *)
(* that is not connected, and a failed login whose dispatcher picked an    *)
(* event instead of the stop signal and waits for c.mu.                    *)
MutexReleased ==
    \A p \in Procs :
        mu = p ~> \/ mu # p
                  \/ panicked
                  \/ pc[p] = "relock"
                  \/ pc[p] = "awaitDone" /\ \E d \in Conns : disp[d] = "handle"

(* The client never panics by closing a closed channel.                    *)
NeverPanics == ~ panicked

=============================================================================
