----------------------------- MODULE RTPEngine -----------------------------
(***************************************************************************)
(* The client of one RTPEngine, pkg/rtpengine/rtpengine.go.  Request dials *)
(* a fresh UDP socket for every command and keeps it in r.conn, a field    *)
(* all goroutines share: r.mu protects the assignments, but sending and    *)
(* receiving load the field without it.  The loads are steps of their own.  *)
(*                                                                         *)
(* The network may lose, delay and reorder packets; what arrives at a      *)
(* closed socket is dropped.  A request is named by the number of the      *)
(* socket dialled for it.                                                  *)
(***************************************************************************)
EXTENDS Naturals, Sequences, FiniteSets

CONSTANTS
    Callers,    \* goroutines of the manager that use the engine
    Cookies,    \* rand.Intn(1000000)
    MaxDials    \* bound on the sockets dialled

ASSUME EngineAssumption ==
    /\ IsFiniteSet(Callers)
    /\ Cookies # {}
    /\ MaxDials \in Nat \ {0}

Nil == 0
Disturbed == {"closed", "mismatch", "panic"}

VARIABLES
    conn,           \* r.conn
    open,           \* sockets not closed
    dials,          \* sockets dialled so far
    pc,             \* where each caller is
    own,            \* the socket the caller dialled for its request
    socket,         \* the one it loaded from r.conn
    cookie,         \* the cookie of each request
    packets,        \* commands sent or answers not read: socket and request
    result,         \* what became of the caller's last request
    answer,         \*   and the request whose answer it got
    overlapped      \* history: callers whose request met another, or Close

calls == <<own, socket, cookie, result, answer>>
vars == <<conn, open, dials, pc, packets, overlapped, calls>>

Init ==
    /\ conn = Nil /\ open = {} /\ dials = 0
    /\ pc = [p \in Callers |-> "idle"]
    /\ own = [p \in Callers |-> Nil]
    /\ socket = [p \in Callers |-> Nil]
    /\ cookie = << >>
    /\ packets = {}
    /\ result = [p \in Callers |-> "none"]
    /\ answer = [p \in Callers |-> Nil]
    /\ overlapped = {}

Goto(p, step) == pc' = [pc EXCEPT ![p] = step]

(* What is on its way to a socket is lost when the socket is closed.       *)
CloseSocket(s) ==
    /\ open' = open \ {s}
    /\ packets' = {k \in packets : k.socket # s}

Running == {p \in Callers : pc[p] # "idle"}

(* Request returns; the circuit breaker is told of a success for "ok", of  *)
(* nothing for "unencoded" and of a failure for everything else.           *)
Return(p, r) ==
    /\ result' = [result EXCEPT ![p] = r]
    /\ Goto(p, "close")

-----------------------------------------------------------------------------
(* Request, called by Offer, Answer, Delete, Query, List, Ping, GetStats   *)

(* The circuit breaker admits the request.                                 *)
Begin(p) ==
    /\ pc[p] = "idle"
    /\ dials < MaxDials
    /\ Goto(p, "dial")
    /\ result' = [result EXCEPT ![p] = "none"]
    /\ answer' = [answer EXCEPT ![p] = Nil]
    /\ own' = [own EXCEPT ![p] = Nil]
    /\ overlapped' = IF Running = {} THEN overlapped \ {p} ELSE overlapped \cup Running \cup {p}
    /\ UNCHANGED <<conn, open, dials, packets, socket, cookie>>

(* ensureConnection, under r.mu: whatever socket is there is closed and a  *)
(* new one dialled, with the cookie of the request drawn at random.  The   *)
(* deferred close is not yet in place when the dial fails.                 *)
EnsureConnection(p) ==
    /\ pc[p] = "dial"
    /\ \/ /\ dials < MaxDials
          /\ conn' = dials + 1 /\ dials' = dials + 1
          /\ open' = (open \ {conn}) \cup {dials + 1}
          /\ own' = [own EXCEPT ![p] = dials + 1]
          /\ \E k \in Cookies : cookie' = Append(cookie, k)
          /\ Goto(p, "encode")
          /\ UNCHANGED result
       \/ /\ conn' = Nil
          /\ open' = open \ {conn}
          /\ result' = [result EXCEPT ![p] = "undialled"]
          /\ Goto(p, "idle")
          /\ UNCHANGED <<dials, own, cookie>>
    /\ packets' = {k \in packets : k.socket # conn}
    /\ UNCHANGED <<socket, answer, overlapped>>

(* The command is encoded, or Request returns without telling the breaker; *)
(* then r.conn is loaded.  The methods of a nil connection panic.  The     *)
(* loads for setting the deadline and for sending are one, and so are      *)
(* those for receiving: what the first can meet, the second can too.       *)
Encode(p) ==
    /\ pc[p] = "encode"
    /\ \/ Return(p, "unencoded") /\ UNCHANGED socket
       \/ /\ conn # Nil
          /\ socket' = [socket EXCEPT ![p] = conn]
          /\ Goto(p, "write")
          /\ UNCHANGED result
       \/ /\ conn = Nil
          /\ Return(p, "panic")
          /\ UNCHANGED socket
    /\ UNCHANGED <<conn, open, dials, packets, own, cookie, answer, overlapped>>

(* The packet is sent from the socket loaded, which may be another's or    *)
(* closed by now.  Sending may fail otherwise too: the deadline of the     *)
(* context has passed, or the host refused an earlier packet.  r.conn is   *)
(* loaded again for the answer.                                            *)
Write(p) ==
    /\ pc[p] = "write"
    /\ \/ /\ socket[p] \in open
          /\ packets' = packets \cup {[socket |-> socket[p], request |-> own[p]]}
          /\ Goto(p, "load")
          /\ UNCHANGED result
       \/ /\ socket[p] \notin open
          /\ Return(p, "closed")
          /\ UNCHANGED packets
       \/ Return(p, "unsent") /\ UNCHANGED packets
    /\ UNCHANGED <<conn, open, dials, own, socket, cookie, answer, overlapped>>

Load(p) ==
    /\ pc[p] = "load"
    /\ \/ /\ conn # Nil
          /\ socket' = [socket EXCEPT ![p] = conn]
          /\ Goto(p, "read")
          /\ UNCHANGED result
       \/ /\ conn = Nil
          /\ Return(p, "panic")
          /\ UNCHANGED socket
    /\ UNCHANGED <<conn, open, dials, packets, own, cookie, answer, overlapped>>

(* Mutant of Accept: the cookie of the answer is not compared.             *)
AcceptAny(p, k) ==
    /\ answer' = [answer EXCEPT ![p] = k.request]
    /\ Return(p, "ok") \/ Return(p, "error")

(* The cookie is compared, the answer decoded and its result inspected.    *)
Accept(p, k) ==
    IF cookie[k.request] = cookie[own[p]]
    THEN /\ answer' = [answer EXCEPT ![p] = k.request]
         /\ Return(p, "ok") \/ Return(p, "error")
    ELSE Return(p, "mismatch") /\ UNCHANGED answer

(* ReadFromUDP: an answer, the deadline or a refusal, or the socket is     *)
(* closed.                                                                 *)
Read(p) ==
    /\ pc[p] = "read"
    /\ \/ \E k \in packets : /\ k.socket = socket[p]
                             /\ packets' = packets \ {k}
                             /\ Accept(p, k)
       \/ Return(p, "timeout") /\ UNCHANGED <<packets, answer>>
       \/ /\ socket[p] \notin open
          /\ Return(p, "closed")
          /\ UNCHANGED <<packets, answer>>
    /\ UNCHANGED <<conn, open, dials, own, socket, cookie, overlapped>>

(* Mutant of Finish: the caller goes on before its socket is closed.       *)
FinishLater(p) ==
    /\ \/ /\ pc[p] = "close"
          /\ Goto(p, "idle")
          /\ UNCHANGED <<conn, open, packets, socket>>
       \/ /\ socket[p] # Nil /\ result[p] # "none"
          /\ socket' = [socket EXCEPT ![p] = Nil]
          /\ conn' = Nil
          /\ CloseSocket(conn)
          /\ UNCHANGED pc
    /\ UNCHANGED <<dials, own, cookie, result, answer, overlapped>>

(* The deferred function, under r.mu, closes whatever r.conn is by now.    *)
Finish(p) ==
    /\ pc[p] = "close"
    /\ conn' = Nil
    /\ CloseSocket(conn)
    /\ socket' = [socket EXCEPT ![p] = Nil]
    /\ Goto(p, "idle")
    /\ UNCHANGED <<dials, own, cookie, result, answer, overlapped>>

(* Close, called when the manager shuts down.                              *)
Close ==
    /\ conn # Nil
    /\ conn' = Nil
    /\ CloseSocket(conn)
    /\ overlapped' = overlapped \cup Running
    /\ UNCHANGED <<dials, pc, calls>>

Next ==
    \/ Close
    \/ \E p \in Callers :
        \/ Begin(p) \/ EnsureConnection(p) \/ Encode(p) \/ Write(p) \/ Load(p) \/ Read(p)
        \/ Finish(p)

Spec == Init /\ [][Next]_vars

-----------------------------------------------------------------------------
(* A request that overlaps with no other on the same engine, nor with      *)
(* Close, never meets a closed or missing connection or a foreign answer,  *)
(* late answers of requests that timed out before it included: only        *)
(* overlapping requests disturb each other through r.conn (lines 122-165). *)
UndisturbedWhenAlone == \A p \in Callers : result[p] \in Disturbed => p \in overlapped

(* A request that succeeds returns the answer to its own command, whoever  *)
(* reads from whose socket, unless an overlapping request had drawn the    *)
(* same cookie.                                                            *)
OwnAnswer ==
    \A p \in Callers :
        result[p] = "ok" /\ answer[p] # own[p] =>
            p \in overlapped /\ cookie[answer[p]] = cookie[own[p]]

=============================================================================
