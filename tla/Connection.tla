----------------------------- MODULE Connection -----------------------------
(***************************************************************************)
(* One broker's connection: Cluster.Request with its pool                  *)
(* (src/internal/broker/cluster.go) over transport.Conn                    *)
(* (src/internal/transport/conn.go).                                       *)
(*                                                                         *)
(* Callers share the pooled connection.  Its mutex admits one request at a *)
(* time: write the frame, read the next frame.  A failed write is retried  *)
(* once on a fresh connection; any other error is returned, and either     *)
(* error first invalidates whatever connection is pooled by then.          *)
(*                                                                         *)
(* The broker executes a connection's requests in order and answers each;  *)
(* what was written may still be executed after the client closed its end. *)
(* Re-authentication on the same connection (SASL) is not modelled.        *)
(***************************************************************************)
EXTENDS Integers, Sequences, FiniteSets

CONSTANTS
    Callers,      \* goroutines that call Cluster.Request
    None,
    Error,        \* what a failed call returns
    Faults,       \* a subset of FaultKinds
    MaxRequests,  \* bound: calls of each caller
    MaxConns      \* bound: connections dialled

FaultKinds == {
    "timeout",   \* the deadline passes before a response arrives
    "break",     \* the broker's end goes away
    "dial",      \* a dial fails
    "close"}     \* the application calls Client.Close

ASSUME ConnectionAssumption ==
    /\ IsFiniteSet(Callers) /\ None \notin Callers /\ Error # None
    /\ Faults \subseteq FaultKinds
    /\ MaxRequests \in Nat \ {0} /\ MaxConns \in Nat \ {0}

Conns == 1 .. MaxConns

Requests == Callers \X (1 .. MaxRequests)

VARIABLES
    pooled,    \* c.conns[node], or None
    conn,      \* the connections
    dialled,   \* how many connections were dialled
    caller,    \* the callers' local variables
    executed,  \* how often the broker executed each request
    answer,    \* the response each finished call returned: a request, Error, or None
    closed     \* Close was called

vars == <<pooled, conn, dialled, caller, executed, answer, closed>>

Init ==
    /\ pooled = None /\ dialled = 0 /\ closed = FALSE
    /\ conn = [k \in Conns |-> [end |-> "unused", mu |-> None, out |-> <<>>, in |-> <<>>]]
    /\ caller = [c \in Callers |-> [pc |-> "idle", n |-> 0, try |-> 1, on |-> 1]]
    /\ executed = [q \in Requests |-> 0]
    /\ answer = [q \in Requests |-> None]

Request(c) == <<c, caller[c].n>>

----------------------------------------------------------------------------
(* The pool.                                                                *)

\* Invalidate and Close close the pooled connection and forget it.
ConnsClosed == IF pooled = None THEN conn ELSE [conn EXCEPT ![pooled].end = "closed"]

ConnsInvalidated == ConnsClosed

Invalidate ==
    /\ conn' = ConnsInvalidated
    /\ pooled' = None

\* A resend is allowed after a write that failed, and only once.
MayResendAlways(c) == caller[c].try < 2

MayResend(c) == caller[c].pc = "notSent" /\ caller[c].try < 2

----------------------------------------------------------------------------
(* A call of Cluster.Request.                                               *)

Start(c) ==
    /\ caller[c].pc = "idle" /\ caller[c].n < MaxRequests
    /\ caller' = [caller EXCEPT ![c].pc = "conn", ![c].n = @ + 1, ![c].try = 1]
    /\ UNCHANGED <<pooled, conn, dialled, executed, answer, closed>>

\* Cluster.Conn returns the pooled connection, or dials under the pool's mutex.
ConnPooled(c) ==
    /\ caller[c].pc = "conn" /\ pooled # None
    /\ caller' = [caller EXCEPT ![c].pc = "lock", ![c].on = pooled]
    /\ UNCHANGED <<pooled, conn, dialled, executed, answer, closed>>

ConnDialled(c) ==
    /\ caller[c].pc = "conn" /\ pooled = None /\ dialled < MaxConns
    /\ dialled' = dialled + 1
    /\ pooled' = dialled'
    /\ conn' = [conn EXCEPT ![dialled'].end = "open"]
    /\ caller' = [caller EXCEPT ![c].pc = "lock", ![c].on = dialled']
    /\ UNCHANGED <<executed, answer, closed>>

DialFails(c) ==
    /\ caller[c].pc = "conn" /\ pooled = None
    /\ "dial" \in Faults \/ dialled = MaxConns
    /\ caller' = [caller EXCEPT ![c].pc = "failed"]
    /\ UNCHANGED <<pooled, conn, dialled, executed, answer, closed>>

\* requestLocked: the frame is written with the connection's mutex held.  On a
\* connection whose broker end is gone the write may still seem to succeed.
Write(c) ==
    LET k == caller[c].on IN
    /\ caller[c].pc = "lock" /\ conn[k].mu = None /\ conn[k].end \in {"open", "broken"}
    /\ conn' = [conn EXCEPT ![k].mu = c,
                            ![k].out = IF conn[k].end = "open" THEN Append(@, Request(c)) ELSE @]
    /\ caller' = [caller EXCEPT ![c].pc = "read"]
    /\ UNCHANGED <<pooled, dialled, executed, answer, closed>>

\* ErrNotSent; the deadline may have passed while the caller waited for the mutex.
WriteFails(c) ==
    LET k == caller[c].on IN
    /\ caller[c].pc = "lock" /\ conn[k].mu = None
    /\ conn[k].end \in {"closed", "broken"} \/ "timeout" \in Faults
    /\ caller' = [caller EXCEPT ![c].pc = "notSent"]
    /\ UNCHANGED <<pooled, conn, dialled, executed, answer, closed>>

\* The next frame on the connection is the response, whatever it answers.
Read(c) ==
    LET k == caller[c].on IN
    /\ caller[c].pc = "read" /\ conn[k].end # "closed" /\ conn[k].in # <<>>
    /\ answer' = [answer EXCEPT ![Request(c)] = Head(conn[k].in)]
    /\ conn' = [conn EXCEPT ![k].mu = None, ![k].in = Tail(@)]
    /\ caller' = [caller EXCEPT ![c].pc = "idle"]
    /\ UNCHANGED <<pooled, dialled, executed, closed>>

\* The mutex after a failed read.
MuKept(c) == c

MuAfterError(c) == None

\* The deadline passed, or the connection was closed underneath the reader.
ReadFails(c) ==
    LET k == caller[c].on IN
    /\ caller[c].pc = "read" /\ ("timeout" \in Faults \/ conn[k].end # "open")
    /\ conn' = [conn EXCEPT ![k].mu = MuAfterError(c)]
    /\ caller' = [caller EXCEPT ![c].pc = "failed"]
    /\ UNCHANGED <<pooled, dialled, executed, answer, closed>>

\* The write never reached the broker: invalidate and try once more.
Resend(c) ==
    /\ caller[c].pc \in {"notSent", "failed"} /\ MayResend(c)
    /\ Invalidate
    /\ caller' = [caller EXCEPT ![c].pc = "conn", ![c].try = @ + 1]
    /\ UNCHANGED <<dialled, executed, answer, closed>>

\* Any other error, or the caller's context is done: invalidate and return it.
Fail(c) ==
    /\ caller[c].pc \in {"notSent", "failed"}
    /\ caller[c].pc = "failed" \/ caller[c].try = 2 \/ "timeout" \in Faults
    /\ Invalidate
    /\ answer' = [answer EXCEPT ![Request(c)] = Error]
    /\ caller' = [caller EXCEPT ![c].pc = "idle"]
    /\ UNCHANGED <<dialled, executed, closed>>

----------------------------------------------------------------------------
(* The broker, the network and Close.                                       *)

Execute(k) ==
    /\ conn[k].out # <<>>
    /\ executed' = [executed EXCEPT ![Head(conn[k].out)] = @ + 1]
    /\ conn' = [conn EXCEPT ![k].out = Tail(@), ![k].in = Append(@, Head(conn[k].out))]
    /\ UNCHANGED <<pooled, dialled, caller, answer, closed>>

\* The broker's end goes away, with the requests it has not executed.
Break(k) ==
    /\ "break" \in Faults /\ conn[k].end = "open"
    /\ conn' = [conn EXCEPT ![k].end = "broken", ![k].out = <<>>]
    /\ UNCHANGED <<pooled, dialled, caller, executed, answer, closed>>

Close ==
    /\ "close" \in Faults /\ ~closed
    /\ conn' = ConnsClosed
    /\ pooled' = None
    /\ closed' = TRUE
    /\ UNCHANGED <<dialled, caller, executed, answer>>

Call(c) ==
    \/ ConnPooled(c) \/ ConnDialled(c) \/ DialFails(c)
    \/ Write(c) \/ WriteFails(c) \/ Read(c) \/ ReadFails(c)
    \/ Resend(c) \/ Fail(c)

\* Every caller has made its calls and the broker has nothing left to execute.
AtRest ==
    /\ \A c \in Callers : caller[c].pc = "idle" /\ caller[c].n = MaxRequests
    /\ UNCHANGED vars

Next ==
    \/ \E c \in Callers : Start(c) \/ Call(c)
    \/ \E k \in Conns : Execute(k) \/ Break(k)
    \/ Close
    \/ AtRest

Spec == Init /\ [][Next]_vars

\* Goroutines run, deadlines pass and a live broker answers.
FairSpec ==
    /\ Spec
    /\ \A c \in Callers : WF_vars(Call(c))
    /\ \A k \in Conns : WF_vars(Execute(k))

----------------------------------------------------------------------------
(* Properties.                                                              *)

TypeOK ==
    /\ pooled \in Conns \cup {None} /\ dialled \in 0 .. MaxConns /\ closed \in BOOLEAN
    /\ conn \in [Conns -> [end : {"unused", "open", "broken", "closed"}, mu : Callers \cup {None},
                           out : Seq(Requests), in : Seq(Requests)]]
    /\ caller \in [Callers -> [pc : {"idle", "conn", "lock", "read", "notSent", "failed"},
                               n : 0 .. MaxRequests, try : 1 .. 2, on : Conns]]
    /\ executed \in [Requests -> Nat]
    /\ answer \in [Requests -> Requests \cup {Error, None}]

\* A call's request is executed at most once, however connections are closed
\* underneath it: the resend of Cluster.Request (cluster.go:345) follows only
\* a write that never reached the broker.
ExecutedAtMostOnce == \A q \in Requests : executed[q] <= 1

\* "Request sends a Kafka request and returns the full response frame"
\* (conn.go:113): the response a call returns answers that call's request.
OwnResponse == \A q \in Requests : answer[q] \in {None, Error, q}

\* Every call returns, whatever happens to its connection and to the callers
\* in front of it (Cluster.Request, cluster.go:333-356).  Each caller makes
\* MaxRequests calls, so that all of them are idle in the end.
EveryCallReturns == []<>(\A c \in Callers : caller[c].pc = "idle")
=============================================================================
