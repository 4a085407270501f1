--------------------------- MODULE ConnectionProofs ---------------------------
(***************************************************************************)
(* That no request is executed twice, for any number of callers, requests, *)
(* connections and any faults.  The invariant is not inductive: it rests   *)
(* on a request being in at most one place of one connection's queue, only *)
(* while it was not executed, and only after its caller wrote it.          *)
(***************************************************************************)
EXTENDS Connection, SequenceTheorems, TLAPS

Record ==
  [end : {"unused", "open", "broken", "closed"}, mu : Callers \cup {None},
   out : Seq(Requests), in : Seq(Requests)]

Local ==
  [pc : {"idle", "conn", "lock", "read", "notSent", "failed"},
   n : 0 .. MaxRequests, try : 1 .. 2, on : Conns]

TypeInv ==
  /\ pooled \in Conns \cup {None} /\ dialled \in 0 .. MaxConns /\ closed \in BOOLEAN
  /\ conn \in [Conns -> Record] /\ caller \in [Callers -> Local]
  /\ executed \in [Requests -> Nat]
  /\ answer \in [Requests -> Requests \cup {Error, None}]
  /\ \A c \in Callers : caller[c].pc # "idle" => caller[c].n > 0

\* Its caller has not begun the call yet, or no write of it succeeded so far.
Unsent(q) ==
  \/ caller[q[1]].n < q[2]
  \/ caller[q[1]].n = q[2] /\ caller[q[1]].pc \in {"conn", "lock", "notSent"}

\* What is queued was not executed, and is queued in one place.
QueuedOnce ==
  /\ \A k \in Conns : \A i \in DOMAIN conn[k].out : executed[conn[k].out[i]] = 0
  /\ \A k, l \in Conns : \A i \in DOMAIN conn[k].out : \A j \in DOMAIN conn[l].out :
        conn[k].out[i] = conn[l].out[j] => k = l /\ i = j

UnsentIsNowhere ==
  \A q \in Requests : Unsent(q) =>
    /\ executed[q] = 0
    /\ \A k \in Conns : \A i \in DOMAIN conn[k].out : conn[k].out[i] # q

IInv == TypeInv /\ QueuedOnce /\ UnsentIsNowhere /\ ExecutedAtMostOnce

-----------------------------------------------------------------------------
(* Types.                                                                  *)

LEMMA ConnQueues ==
  ASSUME NEW f \in [Conns -> Record], NEW k \in Conns, NEW s \in Seq(Requests), NEW t \in Seq(Requests)
  PROVE  [f EXCEPT ![k].out = s, ![k].in = t] \in [Conns -> Record]
  BY ZenonT(30) DEF Record

LEMMA ConnMu ==
  ASSUME NEW f \in [Conns -> Record], NEW k \in Conns, NEW m \in Callers \cup {None}
  PROVE  /\ [f EXCEPT ![k].mu = m] \in [Conns -> Record]
         /\ \A s \in Seq(Requests) : /\ [f EXCEPT ![k].mu = m, ![k].out = s] \in [Conns -> Record]
                                     /\ [f EXCEPT ![k].mu = m, ![k].in = s] \in [Conns -> Record]
  <1>1. [f EXCEPT ![k].mu = m] \in [Conns -> Record]
    BY Zenon DEF Record
  <1>2. ASSUME NEW s \in Seq(Requests) PROVE [f EXCEPT ![k].mu = m, ![k].out = s] \in [Conns -> Record]
    BY ZenonT(30) DEF Record
  <1>3. ASSUME NEW s \in Seq(Requests) PROVE [f EXCEPT ![k].mu = m, ![k].in = s] \in [Conns -> Record]
    BY ZenonT(30) DEF Record
  <1> QED BY <1>1, <1>2, <1>3, Zenon

LEMMA ConnEnd ==
  ASSUME NEW f \in [Conns -> Record], NEW k \in Conns, NEW e \in {"unused", "open", "broken", "closed"}
  PROVE  /\ [f EXCEPT ![k].end = e] \in [Conns -> Record]
         /\ \A s \in Seq(Requests) : [f EXCEPT ![k].end = e, ![k].out = s] \in [Conns -> Record]
  <1>1. [f EXCEPT ![k].end = e] \in [Conns -> Record]
    BY Zenon DEF Record
  <1>2. ASSUME NEW s \in Seq(Requests) PROVE [f EXCEPT ![k].end = e, ![k].out = s] \in [Conns -> Record]
    BY ZenonT(30) DEF Record
  <1> QED BY <1>1, <1>2, Zenon

LEMMA CallerPc ==
  ASSUME NEW g \in [Callers -> Local], NEW c \in Callers,
         NEW p \in {"idle", "conn", "lock", "read", "notSent", "failed"}
  PROVE  /\ [g EXCEPT ![c].pc = p] \in [Callers -> Local]
         /\ \A k \in Conns : [g EXCEPT ![c].pc = p, ![c].on = k] \in [Callers -> Local]
  <1>1. [g EXCEPT ![c].pc = p] \in [Callers -> Local]
    BY Zenon DEF Local
  <1>2. ASSUME NEW k \in Conns PROVE [g EXCEPT ![c].pc = p, ![c].on = k] \in [Callers -> Local]
    BY ZenonT(30) DEF Local
  <1> QED BY <1>1, <1>2, Zenon

LEMMA InitIInv == Init => IInv
  <1> SUFFICES ASSUME Init PROVE IInv
    BY Zenon
  <1>1. TypeInv
    <2>1. 1 \in Conns /\ 0 \in 0 .. MaxRequests /\ 0 \in 0 .. MaxConns
      BY ConnectionAssumption DEF Conns
    <2>2. conn \in [Conns -> Record]
      BY DEF Init, Record
    <2>3. caller \in [Callers -> Local]
      BY <2>1 DEF Init, Local
    <2> QED BY <2>1, <2>2, <2>3, Zenon DEF Init, TypeInv
  <1>2. QueuedOnce
    BY DEF Init, QueuedOnce
  <1>3. UnsentIsNowhere /\ ExecutedAtMostOnce
    BY DEF Init, UnsentIsNowhere, ExecutedAtMostOnce
  <1> QED BY <1>1, <1>2, <1>3, Zenon DEF IInv

LEMMA TypeStep == TypeInv /\ [Next]_vars => TypeInv'
  <1> SUFFICES ASSUME TypeInv, [Next]_vars PROVE TypeInv'
    BY Zenon
  <1> USE ConnectionAssumption
  <1>i. ConnsClosed \in [Conns -> Record]
    BY ConnEnd, Zenon DEF TypeInv, ConnsClosed
  <1>1. ASSUME NEW c \in Callers, Start(c) PROVE TypeInv'
    BY <1>1 DEF TypeInv, Start, Local
  <1>2. ASSUME NEW c \in Callers, ConnPooled(c) \/ DialFails(c) \/ WriteFails(c) PROVE TypeInv'
    BY <1>2 DEF TypeInv, ConnPooled, DialFails, WriteFails, Local
  <1>3. ASSUME NEW c \in Callers, ConnDialled(c) PROVE TypeInv'
    <2>1. dialled' \in Conns /\ dialled' \in 0 .. MaxConns
      BY <1>3 DEF TypeInv, ConnDialled, Conns
    <2>2. conn' \in [Conns -> Record]
      BY <1>3, <2>1, ConnEnd, Zenon DEF TypeInv, ConnDialled
    <2>3. caller' \in [Callers -> Local]
      BY <1>3, <2>1, CallerPc, Zenon DEF TypeInv, ConnDialled
    <2>4. \A d \in Callers : caller'[d].pc # "idle" => caller'[d].n > 0
      BY <1>3, Zenon DEF TypeInv, ConnDialled, Local
    <2> QED BY <1>3, <2>1, <2>2, <2>3, <2>4, Zenon DEF ConnDialled, TypeInv
  <1>4. ASSUME NEW c \in Callers, Write(c) PROVE TypeInv'
    <2>1. PICK k : k = caller[c].on
      BY Zenon
    <2>2. /\ k \in Conns /\ conn[k].out \in Seq(Requests)
          /\ c \in Callers \cup {None}
      BY <1>4, <2>1, Zenon DEF Write, TypeInv, Local, Record
    <2>11. caller[c].n \in 0 .. MaxRequests /\ caller[c].n > 0
      BY <1>4, Zenon DEF Write, TypeInv, Local
    <2>3. caller[c].n \in 1 .. MaxRequests
      BY <2>11
    <2>4. Request(c) \in Requests
      BY <2>3, Zenon DEF Request, Requests
    <2>5. PICK s : s = IF conn[k].end = "open" THEN Append(conn[k].out, Request(c)) ELSE conn[k].out
      BY Zenon
    <2>6. s \in Seq(Requests)
      BY <2>2, <2>4, <2>5
    <2>7. conn' = [conn EXCEPT ![k].mu = c, ![k].out = s]
      BY <1>4, <2>1, <2>5, Zenon DEF Write
    <2>8. [conn EXCEPT ![k].mu = c, ![k].out = s] \in [Conns -> Record]
      BY <2>2, <2>6, ConnMu, Zenon DEF TypeInv
    <2>9. caller' \in [Callers -> Local]
      BY <1>4, CallerPc, Zenon DEF Write, TypeInv
    <2>10. \A d \in Callers : caller'[d].pc # "idle" => caller'[d].n > 0
      BY <1>4, Zenon DEF Write, TypeInv, Local
    <2> QED BY <1>4, <2>7, <2>8, <2>9, <2>10, Zenon DEF Write, TypeInv
  <1>5. ASSUME NEW c \in Callers, Read(c) PROVE TypeInv'
    <2> DEFINE k == caller[c].on
    <2>1. k \in Conns /\ conn[k] \in Record /\ conn[k].in # <<>>
      BY <1>5, Zenon DEF Read, TypeInv, Local
    <2>2. Head(conn[k].in) \in Requests /\ Tail(conn[k].in) \in Seq(Requests)
      BY <2>1 DEF Record
    <2>3. conn' = [conn EXCEPT ![k].mu = None, ![k].in = Tail(conn[k].in)]
      BY <1>5, Zenon DEF Read
    <2>4. [conn EXCEPT ![k].mu = None, ![k].in = Tail(conn[k].in)] \in [Conns -> Record]
      BY <2>1, <2>2, ConnMu, Zenon DEF TypeInv
    <2>5. answer' \in [Requests -> Requests \cup {Error, None}]
      BY <1>5, <2>2, Zenon DEF Read, TypeInv
    <2>6. caller' \in [Callers -> Local]
      BY <1>5, CallerPc, Zenon DEF Read, TypeInv
    <2>7. \A d \in Callers : caller'[d].pc # "idle" => caller'[d].n > 0
      BY <1>5, Zenon DEF Read, TypeInv, Local
    <2> QED BY <1>5, <2>3, <2>4, <2>5, <2>6, <2>7, Zenon DEF Read, TypeInv
  <1>6. ASSUME NEW c \in Callers, ReadFails(c) PROVE TypeInv'
    <2>1. conn' \in [Conns -> Record]
      <3>1. caller[c].on \in Conns
        BY Zenon DEF TypeInv, Local
      <3> QED BY <1>6, <3>1, ConnMu, Zenon DEF ReadFails, MuAfterError, TypeInv
    <2>2. caller' \in [Callers -> Local]
      BY <1>6, Zenon DEF ReadFails, TypeInv, Local
    <2>3. \A d \in Callers : caller'[d].pc # "idle" => caller'[d].n > 0
      BY <1>6, Zenon DEF ReadFails, TypeInv, Local
    <2> QED BY <1>6, <2>1, <2>2, <2>3, Zenon DEF ReadFails, TypeInv
  <1>7. ASSUME NEW c \in Callers, Resend(c) PROVE TypeInv'
    BY <1>7, <1>i DEF TypeInv, Resend, MayResend, Invalidate, ConnsInvalidated, Local
  <1>8. ASSUME NEW c \in Callers, Fail(c) PROVE TypeInv'
    <2>1. caller' \in [Callers -> Local]
      BY <1>8, CallerPc, Zenon DEF TypeInv, Fail
    <2>2. \A d \in Callers : caller'[d].pc # "idle" => caller'[d].n > 0
      BY <1>8, Zenon DEF Fail, TypeInv, Local
    <2>3. answer' \in [Requests -> Requests \cup {Error, None}]
      BY <1>8, Zenon DEF Fail, TypeInv
    <2> QED BY <1>8, <1>i, <2>1, <2>2, <2>3, Zenon DEF TypeInv, Fail, Invalidate, ConnsInvalidated
  <1>9. ASSUME NEW k \in Conns, Execute(k) PROVE TypeInv'
    <2>1. conn[k] \in Record /\ conn[k].out # <<>>
      BY <1>9, Zenon DEF Execute, TypeInv
    <2>2. Head(conn[k].out) \in Requests /\ Tail(conn[k].out) \in Seq(Requests)
      BY <2>1 DEF Record
    <2>5. Append(conn[k].in, Head(conn[k].out)) \in Seq(Requests)
      BY <2>1, <2>2 DEF Record
    <2>6. conn' = [conn EXCEPT ![k].out = Tail(conn[k].out),
                               ![k].in = Append(conn[k].in, Head(conn[k].out))]
      BY <1>9, Zenon DEF Execute
    <2>3. conn' \in [Conns -> Record]
      BY <2>2, <2>5, <2>6, ConnQueues, Zenon DEF TypeInv
    <2>4. executed' \in [Requests -> Nat]
      <3>1. executed \in [Requests -> Nat]
        BY Zenon DEF TypeInv
      <3>2. executed' = [executed EXCEPT ![Head(conn[k].out)] = executed[Head(conn[k].out)] + 1]
        BY <1>9, Zenon DEF Execute
      <3> QED BY <2>2, <3>1, <3>2
    <2> QED BY <1>9, <2>3, <2>4, Zenon DEF Execute, TypeInv
  <1>10. ASSUME NEW k \in Conns, Break(k) PROVE TypeInv'
    <2>1. conn' \in [Conns -> Record]
      <3>1. <<>> \in Seq(Requests)
        OBVIOUS
      <3>2. [conn EXCEPT ![k].end = "broken", ![k].out = <<>>] \in [Conns -> Record]
        BY <3>1, ConnEnd, Zenon DEF TypeInv
      <3> QED BY <1>10, <3>2, Zenon DEF Break
    <2> QED BY <1>10, <2>1, Zenon DEF Break, TypeInv
  <1>11. CASE Close
    BY <1>11, <1>i, Zenon DEF TypeInv, Close
  <1>12. CASE UNCHANGED vars
    BY <1>12, Zenon DEF TypeInv, vars
  <1> QED BY <1>1, <1>2, <1>3, <1>4, <1>5, <1>6, <1>7, <1>8, <1>9, <1>10, <1>11, <1>12
          DEF Next, Call, AtRest

-----------------------------------------------------------------------------
(* Most steps leave the queues and the broker alone, and send nothing.     *)
Quiet ==
  /\ UNCHANGED executed
  /\ \A k \in Conns : conn'[k].out = conn[k].out
  /\ \A q \in Requests : Unsent(q)' => Unsent(q)

LEMMA QuietStep == IInv /\ TypeInv' /\ Quiet => IInv'
  BY DEF IInv, Quiet, QueuedOnce, UnsentIsNowhere, ExecutedAtMostOnce

LEMMA QuietSteps ==
  ASSUME TypeInv, NEW c \in Callers,
         \/ Start(c) \/ ConnPooled(c) \/ ConnDialled(c) \/ DialFails(c) \/ WriteFails(c)
         \/ Read(c) \/ ReadFails(c) \/ Resend(c) \/ Fail(c)
  PROVE  Quiet
  <1>0. conn \in [Conns -> Record] /\ caller \in [Callers -> Local]
        /\ pooled \in Conns \cup {None}
    BY Zenon DEF TypeInv
  <1>1. UNCHANGED executed
    BY Zenon DEF Start, ConnPooled, ConnDialled, DialFails, WriteFails, Read, ReadFails, Resend, Fail
  <1>2. ASSUME NEW k \in Conns PROVE ConnsClosed[k].out = conn[k].out
    BY <1>0, Zenon DEF ConnsClosed, Record
  <1>3. ASSUME NEW k \in Conns PROVE conn'[k].out = conn[k].out
    <2>1. CASE Start(c) \/ ConnPooled(c) \/ DialFails(c) \/ WriteFails(c)
      BY <2>1, Zenon DEF Start, ConnPooled, DialFails, WriteFails
    <2>2. CASE ConnDialled(c)
      BY <1>0, <2>2, Zenon DEF ConnDialled, Record
    <2>3. CASE Read(c)
      BY <1>0, <2>3, Zenon DEF Read, Record
    <2>4. CASE ReadFails(c)
      BY <1>0, <2>4, Zenon DEF ReadFails, Record
    <2>5. CASE Resend(c) \/ Fail(c)
      BY <2>5, <1>2, Zenon DEF Resend, Fail, Invalidate, ConnsInvalidated
    <2> QED BY <2>1, <2>2, <2>3, <2>4, <2>5, Zenon
  <1>4. ASSUME NEW d \in Callers, d # c PROVE caller'[d] = caller[d]
    BY <1>0, <1>4, Zenon DEF Start, ConnPooled, ConnDialled, DialFails, WriteFails, Read, ReadFails, Resend, Fail
  <1>5. \/ caller'[c].n = caller[c].n /\ caller[c].pc \in {"conn", "lock", "notSent"}
        \/ caller'[c].n = caller[c].n /\ caller'[c].pc \in {"idle", "failed"}
        \/ caller'[c].n = caller[c].n + 1
    <2>1. CASE Start(c)
      BY <1>0, <2>1, Zenon DEF Local, Start
    <2>2. CASE ConnPooled(c) \/ ConnDialled(c) \/ DialFails(c) \/ WriteFails(c)
      BY <1>0, <2>2 DEF Local, ConnPooled, ConnDialled, DialFails, WriteFails
    <2>3. CASE Read(c)
      BY <1>0, <2>3, Zenon DEF Local, Read
    <2>5. CASE ReadFails(c)
      BY <1>0, <2>5, Zenon DEF Local, ReadFails
    <2>4. CASE Resend(c) \/ Fail(c)
      BY <1>0, <2>4 DEF Local, Resend, Fail, MayResend
    <2> QED BY <2>1, <2>2, <2>3, <2>4, <2>5, Zenon
  <1>6. ASSUME NEW q \in Requests, Unsent(q)' PROVE Unsent(q)
    <2>1. q[1] \in Callers /\ q[2] \in Nat /\ caller[q[1]].n \in Nat
      BY <1>0 DEF Requests, Local
    <2> QED BY <1>4, <1>5, <1>6, <2>1 DEF Unsent
  <1> QED BY <1>1, <1>3, <1>6, Zenon DEF Quiet

-----------------------------------------------------------------------------
(* The three steps that change a queue.                                    *)

\* An item of an extended sequence is an old one or the new one.
LEMMA AppendedItem ==
  ASSUME NEW S, NEW s \in Seq(S), NEW x \in S, NEW i \in DOMAIN Append(s, x)
  PROVE  \/ i \in DOMAIN s /\ Append(s, x)[i] = s[i]
         \/ i = Len(s) + 1 /\ Append(s, x)[i] = x
  <1>1. Len(s) \in Nat /\ DOMAIN s = 1 .. Len(s) /\ DOMAIN Append(s, x) = 1 .. Len(s) + 1
    OBVIOUS
  <1>2. CASE i = Len(s) + 1
    BY <1>2
  <1>3. CASE i # Len(s) + 1
    <2>1. i \in 1 .. Len(s)
      BY <1>1, <1>3
    <2> QED BY <1>1, <2>1
  <1> QED BY <1>2, <1>3, Zenon

LEMMA WriteStep ==
  ASSUME IInv, TypeInv', NEW c \in Callers, Write(c)
  PROVE  IInv'
  <1>1. PICK k \in Conns : k = caller[c].on
    BY Zenon DEF IInv, TypeInv, Local
  <1>2. PICK q \in Requests : q = Request(c)
    <2>1. caller[c].n \in 0 .. MaxRequests /\ caller[c].n > 0
      BY Zenon DEF Write, IInv, TypeInv, Local
    <2>2. caller[c].n \in 1 .. MaxRequests
      BY <2>1
    <2> QED BY <2>2, Zenon DEF Request, Requests
  <1>3. Unsent(q)
    BY <1>2, Zenon DEF Write, Unsent, Request
  <1>4. /\ \A d \in Callers \ {c} : caller'[d] = caller[d]
        /\ caller'[c].n = caller[c].n /\ caller'[c].pc = "read"
    <2>1. caller \in [Callers -> Local] /\ caller' = [caller EXCEPT ![c].pc = "read"]
      BY Zenon DEF IInv, TypeInv, Write
    <2> QED BY <2>1, Zenon DEF Local
  <1>5. ASSUME NEW r \in Requests, Unsent(r)' PROVE r # q /\ Unsent(r)
    <2>1. r[1] \in Callers /\ r[2] \in Nat
      BY DEF Requests
    <2>2. caller[r[1]].n \in Nat
      BY <2>1 DEF IInv, TypeInv, Local
    <2> QED BY <1>2, <1>4, <1>5, <2>1, <2>2 DEF Unsent, Request
  <1>6. /\ \A l \in Conns \ {k} : conn'[l] = conn[l]
        /\ conn'[k].out = conn[k].out \/ conn'[k].out = Append(conn[k].out, q)
    <2>1. PICK s : s = IF conn[k].end = "open" THEN Append(conn[k].out, q) ELSE conn[k].out
      BY Zenon
    <2>2. conn' = [conn EXCEPT ![k].mu = c, ![k].out = s] /\ conn \in [Conns -> Record]
      BY <1>1, <1>2, <2>1, Zenon DEF Write, IInv, TypeInv
    <2>3. \A l \in Conns \ {k} : conn'[l] = conn[l]
      BY <2>2, Zenon
    <2>4. conn'[k].out = s
      BY <2>2, Zenon DEF Record
    <2> QED BY <2>1, <2>3, <2>4, Zenon
  <1>7. conn[k].out \in Seq(Requests)
    BY Zenon DEF IInv, TypeInv, Record
  <1>8. executed' = executed
    BY Zenon DEF Write
  <1>9. ASSUME NEW l \in Conns, NEW i \in DOMAIN conn'[l].out
        PROVE  \/ i \in DOMAIN conn[l].out /\ conn'[l].out[i] = conn[l].out[i]
               \/ l = k /\ i = Len(conn[k].out) + 1 /\ conn'[l].out[i] = q
    <2>1. CASE l = k
      <3>1. CASE conn'[k].out = conn[k].out
        BY <2>1, <3>1, Zenon
      <3>2. CASE conn'[k].out = Append(conn[k].out, q)
        <4>1. PICK s \in Seq(Requests) : s = conn[k].out
          BY <1>7, Zenon
        <4>2. i \in DOMAIN Append(s, q)
          BY <2>1, <3>2, <4>1, Zenon
        <4>3. \/ i \in DOMAIN s /\ Append(s, q)[i] = s[i]
              \/ i = Len(s) + 1 /\ Append(s, q)[i] = q
          BY <4>2, AppendedItem, Zenon
        <4> QED BY <2>1, <3>2, <4>1, <4>3, Zenon
      <3> QED BY <1>6, <3>1, <3>2, Zenon
    <2> QED BY <1>6, <2>1, Zenon
  <1>10. \A l \in Conns : \A i \in DOMAIN conn[l].out : conn[l].out[i] # q
    BY <1>3, Zenon DEF IInv, UnsentIsNowhere
  <1>11. QueuedOnce'
    BY <1>3, <1>8, <1>9, <1>10 DEF IInv, QueuedOnce, UnsentIsNowhere
  <1>12. UnsentIsNowhere'
    BY <1>5, <1>8, <1>9, Zenon DEF IInv, UnsentIsNowhere
  <1> QED BY <1>8, <1>11, <1>12, Zenon DEF IInv, ExecutedAtMostOnce

LEMMA ExecuteStep ==
  ASSUME IInv, TypeInv', NEW k \in Conns, Execute(k)
  PROVE  IInv'
  <1>1. conn[k].out \in Seq(Requests) /\ conn[k].out # <<>>
    BY Zenon DEF IInv, TypeInv, Record, Execute
  <1>2. PICK q \in Requests : q = Head(conn[k].out)
    BY <1>1
  <1>3. 1 \in DOMAIN conn[k].out /\ conn[k].out[1] = q
    BY <1>1, <1>2
  <1>4. /\ \A l \in Conns \ {k} : conn'[l] = conn[l]
        /\ conn'[k].out = Tail(conn[k].out)
    <2>1. PICK t : t = Append(conn[k].in, Head(conn[k].out))
      BY Zenon
    <2>2. conn' = [conn EXCEPT ![k].out = Tail(conn[k].out), ![k].in = t] /\ conn \in [Conns -> Record]
      BY <2>1, Zenon DEF Execute, IInv, TypeInv
    <2>3. \A l \in Conns \ {k} : conn'[l] = conn[l]
      BY <2>2, Zenon
    <2> QED BY <2>2, <2>3 DEF Record
  <1>5. ASSUME NEW l \in Conns, NEW i \in DOMAIN conn'[l].out
        PROVE  \E j \in DOMAIN conn[l].out :
                 conn'[l].out[i] = conn[l].out[j] /\ j = IF l = k THEN i + 1 ELSE i
    <2>1. CASE l = k
      <3> DEFINE s == conn[k].out
      <3>1. /\ Tail(s) \in Seq(Requests) /\ Len(Tail(s)) = Len(s) - 1
            /\ \A m \in 1 .. Len(Tail(s)) : Tail(s)[m] = s[m + 1]
        BY <1>1, HeadTailProperties, Zenon
      <3>2. DOMAIN s = 1 .. Len(s) /\ DOMAIN Tail(s) = 1 .. Len(Tail(s)) /\ Len(s) \in Nat
        BY <1>1, <3>1, LenProperties, Zenon
      <3>3. i \in DOMAIN Tail(s) /\ conn'[l].out = Tail(s)
        BY <1>4, <2>1, Zenon
      <3> HIDE DEF s
      <3>4. i + 1 \in DOMAIN s /\ Tail(s)[i] = s[i + 1]
        BY <3>1, <3>2, <3>3
      <3> QED BY <2>1, <3>3, <3>4, Zenon DEF s
    <2> QED BY <1>4, <2>1, Zenon
  <1>6. executed[q] = 0
    BY <1>3, Zenon DEF IInv, QueuedOnce
  <1>7. /\ \A r \in Requests \ {q} : executed'[r] = executed[r]
        /\ executed'[q] = 1
    BY <1>2, <1>6 DEF IInv, TypeInv, Execute
  <1>8. ~Unsent(q) /\ \A r \in Requests : Unsent(r)' = Unsent(r)
    BY <1>3, Zenon DEF IInv, UnsentIsNowhere, Execute, Unsent
  <1>9. ASSUME NEW l \in Conns, NEW i \in DOMAIN conn'[l].out
        PROVE  conn'[l].out[i] \in Requests \ {q}
    <2>1. PICK j \in DOMAIN conn[l].out :
            conn'[l].out[i] = conn[l].out[j] /\ j = IF l = k THEN i + 1 ELSE i
      BY <1>5, Zenon
    <2>2. conn[l].out \in Seq(Requests) /\ conn'[l].out \in Seq(Requests)
      BY Zenon DEF IInv, TypeInv, Record
    <2>3. l = k => j # 1
      BY <2>1, <2>2
    <2> QED BY <1>3, <2>1, <2>2, <2>3 DEF IInv, QueuedOnce
  <1>10. QueuedOnce'
    <2>1. ASSUME NEW l \in Conns, NEW i \in DOMAIN conn'[l].out PROVE executed'[conn'[l].out[i]] = 0
      BY <1>5, <1>7, <1>9 DEF IInv, QueuedOnce
    <2>2. ASSUME NEW l \in Conns, NEW m \in Conns, NEW i \in DOMAIN conn'[l].out,
                 NEW j \in DOMAIN conn'[m].out, conn'[l].out[i] = conn'[m].out[j]
          PROVE  l = m /\ i = j
      <3>1. conn'[l].out \in Seq(Requests) /\ conn'[m].out \in Seq(Requests)
        BY Zenon DEF TypeInv, Record
      <3>2. i \in Int /\ j \in Int
        BY <3>1
      <3> QED BY <1>5, <2>2, <3>2 DEF IInv, QueuedOnce
    <2> QED BY <2>1, <2>2, Zenon DEF QueuedOnce
  <1>11. UnsentIsNowhere'
    BY <1>5, <1>7, <1>8 DEF IInv, UnsentIsNowhere
  <1>12. ExecutedAtMostOnce'
    BY <1>7 DEF IInv, ExecutedAtMostOnce
  <1> QED BY <1>10, <1>11, <1>12, Zenon DEF IInv

LEMMA BreakStep ==
  ASSUME IInv, TypeInv', NEW k \in Conns, Break(k)
  PROVE  IInv'
  <1>1. /\ \A l \in Conns \ {k} : conn'[l] = conn[l]
        /\ conn'[k].out = <<>>
    BY DEF IInv, TypeInv, Record, Break
  <1>2. UNCHANGED <<caller, executed>>
    BY Zenon DEF Break
  <1>3. ASSUME NEW l \in Conns, NEW i \in DOMAIN conn'[l].out
        PROVE  i \in DOMAIN conn[l].out /\ conn'[l].out[i] = conn[l].out[i]
    BY <1>1
  <1>4. QueuedOnce'
    BY <1>2, <1>3 DEF IInv, QueuedOnce
  <1>5. UnsentIsNowhere'
    BY <1>2, <1>3 DEF IInv, UnsentIsNowhere, Unsent
  <1> QED BY <1>2, <1>4, <1>5, Zenon DEF IInv, ExecutedAtMostOnce

LEMMA Inductive == IInv /\ [Next]_vars => IInv'
  <1> SUFFICES ASSUME IInv, [Next]_vars PROVE IInv'
    BY Zenon
  <1>0. TypeInv /\ TypeInv'
    BY TypeStep, Zenon DEF IInv
  <1>1. ASSUME NEW c \in Callers, Start(c) \/ Call(c) PROVE IInv'
    <2>1. CASE Write(c)
      BY <1>0, <2>1, WriteStep, Zenon
    <2>2. CASE ~Write(c)
      BY <1>0, <1>1, <2>2, QuietSteps, QuietStep, Zenon DEF Call
    <2> QED BY <2>1, <2>2, Zenon
  <1>2. ASSUME NEW k \in Conns, Execute(k) \/ Break(k) PROVE IInv'
    BY <1>0, <1>2, ExecuteStep, BreakStep, Zenon
  <1>3. CASE Close
    <2>1. \A k \in Conns : conn'[k].out = conn[k].out
      BY <1>0, <1>3, Zenon DEF Close, ConnsClosed, TypeInv, Record
    <2>2. Quiet
      BY <1>3, <2>1, Zenon DEF Close, Quiet, Unsent
    <2> QED BY <1>0, <2>2, QuietStep, Zenon
  <1>4. CASE UNCHANGED vars
    <2>1. Quiet
      BY <1>4, Zenon DEF vars, Quiet, Unsent
    <2> QED BY <1>0, <2>1, QuietStep, Zenon
  <1> QED BY <1>1, <1>2, <1>3, <1>4, Zenon DEF Next, AtRest

\* No request is executed twice, whatever number of callers share the
\* connection and however connections break, time out or are closed under
\* them: Cluster.Request resends only what was not written (cluster.go:345).
THEOREM RequestsRunOnce == Spec => []ExecutedAtMostOnce
  <1>1. Init => IInv
    BY InitIInv, Zenon
  <1>2. IInv /\ [Next]_vars => IInv'
    BY Inductive, Zenon
  <1>3. IInv => ExecutedAtMostOnce
    BY Zenon DEF IInv
  <1> QED BY <1>1, <1>2, <1>3, PTL DEF Spec

-----------------------------------------------------------------------------
(* Responses are matched to requests by their place in the stream alone.   *)
(* That is right as long as no reader gives up on an open connection.      *)

\* A connection that is not closed carries the one request of the caller that
\* holds its mutex, as a request or as a response, and nothing otherwise.
Carries(k) ==
  /\ conn[k].mu = None => conn[k].out = <<>> /\ conn[k].in = <<>>
  /\ conn[k].mu # None =>
        /\ caller[conn[k].mu].pc = "read" /\ caller[conn[k].mu].on = k
        /\ \/ conn[k].out = <<Request(conn[k].mu)>> /\ conn[k].in = <<>>
           \/ conn[k].out = <<>> /\ conn[k].in = <<Request(conn[k].mu)>>

Paired ==
  /\ \A k \in Conns : conn[k].end # "closed" => Carries(k)
  /\ \A k \in Conns : conn[k].end = "unused" => conn[k].mu = None
  /\ \A k \in Conns : k > dialled => conn[k].end = "unused"
  /\ \A k \in Conns : conn[k].end # "broken"
  /\ pooled # None => pooled <= dialled
  /\ \A c \in Callers : caller[c].pc = "read" => conn[caller[c].on].mu = c

PInv == TypeInv /\ Paired /\ OwnResponse

NoReaderGivesUp == Faults \subseteq {"dial", "close"}

LEMMA PooledIsDialled == PInv => dialled \in Nat /\ (pooled # None => pooled <= dialled)
  <1> SUFFICES ASSUME PInv PROVE dialled \in Nat /\ (pooled # None => pooled <= dialled)
    BY Zenon
  <1>1. dialled \in 0 .. MaxConns
    BY Zenon DEF PInv, TypeInv
  <1>2. pooled # None => pooled <= dialled
    BY Zenon DEF PInv, Paired
  <1> QED BY <1>1, <1>2

\* A step that moves no reader, no mutex and no queue.
Aside ==
  /\ \A d \in Callers : caller[d].pc = "read" \/ caller'[d].pc = "read" => caller'[d] = caller[d]
  /\ \A k \in Conns :
        /\ conn'[k].mu = conn[k].mu /\ conn'[k].out = conn[k].out /\ conn'[k].in = conn[k].in
        /\ \/ conn'[k].end = conn[k].end
           \/ conn'[k].end = "closed" /\ k <= dialled
           \/ conn'[k].end = "open" /\ conn[k].end = "unused" /\ k <= dialled'
  /\ dialled' >= dialled
  /\ pooled' # None => pooled' <= dialled'
  /\ \A q \in Requests : answer'[q] = answer[q] \/ answer'[q] = Error

LEMMA AsideStep ==
  ASSUME PInv, TypeInv', Aside
  PROVE  Paired' /\ OwnResponse'
  <1> USE ConnectionAssumption
  <1>0. /\ \A k \in Conns : conn[k].mu \in Callers \cup {None} /\ k \in Int
        /\ \A c \in Callers : caller[c].on \in Conns
        /\ dialled \in Int /\ dialled' \in Int
    <2>1. \A k \in Conns : conn[k].mu \in Callers \cup {None}
      BY Zenon DEF PInv, TypeInv, Record
    <2>2. \A c \in Callers : caller[c].on \in Conns
      BY Zenon DEF PInv, TypeInv, Local
    <2>3. dialled \in Int /\ dialled' \in Int
      BY DEF PInv, TypeInv
    <2> QED BY <2>1, <2>2, <2>3 DEF Conns
  <1>1. ASSUME NEW k \in Conns, conn'[k].end # "closed" PROVE Carries(k)'
    <2>1. Carries(k) /\ conn[k].mu \in Callers \cup {None}
      BY <1>0, <1>1, Zenon DEF PInv, Paired, Aside
    <2>2. conn'[k].mu = conn[k].mu /\ conn'[k].out = conn[k].out /\ conn'[k].in = conn[k].in
      BY Zenon DEF Aside
    <2>3. conn[k].mu # None => caller'[conn[k].mu] = caller[conn[k].mu]
      BY <2>1, Zenon DEF Carries, Aside
    <2> QED BY <2>1, <2>2, <2>3, Zenon DEF Carries, Request
  <1>2. ASSUME NEW k \in Conns
        PROVE  /\ conn'[k].end = "unused" => conn'[k].mu = None
               /\ k > dialled' => conn'[k].end = "unused"
               /\ conn'[k].end # "broken"
    BY <1>0 DEF PInv, Paired, Aside
  <1>3. ASSUME NEW c \in Callers, caller'[c].pc = "read" PROVE conn'[caller'[c].on].mu = c
    BY <1>0, <1>3 DEF PInv, Paired, Aside
  <1>4. Paired'
    BY <1>1, <1>2, <1>3, Zenon DEF Paired, Aside
  <1>5. OwnResponse'
    BY Zenon DEF PInv, OwnResponse, Aside
  <1> QED BY <1>4, <1>5, Zenon

LEMMA AsideSteps ==
  ASSUME PInv, TypeInv', NEW c \in Callers,
         \/ Start(c) \/ ConnPooled(c) \/ ConnDialled(c) \/ DialFails(c) \/ WriteFails(c)
         \/ Resend(c) \/ Fail(c)
  PROVE  Aside
  <1> USE ConnectionAssumption
  <1>0. /\ conn \in [Conns -> Record] /\ caller \in [Callers -> Local]
        /\ pooled \in Conns \cup {None} /\ dialled \in Nat
        /\ answer \in [Requests -> Requests \cup {Error, None}]
        /\ pooled # None => pooled <= dialled
    BY PooledIsDialled, Zenon DEF PInv, TypeInv
  <1>1. /\ \A d \in Callers \ {c} : caller'[d] = caller[d]
        /\ caller[c].pc # "read" /\ caller'[c].pc # "read"
    <2>1. \A d \in Callers \ {c} : caller'[d] = caller[d]
      BY <1>0, Zenon DEF Start, ConnPooled, ConnDialled, DialFails, WriteFails, Resend, Fail
    <2>2. caller[c].pc # "read"
      BY <1>0, Zenon DEF Start, ConnPooled, ConnDialled, DialFails, WriteFails, Resend, Fail
    <2>3. caller'[c].pc # "read"
      BY <1>0 DEF Local, Start, ConnPooled, ConnDialled, DialFails, WriteFails, Resend, Fail
    <2> QED BY <2>1, <2>2, <2>3, Zenon
  <1>6. \A d \in Callers : caller[d].pc = "read" \/ caller'[d].pc = "read" => caller'[d] = caller[d]
    BY <1>1, Zenon
  <1>2. ASSUME NEW k \in Conns
        PROVE  /\ ConnsClosed[k].mu = conn[k].mu /\ ConnsClosed[k].out = conn[k].out
               /\ ConnsClosed[k].in = conn[k].in
               /\ \/ ConnsClosed[k].end = conn[k].end
                  \/ ConnsClosed[k].end = "closed" /\ k <= dialled
    BY <1>0, Zenon DEF ConnsClosed, Record
  <1>3. CASE Start(c) \/ ConnPooled(c) \/ DialFails(c) \/ WriteFails(c)
    <2>1. UNCHANGED <<pooled, conn, dialled, answer>>
      BY <1>3, Zenon DEF Start, ConnPooled, DialFails, WriteFails
    <2>2. dialled' >= dialled /\ (pooled' # None => pooled' <= dialled')
      BY <1>0, <2>1
    <2> QED BY <1>6, <2>1, <2>2, Zenon DEF Aside
  <1>4. CASE ConnDialled(c)
    <2>1. dialled' = dialled + 1 /\ dialled' \in Conns /\ pooled' = dialled'
      BY <1>0, <1>4 DEF ConnDialled, Conns
    <2>2. conn[dialled'].end = "unused"
      BY <1>0, <2>1 DEF PInv, Paired
    <2>3. ASSUME NEW k \in Conns
          PROVE  /\ conn'[k].mu = conn[k].mu /\ conn'[k].out = conn[k].out /\ conn'[k].in = conn[k].in
                 /\ \/ conn'[k].end = conn[k].end
                    \/ conn'[k].end = "open" /\ conn[k].end = "unused" /\ k = dialled'
      <3>1. conn' = [conn EXCEPT ![dialled'].end = "open"]
        BY <1>4, Zenon DEF ConnDialled
      <3> QED BY <1>0, <2>2, <3>1, Zenon DEF Record
    <2>4. UNCHANGED answer
      BY <1>4, Zenon DEF ConnDialled
    <2>5. dialled' >= dialled /\ pooled' <= dialled' /\ dialled' <= dialled'
      BY <1>0, <2>1
    <2> QED BY <1>6, <2>3, <2>4, <2>5, Zenon DEF Aside
  <1>5. CASE Resend(c) \/ Fail(c)
    <2>1. conn' = ConnsClosed /\ pooled' = None /\ UNCHANGED dialled
      BY <1>5, Zenon DEF Resend, Fail, Invalidate, ConnsInvalidated
    <2>2. \A q \in Requests : answer'[q] = answer[q] \/ answer'[q] = Error
      BY <1>0, <1>5, Zenon DEF Resend, Fail
    <2>3. dialled' >= dialled
      BY <1>0, <2>1
    <2> QED BY <1>2, <1>6, <2>1, <2>2, <2>3, Zenon DEF Aside
  <1> QED BY <1>3, <1>4, <1>5, Zenon

\* A step that changes connection k alone, and callers on it.
OnlyAt(k) ==
  /\ UNCHANGED <<pooled, dialled>>
  /\ \A l \in Conns \ {k} : conn'[l] = conn[l]
  /\ conn'[k].end = conn[k].end
  /\ \A d \in Callers : caller'[d] # caller[d] => caller[d].on = k /\ caller'[d].on = k
  /\ \A d \in Callers : caller'[d].pc = "read" /\ caller'[d].on = k => conn'[k].mu = d
  /\ conn'[k].end = "unused" => conn'[k].mu = None

LEMMA OneConnection ==
  ASSUME PInv, NEW k \in Conns, OnlyAt(k),
         conn'[k].end # "closed" => Carries(k)'
  PROVE  Paired'
  <1> USE DEF OnlyAt
  <1>0. /\ \A l \in Conns : conn[l].mu \in Callers \cup {None}
        /\ \A c \in Callers : caller[c].on \in Conns
    <2>1. \A l \in Conns : conn[l].mu \in Callers \cup {None}
      BY Zenon DEF PInv, TypeInv, Record
    <2>2. \A c \in Callers : caller[c].on \in Conns
      BY Zenon DEF PInv, TypeInv, Local
    <2> QED BY <2>1, <2>2, Zenon
  <1>1. ASSUME NEW l \in Conns, conn'[l].end # "closed" PROVE Carries(l)'
    <2>1. CASE l # k
      <3>1. Carries(l) /\ conn'[l] = conn[l]
        BY <1>1, <2>1, Zenon DEF PInv, Paired
      <3>2. conn[l].mu # None => conn[l].mu \in Callers /\ caller[conn[l].mu].on = l
        BY <1>0, <3>1, Zenon DEF Carries
      <3>3. conn[l].mu # None => caller'[conn[l].mu] = caller[conn[l].mu]
        BY <2>1, <3>2, Zenon
      <3> QED BY <3>1, <3>3, Zenon DEF Carries, Request
    <2> QED BY <1>1, <2>1, Zenon
  <1>2. ASSUME NEW d \in Callers, caller'[d].pc = "read" PROVE conn'[caller'[d].on].mu = d
    <2>1. CASE caller'[d].on = k
      BY <1>2, <2>1, Zenon
    <2>2. CASE caller'[d].on # k
      <3>1. caller'[d] = caller[d] /\ caller[d].on \in Conns \ {k}
        BY <1>0, <2>2, Zenon
      <3> QED BY <1>2, <3>1, Zenon DEF PInv, Paired
    <2> QED BY <2>1, <2>2, Zenon
  <1>3. ASSUME NEW l \in Conns
        PROVE  /\ conn'[l].end = "unused" => conn'[l].mu = None
               /\ l > dialled' => conn'[l].end = "unused"
               /\ conn'[l].end # "broken"
    BY Zenon DEF PInv, Paired
  <1>4. pooled' # None => pooled' <= dialled'
    BY Zenon DEF PInv, Paired
  <1> QED BY <1>1, <1>2, <1>3, <1>4, Zenon DEF Paired

LEMMA PairedWrite ==
  ASSUME PInv, NEW c \in Callers, Write(c)
  PROVE  Paired' /\ OwnResponse'
  <1> USE ConnectionAssumption
  <1>0. conn \in [Conns -> Record] /\ caller \in [Callers -> Local]
    BY Zenon DEF PInv, TypeInv
  <1>1. PICK k \in Conns : k = caller[c].on
    BY <1>0, Zenon DEF Local
  <1>2. /\ conn[k].mu = None /\ conn[k].end = "open"
        /\ conn[k].out = <<>> /\ conn[k].in = <<>>
    BY <1>1, Zenon DEF Write, PInv, Paired, Carries
  <1>3. /\ \A l \in Conns \ {k} : conn'[l] = conn[l]
        /\ conn'[k].end = "open" /\ conn'[k].mu = c
        /\ conn'[k].out = <<Request(c)>> /\ conn'[k].in = <<>>
    <2>1. PICK s : s = <<Request(c)>>
      BY Zenon
    <2>2. conn' = [conn EXCEPT ![k].mu = c, ![k].out = s]
      BY <1>1, <1>2, <2>1 DEF Write
    <2> QED BY <1>0, <1>2, <2>1, <2>2, Zenon DEF Record
  <1>4. /\ \A d \in Callers \ {c} : caller'[d] = caller[d]
        /\ caller'[c].pc = "read" /\ caller'[c].on = k /\ caller'[c].n = caller[c].n
    BY <1>0, <1>1, Zenon DEF Write, Local
  <1>5. Carries(k)'
    BY <1>3, <1>4, Zenon DEF Carries, Request
  <1>6. ASSUME NEW d \in Callers, caller'[d].pc = "read", caller'[d].on = k PROVE d = c
    BY <1>2, <1>4, <1>6 DEF PInv, Paired
  <1>7. UNCHANGED <<pooled, dialled, answer>>
    BY Zenon DEF Write
  <1>8. Paired'
    <2>1. OnlyAt(k)
      BY <1>1, <1>2, <1>3, <1>4, <1>6, <1>7, Zenon DEF OnlyAt
    <2> QED BY <1>5, <2>1, OneConnection, Zenon
  <1>9. OwnResponse'
    BY <1>7, Zenon DEF PInv, OwnResponse
  <1> QED BY <1>8, <1>9, Zenon

LEMMA PairedRead ==
  ASSUME PInv, NEW c \in Callers, Read(c)
  PROVE  Paired' /\ OwnResponse'
  <1> USE ConnectionAssumption
  <1>0. conn \in [Conns -> Record] /\ caller \in [Callers -> Local]
    BY Zenon DEF PInv, TypeInv
  <1>1. PICK k \in Conns : k = caller[c].on
    BY <1>0, Zenon DEF Local
  <1>2. /\ conn[k].mu = c /\ conn[k].end \notin {"closed", "unused"}
        /\ conn[k].out = <<>> /\ conn[k].in = <<Request(c)>>
    BY <1>1, Zenon DEF Read, PInv, Paired, Carries
  <1>3. /\ \A l \in Conns \ {k} : conn'[l] = conn[l]
        /\ conn'[k].end = conn[k].end /\ conn'[k].mu = None
        /\ conn'[k].out = <<>> /\ conn'[k].in = <<>>
    <2>1. PICK s : s = <<>>
      BY Zenon
    <2>2. Tail(conn[k].in) = s
      BY <1>2, <2>1
    <2>3. conn' = [conn EXCEPT ![k].mu = None, ![k].in = s]
      BY <1>1, <2>2, Zenon DEF Read
    <2> QED BY <1>0, <1>2, <2>1, <2>3, Zenon DEF Record
  <1>4. /\ \A d \in Callers \ {c} : caller'[d] = caller[d]
        /\ caller'[c].pc = "idle" /\ caller'[c].on = k
    BY <1>0, <1>1, Zenon DEF Read, Local
  <1>5. Carries(k)'
    BY <1>3, Zenon DEF Carries
  <1>6. ASSUME NEW d \in Callers, caller'[d].pc = "read" PROVE caller'[d].on # k
    BY <1>2, <1>4, <1>6, Zenon DEF PInv, Paired
  <1>7. UNCHANGED <<pooled, dialled>>
    BY Zenon DEF Read
  <1>8. Paired'
    <2>1. OnlyAt(k)
      BY <1>1, <1>3, <1>4, <1>6, <1>7, Zenon DEF OnlyAt
    <2> QED BY <1>5, <2>1, OneConnection, Zenon
  <1>9. OwnResponse'
    <2>1. answer' = [answer EXCEPT ![Request(c)] = Request(c)]
      BY <1>1, <1>2 DEF Read
    <2> QED BY <2>1, Zenon DEF PInv, TypeInv, OwnResponse
  <1> QED BY <1>8, <1>9, Zenon

LEMMA PairedReadFails ==
  ASSUME NoReaderGivesUp, PInv, NEW c \in Callers, ReadFails(c)
  PROVE  Paired' /\ OwnResponse'
  <1> USE ConnectionAssumption
  <1>0. conn \in [Conns -> Record] /\ caller \in [Callers -> Local]
    BY Zenon DEF PInv, TypeInv
  <1>1. PICK k \in Conns : k = caller[c].on
    BY <1>0, Zenon DEF Local
  <1>2. conn[k].mu = c /\ conn[k].end = "closed"
    <2>1. conn[k].end \in {"unused", "open", "broken", "closed"}
      BY <1>0, Zenon DEF Record
    <2> QED BY <1>1, <2>1, Zenon DEF ReadFails, NoReaderGivesUp, PInv, Paired
  <1>3. /\ \A l \in Conns \ {k} : conn'[l] = conn[l]
        /\ conn'[k].end = conn[k].end /\ conn'[k].mu = None
    BY <1>0, <1>1, Zenon DEF ReadFails, MuAfterError, Record
  <1>4. /\ \A d \in Callers \ {c} : caller'[d] = caller[d]
        /\ caller'[c].pc = "failed" /\ caller'[c].on = k
    BY <1>0, <1>1, Zenon DEF ReadFails, Local
  <1>5. ASSUME NEW d \in Callers, caller'[d].pc = "read" PROVE caller'[d].on # k
    BY <1>2, <1>4, <1>5, Zenon DEF PInv, Paired
  <1>6. UNCHANGED <<pooled, dialled, answer>>
    BY Zenon DEF ReadFails
  <1>7. Paired'
    <2>1. OnlyAt(k)
      BY <1>1, <1>2, <1>3, <1>4, <1>5, <1>6, Zenon DEF OnlyAt
    <2> QED BY <1>2, <1>3, <2>1, OneConnection, Zenon
  <1> QED BY <1>6, <1>7, Zenon DEF PInv, OwnResponse

LEMMA PairedExecute ==
  ASSUME PInv, NEW k \in Conns, Execute(k)
  PROVE  Paired' /\ OwnResponse'
  <1>0. conn \in [Conns -> Record]
    BY Zenon DEF PInv, TypeInv
  <1>1. PICK s, t : s = Tail(conn[k].out) /\ t = Append(conn[k].in, Head(conn[k].out))
    BY Zenon
  <1>2. conn' = [conn EXCEPT ![k].out = s, ![k].in = t]
    BY <1>1, Zenon DEF Execute
  <1>3. /\ \A l \in Conns \ {k} : conn'[l] = conn[l]
        /\ conn'[k].end = conn[k].end /\ conn'[k].mu = conn[k].mu
        /\ conn'[k].out = s /\ conn'[k].in = t
    BY <1>0, <1>2, Zenon DEF Record
  <1>4. UNCHANGED <<pooled, dialled, caller, answer>>
    BY Zenon DEF Execute
  <1>5. ASSUME conn[k].end # "closed" PROVE Carries(k)'
    <2>1. conn[k].mu # None /\ conn[k].out = <<Request(conn[k].mu)>> /\ conn[k].in = <<>>
      BY <1>5, Zenon DEF Execute, PInv, Paired, Carries
    <2>2. s = <<>> /\ t = <<Request(conn[k].mu)>>
      BY <1>1, <2>1
    <2>3. Carries(k)
      BY <1>5, Zenon DEF PInv, Paired
    <2> QED BY <1>3, <1>4, <2>1, <2>2, <2>3, Zenon DEF Carries, Request
  <1>6. Paired'
    <2>1. OnlyAt(k)
      <3>1. \A d \in Callers : caller[d].pc = "read" /\ caller[d].on = k => conn[k].mu = d
        BY Zenon DEF PInv, Paired
      <3>2. conn[k].end = "unused" => conn[k].mu = None
        BY Zenon DEF PInv, Paired
      <3> QED BY <1>3, <1>4, <3>1, <3>2, Zenon DEF OnlyAt
    <2> QED BY <1>3, <1>5, <2>1, OneConnection, Zenon
  <1> QED BY <1>4, <1>6, Zenon DEF PInv, OwnResponse

LEMMA PairedStep ==
  ASSUME NoReaderGivesUp, PInv, [Next]_vars
  PROVE  PInv'
  <1>0. TypeInv'
    BY TypeStep, Zenon DEF PInv
  <1>1. ASSUME NEW c \in Callers, Start(c) \/ Call(c) PROVE Paired' /\ OwnResponse'
    BY <1>0, <1>1, AsideSteps, AsideStep, PairedWrite, PairedRead, PairedReadFails, Zenon DEF Call
  <1>2. ASSUME NEW k \in Conns, Execute(k) \/ Break(k) PROVE Paired' /\ OwnResponse'
    BY <1>2, PairedExecute, Zenon DEF Break, NoReaderGivesUp
  <1>3. CASE Close
    <2>0. /\ conn \in [Conns -> Record] /\ pooled \in Conns \cup {None} /\ dialled \in Nat
          /\ pooled # None => pooled <= dialled
      BY PooledIsDialled, Zenon DEF PInv, TypeInv
    <2>1. ASSUME NEW k \in Conns
          PROVE  /\ conn'[k].mu = conn[k].mu /\ conn'[k].out = conn[k].out /\ conn'[k].in = conn[k].in
                 /\ conn'[k].end = conn[k].end \/ (conn'[k].end = "closed" /\ k <= dialled)
      BY <1>3, <2>0, Zenon DEF Close, ConnsClosed, Record
    <2>2. UNCHANGED <<dialled, caller, answer>> /\ pooled' = None
      BY <1>3, Zenon DEF Close
    <2>3. Aside
      BY <2>0, <2>1, <2>2 DEF Aside
    <2> QED BY <1>0, <2>3, AsideStep, Zenon DEF PInv
  <1>4. CASE UNCHANGED vars
    <2>1. Aside
      <3>1. UNCHANGED <<pooled, conn, dialled, caller, answer>>
        BY <1>4, Zenon DEF vars
      <3>2. dialled' >= dialled /\ (pooled' # None => pooled' <= dialled')
        BY <3>1, PooledIsDialled
      <3> QED BY <3>1, <3>2, Zenon DEF Aside
    <2> QED BY <1>0, <2>1, AsideStep, Zenon DEF PInv
  <1> QED BY <1>0, <1>1, <1>2, <1>3, <1>4, Zenon DEF Next, AtRest, PInv

\* "Request sends a Kafka request and returns the full response frame"
\* (conn.go:113) holds for any number of callers and connections that are
\* dialled, refused and closed under them, provided that no read is given up
\* on and no broker goes away: the conditions that OwnResponse fails without.
THEOREM ResponsesArePaired ==
  ASSUME NoReaderGivesUp
  PROVE  Spec => []OwnResponse
  <1>1. Init => PInv
    <2> SUFFICES ASSUME Init PROVE PInv
      BY Zenon
    <2>1. TypeInv
      BY InitIInv, Zenon DEF IInv
    <2>2. Paired
      BY Zenon DEF Init, Paired, Carries
    <2> QED BY <2>1, <2>2, Zenon DEF Init, PInv, OwnResponse
  <1>2. PInv /\ [Next]_vars => PInv'
    BY PairedStep, Zenon
  <1>3. PInv => OwnResponse
    BY Zenon DEF PInv
  <1> QED BY <1>1, <1>2, <1>3, PTL DEF Spec
===============================================================================
