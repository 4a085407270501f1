------------------------------ MODULE FakeBroker ------------------------------
(***************************************************************************)
(* The in-memory broker of kfake/: one goroutine per connection, a store   *)
(* under one mutex, and fault injection under another.  A Produce request  *)
(* takes its fault first and then appends one partition at a time, each    *)
(* under the store's mutex of its own, so that other connections, Delete-  *)
(* Topics and Close come in between.  One topic; the groups are left out.  *)
(***************************************************************************)
EXTENDS Integers, Sequences

CONSTANTS
  Conns,         \* client connections
  Parts,         \* partitions of the topic
  None,
  Ops,           \* bound: the operations that happen
  MaxLen,        \* bound: records in a batch
  MaxRequests,   \* bound: Produce requests
  MaxFaults,     \* bound: n of FailNextProduce
  MaxTopics      \* bound: how often the topic is created

VARIABLES
  topic,        \* the topic's id in store.topics, None when it is not there
  nextUUID,     \* a byte in the code; only here does it tell a topic from the one before
  log,          \* batches of a partition, with the request that brought them
  leo,          \* log end offset of a partition
  fault,        \* produceFailN and the partition it is for, None for all
  conn,         \* the Produce request that a connection's goroutine is handling
  sent,         \* number of Produce requests
  closed,
  answers       \* what clients have been answered: a history variable

store == <<topic, nextUUID, log, leo>>
vars == <<store, fault, conn, sent, closed, answers>>

Idle == [id |-> 0, todo |-> {}, fails |-> {}, results |-> {}]

Init ==
  /\ topic = None /\ nextUUID = 0
  /\ log = [p \in Parts |-> <<>>] /\ leo = [p \in Parts |-> 0]
  /\ fault = [n |-> 0, part |-> None]
  /\ conn = [c \in Conns |-> Idle]
  /\ sent = 0 /\ closed = FALSE /\ answers = {}

\* AddTopic, or the handler of CreateTopics; nothing happens if the topic exists.
createTopic ==
  /\ topic = None /\ nextUUID < MaxTopics
  /\ nextUUID' = nextUUID + 1
  /\ topic' = nextUUID + 1
  /\ log' = [p \in Parts |-> <<>>] /\ leo' = [p \in Parts |-> 0]
  /\ UNCHANGED <<fault, conn, sent, closed, answers>>

deleteTopic ==
  /\ "delete" \in Ops
  /\ topic # None
  /\ topic' = None
  /\ UNCHANGED <<nextUUID, log, leo, fault, conn, sent, closed, answers>>

\* FailNextProduce and FailNextProducePartition.
FailNextProduce(n, part) ==
  /\ "faults" \in Ops
  /\ fault' = [n |-> n, part |-> part]
  /\ UNCHANGED <<store, conn, sent, closed, answers>>

takeProduceFault == IF fault.n > 0 THEN [fault EXCEPT !.n = @ - 1] ELSE fault

Faulted ==
  IF fault.n = 0 THEN {} ELSE IF fault.part = None THEN Parts ELSE {fault.part}

\* handleProduce, up to its loop.
Produce(c, parts) ==
  /\ ~closed /\ conn[c].id = 0 /\ sent < MaxRequests
  /\ sent' = sent + 1
  /\ fault' = takeProduceFault
  /\ conn' = [conn EXCEPT ![c] = [id |-> sent + 1, todo |-> parts, fails |-> Faulted,
                                  results |-> {}]]
  /\ UNCHANGED <<store, closed, answers>>

\* Mutant: the end of the log moves by one batch instead of by its records.
NextOffset(p, n) == leo[p] + 1

EndOffset(p, n) == leo[p] + n

\* One round of the loop: partition p, with a batch of n records.
Result(c, p, code, base, n) ==
  [id |-> conn[c].id, part |-> p, uuid |-> topic, code |-> code, base |-> base, len |-> n]

AppendBatch(c, p, n) ==
  /\ p \in conn[c].todo
  /\ LET code == CASE p \in conn[c].fails -> "fault"
                   [] p \notin conn[c].fails /\ topic = None -> "unknown"
                   [] OTHER -> "ok"
     IN  /\ conn' = [conn EXCEPT ![c].todo = @ \ {p},
                       ![c].results = @ \cup {Result(c, p, code, IF code = "ok" THEN leo[p] ELSE -1, n)}]
         /\ IF code = "ok"
              THEN /\ log' = [log EXCEPT ![p] = Append(@, [id |-> conn[c].id, base |-> leo[p], len |-> n])]
                   /\ leo' = [leo EXCEPT ![p] = EndOffset(p, n)]
              ELSE UNCHANGED <<log, leo>>
  /\ UNCHANGED <<topic, nextUUID, fault, sent, closed, answers>>

\* The answer is written, or the connection is gone.
Respond(c) ==
  /\ conn[c].id # 0 /\ conn[c].todo = {}
  /\ conn' = [conn EXCEPT ![c] = Idle]
  /\ (answers' = answers \cup conn[c].results /\ ~closed) \/ answers' = answers
  /\ UNCHANGED <<store, fault, sent, closed>>

Close ==
  /\ "close" \in Ops
  /\ ~closed /\ closed' = TRUE
  /\ UNCHANGED <<store, fault, conn, sent, answers>>

Next ==
  \/ createTopic \/ deleteTopic \/ Close
  \/ \E n \in 1..MaxFaults, part \in Parts \cup {None} : FailNextProduce(n, part)
  \/ \E c \in Conns :
       \/ \E parts \in (SUBSET Parts) \ {{}} : Produce(c, parts)
       \/ \E p \in Parts, n \in 1..MaxLen : AppendBatch(c, p, n)
       \/ Respond(c)

Spec == Init /\ [][Next]_vars

-------------------------------------------------------------------------------
\* The batches of a partition follow one another without a gap or an overlap, and
\* the log ends where the last one does.
Dense(p) ==
  /\ \A i \in DOMAIN log[p] :
       log[p][i].base = IF i = 1 THEN 0 ELSE log[p][i - 1].base + log[p][i - 1].len
  /\ leo[p] = IF log[p] = <<>> THEN 0
              ELSE log[p][Len(log[p])].base + log[p][Len(log[p])].len

\* What a client was answered about a partition is what became of its batch.
True(a) ==
  LET stored == {i \in DOMAIN log[a.part] : log[a.part][i].id = a.id}
  IN  IF a.code = "ok"
        THEN /\ \E i \in stored : log[a.part][i] = [id |-> a.id, base |-> a.base, len |-> a.len]
             /\ \A i, j \in stored : i = j
        ELSE stored = {}

\* The fake broker that the client's tests rely on: while any number of
\* connections produce, faults are injected and the topic comes and goes, logs
\* are dense, an acknowledged batch is stored once at the offset that was
\* answered, and a batch that was answered an error is not stored
\* (handleProduce: "report the error and do NOT append the batch").
KeepsItsWord ==
  /\ \A p \in Parts : Dense(p)
  /\ \A a \in answers : (a.code = "ok" => a.uuid = topic) => True(a)
===============================================================================
