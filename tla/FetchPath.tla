------------------------------- MODULE FetchPath -------------------------------
(***************************************************************************)
(* From a partition's log to the records that Poll returns: which batches  *)
(* a broker answers a fetch with, how decodeRecordBatch drops aborted      *)
(* transactions and control markers, where the poll limit cuts, and where  *)
(* the next fetch starts (internal/protocol/fetch.go, consumer.go).        *)
(* Batches hold several records here; Consumer, which has the rest of the  *)
(* consumer, takes each record to be a batch.                              *)
(***************************************************************************)
EXTENDS Integers, Sequences, FiniteSets, SequencesExt

CONSTANTS
  Pids,            \* transactional producers
  None,            \* no transaction is open
  ReadCommitted,   \* Consumer.IsolationLevel
  Fake,            \* the broker is the one of kfake/, which has no transactions
  MaxBatches,      \* how many batches fit in an answer
  MaxPoll,         \* Consumer.MaxPollRecords
  MaxLen,          \* bound: records in a batch
  MaxEnd           \* bound: length of the log

VARIABLES
  log,         \* the partition's batches
  first,       \* the first offset of a producer's open transaction
  aborted,     \* the aborted transactions: producer, first offset, marker's offset
  position,    \* the offset in c.assignments
  delivered,   \* offsets that Poll has returned
  ordered      \* it has returned them in ascending order, each once

vars == <<log, first, aborted, position, delivered, ordered>>

End == IF log = <<>> THEN 0 ELSE Last(log).last + 1
Open == {p \in Pids : first[p] # None}

\* The last stable offset: where the oldest open transaction starts.
Stable == Min({End} \cup {first[p] : p \in Open})

Init ==
  /\ log = <<>>
  /\ first = [p \in Pids |-> None]
  /\ aborted = {}
  /\ position = 0 /\ delivered = {} /\ ordered = TRUE

-------------------------------------------------------------------------------
\* The producers.

Append1(kind, pid, n) ==
  /\ End + n <= MaxEnd
  /\ log' = Append(log, [base |-> End, last |-> End + n - 1, kind |-> kind, pid |-> pid])

Produce(n) ==
  /\ Append1("plain", None, n)
  /\ UNCHANGED <<first, aborted, position, delivered, ordered>>

ProduceInTransaction(p, n) ==
  /\ Append1("transactional", p, n)
  /\ first' = [first EXCEPT ![p] = IF @ = None THEN End ELSE @]
  /\ UNCHANGED <<aborted, position, delivered, ordered>>

EndTransaction(p, commit) ==
  /\ first[p] # None
  /\ Append1("control", p, 1)
  /\ first' = [first EXCEPT ![p] = None]
  /\ aborted' = IF commit THEN aborted
                ELSE aborted \cup {[pid |-> p, first |-> first[p], marker |-> End]}
  /\ UNCHANGED <<position, delivered, ordered>>

-------------------------------------------------------------------------------
\* The broker's answer to a fetch from the position.

\* kfake: the batches that start at the position or after it.
collectBatches == SelectSeq(log, LAMBDA b : b.base >= position)

\* Kafka: whole batches from the one that holds the position.
Readable ==
  SelectSeq(log, LAMBDA b : b.last >= position /\ (ReadCommitted => b.base < Stable))

\* At most as many of them as fit in the answer: the decoder stops before one that
\* is cut off.
Answers ==
  IF Fake THEN {collectBatches}
  ELSE {SubSeq(Readable, 1, n) : n \in 1..Min({Len(Readable), MaxBatches})}

\* The aborted transactions the answer reaches into, by first offset.
AbortedTransactions(batches) ==
  LET upTo == IF batches = <<>> THEN -1 ELSE Last(batches).last
      listed == IF ReadCommitted
                  THEN {a \in aborted : a.marker >= position /\ a.first <= upTo}
                  ELSE {}
  IN  SetToSortSeq(listed, LAMBDA a, b : a.first < b.first)

-------------------------------------------------------------------------------
\* The client.  An item is a record, or a marker that only moves the position.

Marker(offset) == [offset |-> offset, data |-> FALSE]
Records(b) == {[offset |-> o, data |-> TRUE] : o \in b.base..b.last}

\* How many entries of the list decodeRecordBatch has taken when it is at a batch:
\* those before the first one that starts after the batch's first record.
Taken(list, b) ==
  Cardinality({k \in DOMAIN list : \A i \in 1..k : list[i].first <= b.base})

\* Mutant: markers do not end their producers' aborted transactions.
AbortedForever(batches, list, n) == {list[i].pid : i \in 1..Taken(list, batches[n])}

\* The producers in abortedPIDs at the n-th batch: an entry that was taken adds
\* one, and a control batch from then on removes it.
abortedPIDs(batches, list, n) ==
  {list[i].pid : i \in
    {k \in 1..Taken(list, batches[n]) :
       ~\E m \in 1..(n - 1) : /\ batches[m].kind = "control" /\ batches[m].pid = list[k].pid
                             /\ k <= Taken(list, batches[m])}}

decodeRecordBatch(batches, list) ==
  UNION {
    LET b == batches[n]
    IN  IF \/ b.kind = "control"
           \/ b.kind = "transactional" /\ b.pid \in abortedPIDs(batches, list, n)
          THEN {Marker(b.last)}
          ELSE Records(b) : n \in DOMAIN batches}

\* The items up to the MaxPoll-th record, in the order of their offsets.
fetchFromBroker(items) ==
  {i \in items : Cardinality({d \in items : d.data /\ d.offset < i.offset}) < MaxPoll}

\* Mutant: only records move the position, markers do not.
CursorOfRecords(kept) == Max({position} \cup {i.offset + 1 : i \in {k \in kept : k.data}})

\* The offset after the last item that was not cut off; see advanceDelivered.
Cursor(kept) == Max({position} \cup {i.offset + 1 : i \in kept})

\* Seek and rejoins that come between a fetch and its answer are Consumer's.
Poll ==
  \E batches \in Answers :
  \E fetched \in {decodeRecordBatch(batches, AbortedTransactions(batches))} :
  \E kept \in {fetchFromBroker(fetched)} :
    LET out == {i.offset : i \in {k \in kept : k.data}}
    IN  /\ delivered' = delivered \cup out
        /\ ordered' = (ordered /\ \A o \in out, d \in delivered : d < o)
        /\ position' = Cursor(kept)
        /\ UNCHANGED <<log, first, aborted>>

Next ==
  \/ \E n \in 1..MaxLen : Produce(n) \/ \E p \in Pids : ProduceInTransaction(p, n)
  \/ \E p \in Pids, commit \in BOOLEAN : EndTransaction(p, commit)
  \/ Poll

Spec == Init /\ [][Next]_vars
FairSpec == Spec /\ WF_vars(Poll)

-------------------------------------------------------------------------------
InAborted(b) ==
  \E a \in aborted : a.pid = b.pid /\ a.first <= b.base /\ b.last < a.marker

\* The offsets of the records that the isolation level lets a consumer see.
Visible ==
  UNION {b.base..b.last : b \in
    {c \in Range(log) :
       /\ c.kind # "control"
       /\ ReadCommitted /\ c.kind = "transactional" =>
            ~InAborted(c) /\ (first[c.pid] = None \/ c.base < first[c.pid])}}

\* Poll has returned, in order and each once, exactly the visible records before
\* the position: no record of an aborted or open transaction, and none skipped,
\* however transactions interleave and wherever a fetch starts in one
\* (decodeRecordBatch, aggregateFetches).
ReadsExactly == ordered /\ delivered = {o \in Visible : o < position}

\* The visible records before the last stable offset.
Due == {o \in Visible : o < Stable}

\* As long as the application polls and nothing else happens, it comes to every
\* visible record.  aggregateFetches says of records beyond the poll limit that
\* they are "re-fetched next Poll rather than silently skipped".
CutRecordsAreRead == []<>(Due \subseteq delivered)
===============================================================================
