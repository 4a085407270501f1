--------------------------- MODULE AsyncProducer ---------------------------
(***************************************************************************)
(* AsyncProducer (src/async_producer.go): Send puts records into a         *)
(* buffered channel, a pool of workers collects them into batches, hands   *)
(* each batch to Producer.ProduceSyncResult and writes one delivery report *)
(* per record to a second channel, which the application drains.           *)
(*                                                                         *)
(* Channels follow Go's rules: a select with several ready cases takes any *)
(* of them; closing a channel wakes its receivers; a send on a closed      *)
(* channel panics, also when it is one ready case of a select; a receive   *)
(* from a full channel admits the sender that has waited longest.          *)
(*                                                                         *)
(* ProduceSyncResult is seen from its caller: it stores the whole batch    *)
(* and succeeds, or fails having stored any part of it; called under a     *)
(* cancelled context it fails at once.  Its own steps are Producer.tla.    *)
(***************************************************************************)
EXTENDS Integers, Sequences, FiniteSets, Functions

CONSTANTS
    Records,        \* the records the application sends, each once
    Workers,        \* cfg.Concurrency.ProducerWorkers goroutines
    BatchSize,      \* cfg.Producer.BatchSize
    ChannelBuffer,  \* capacity of both channels
    MayFail,        \* ProduceSyncResult may fail
    MayClose,       \* the application may call Close
    MayCancel       \* the application may cancel the context of Run

ASSUME AsyncAssumption ==
    /\ IsFiniteSet(Records) /\ IsFiniteSet(Workers)
    /\ BatchSize \in Nat \ {0} /\ ChannelBuffer \in Nat \ {0}
    /\ {MayFail, MayClose, MayCancel} \subseteq BOOLEAN

VARIABLES
    in,         \* the input channel's buffer
    inClosed,   \* the input channel is closed
    closed,     \* the channel `closed` is closed
    cancelled,  \* the context of Run is done
    waiting,    \* records whose Send is blocked on the full channel, oldest first
    worker,     \* the workers' local variables
    out,        \* the results channel's buffer
    outClosed,  \* Run has returned
    sent,       \* what each Send came to
    accepted,   \* records whose Send returned nil, in the order they were queued
    log,        \* records the brokers stored, in order
    reports     \* delivery reports the application has read, in order

vars == <<in, inClosed, closed, cancelled, waiting, worker, out, outClosed,
          sent, accepted, log, reports>>

sendVars == <<sent, accepted, waiting>>

Report == [rec : Records, ok : BOOLEAN]

\* A panic ends the process.
Panicked == \E r \in DOMAIN sent : sent[r] = "panicked"

Init ==
    /\ in = <<>> /\ waiting = <<>> /\ out = <<>>
    /\ inClosed = FALSE /\ closed = FALSE /\ cancelled = FALSE /\ outClosed = FALSE
    /\ worker = [w \in Workers |->
          [pc |-> "select", batch |-> <<>>, timer |-> FALSE, next |-> 1,
           failed |-> FALSE, dead |-> FALSE, exiting |-> FALSE]]
    /\ sent = [r \in Records |-> "no"]
    /\ accepted = <<>> /\ log = <<>> /\ reports = <<>>

----------------------------------------------------------------------------
(* The application: Send, Close, cancel, and the reader of Results().       *)

\* The select of Send with the channel case ready.
SendQueued(r) ==
    /\ sent[r] = "no" /\ ~inClosed /\ Len(in) < ChannelBuffer
    /\ in' = Append(in, r)
    /\ accepted' = Append(accepted, r)
    /\ sent' = [sent EXCEPT ![r] = "accepted"]
    /\ UNCHANGED waiting

\* No case of the select is ready: the goroutine waits.
SendBlocks(r) ==
    /\ sent[r] = "no" /\ ~closed /\ Len(in) = ChannelBuffer
    /\ waiting' = Append(waiting, r)
    /\ sent' = [sent EXCEPT ![r] = "waiting"]
    /\ UNCHANGED <<in, accepted>>

\* ErrClosed at once, or the end of the caller's own context.
SendRefused(r) ==
    /\ \/ sent[r] = "no" /\ closed /\ UNCHANGED waiting
       \/ /\ sent[r] = "waiting"
          /\ \E i \in DOMAIN waiting :
                /\ waiting[i] = r
                /\ waiting' = SubSeq(waiting, 1, i - 1) \o SubSeq(waiting, i + 1, Len(waiting))
    /\ sent' = [sent EXCEPT ![r] = "refused"]
    /\ UNCHANGED <<in, accepted>>

\* A send case on a closed channel counts as ready, and taking it panics.
SendPanics(r) ==
    /\ sent[r] = "no" /\ inClosed
    /\ sent' = [sent EXCEPT ![r] = "panicked"]
    /\ UNCHANGED <<in, waiting, accepted>>

Send(r) ==
    /\ ~Panicked
    /\ SendQueued(r) \/ SendBlocks(r) \/ SendRefused(r) \/ SendPanics(r)
    /\ UNCHANGED <<inClosed, closed, cancelled, worker, out, outClosed, log, reports>>

\* close(a.closed): every blocked Send wakes with ErrClosed.
Close ==
    /\ ~Panicked /\ MayClose /\ ~closed
    /\ closed' = TRUE
    /\ sent' = [r \in Records |-> IF sent[r] = "waiting" THEN "refused" ELSE sent[r]]
    /\ waiting' = <<>>
    /\ UNCHANGED <<in, inClosed, cancelled, worker, out, outClosed, accepted, log, reports>>

\* close(a.in), the second statement of Close.
CloseIn ==
    /\ ~Panicked /\ closed /\ ~inClosed
    /\ inClosed' = TRUE
    /\ UNCHANGED <<in, closed, cancelled, worker, out, outClosed, sendVars, log, reports>>

Cancel ==
    /\ ~Panicked /\ MayCancel /\ ~cancelled
    /\ cancelled' = TRUE
    /\ UNCHANGED <<in, inClosed, closed, worker, out, outClosed, sendVars, log, reports>>

Drain ==
    /\ ~Panicked /\ out # <<>>
    /\ reports' = Append(reports, Head(out))
    /\ out' = Tail(out)
    /\ UNCHANGED <<in, inClosed, closed, cancelled, worker, outClosed, sendVars, log>>

----------------------------------------------------------------------------
(* The workers.                                                             *)

\* Entering flush: an empty batch is left alone.  `dead` records that the
\* context was done already when ProduceSyncResult was called.
Flushed(wk, exiting) ==
    IF wk.batch = <<>>
    THEN [wk EXCEPT !.pc = IF exiting THEN "done" ELSE "select", !.exiting = exiting]
    ELSE [wk EXCEPT !.pc = "produce", !.exiting = exiting, !.dead = cancelled]

StopReasonsNoCancel == closed \/ (inClosed /\ in = <<>>)

\* The ctx.Done and closed cases, and the channel closed and empty.
StopReasons == cancelled \/ closed \/ (inClosed /\ in = <<>>)

Stop(w) ==
    /\ ~Panicked /\ worker[w].pc = "select" /\ StopReasons
    /\ worker' = [worker EXCEPT ![w] = Flushed(@, TRUE)]
    /\ UNCHANGED <<in, inClosed, closed, cancelled, out, outClosed, sendVars, log, reports>>

ArmTimerNever(wk) == wk.timer

\* The batch's first record arms the linger timer.
ArmTimer(wk) == wk.timer \/ Len(wk.batch) = 0

Full(batch) == Len(batch) >= BatchSize

Receive(w) ==
    LET wk == [worker[w] EXCEPT !.batch = Append(@, Head(in)), !.timer = ArmTimer(worker[w])]
    IN  /\ ~Panicked /\ worker[w].pc = "select" /\ in # <<>>
        /\ worker' = [worker EXCEPT ![w] = IF Full(wk.batch) THEN Flushed(wk, FALSE) ELSE wk]
        /\ IF waiting = <<>>
           THEN in' = Tail(in) /\ UNCHANGED sendVars
           ELSE /\ in' = Append(Tail(in), Head(waiting))
                /\ waiting' = Tail(waiting)
                /\ accepted' = Append(accepted, Head(waiting))
                /\ sent' = [sent EXCEPT ![Head(waiting)] = "accepted"]
        /\ UNCHANGED <<inClosed, closed, cancelled, out, outClosed, log, reports>>

TimerFlush(w) ==
    /\ ~Panicked /\ worker[w].pc = "select" /\ worker[w].timer
    /\ worker' = [worker EXCEPT ![w] = [Flushed(@, FALSE) EXCEPT !.timer = FALSE]]
    /\ UNCHANGED <<in, inClosed, closed, cancelled, out, outClosed, sendVars, log, reports>>

\* The parts of a batch, each in the batch's order.
Increasing(n) ==
    UNION {{f \in [1 .. k -> 1 .. n] : \A i, j \in 1 .. k : i < j => f[i] < f[j]} : k \in 0 .. n}

PartsOf(batch) == {[i \in DOMAIN f |-> batch[f[i]]] : f \in Increasing(Len(batch))}

MayBeStoredAnyway(wk) == PartsOf(wk.batch)

\* What a call may have stored when it fails: nothing if its context was done
\* before it began (retryRetriable asks first).
MayBeStored(wk) == IF wk.dead THEN {<<>>} ELSE PartsOf(wk.batch)

ProduceSyncResult(w) ==
    LET wk == worker[w] IN
    /\ ~Panicked /\ wk.pc = "produce"
    /\ \/ /\ ~wk.dead
          /\ log' = log \o wk.batch
          /\ worker' = [worker EXCEPT ![w].pc = "report", ![w].next = 1, ![w].failed = FALSE]
       \/ /\ MayFail \/ cancelled
          /\ \E part \in MayBeStored(wk) : log' = log \o part
          /\ worker' = [worker EXCEPT ![w].pc = "report", ![w].next = 1, ![w].failed = TRUE]
    /\ UNCHANGED <<in, inClosed, closed, cancelled, out, outClosed, sendVars, reports>>

\* The batch is kept after its last report.
ReportedKept(wk) ==
    IF wk.next < Len(wk.batch) THEN [wk EXCEPT !.next = @ + 1]
    ELSE [wk EXCEPT !.timer = FALSE, !.next = 1,
                    !.pc = IF wk.exiting THEN "done" ELSE "select"]

\* After the last report the batch is emptied and the timer stopped.
Reported(wk) ==
    IF wk.next < Len(wk.batch) THEN [wk EXCEPT !.next = @ + 1]
    ELSE [wk EXCEPT !.batch = <<>>, !.timer = FALSE, !.next = 1,
                    !.pc = IF wk.exiting THEN "done" ELSE "select"]

ReportOne(w) ==
    LET wk == worker[w] IN
    /\ ~Panicked /\ wk.pc = "report" /\ Len(out) < ChannelBuffer
    /\ out' = Append(out, [rec |-> wk.batch[wk.next], ok |-> ~wk.failed])
    /\ worker' = [worker EXCEPT ![w] = Reported(@)]
    /\ UNCHANGED <<in, inClosed, closed, cancelled, outClosed, sendVars, log, reports>>

\* ctx.Done while reporting: flush returns with the batch still in place.
ReportAbandoned(w) ==
    /\ ~Panicked /\ worker[w].pc = "report" /\ cancelled
    /\ worker' = [worker EXCEPT ![w].pc = IF worker[w].exiting THEN "done" ELSE "select", ![w].next = 1]
    /\ UNCHANGED <<in, inClosed, closed, cancelled, out, outClosed, sendVars, log, reports>>

RunReturns ==
    /\ ~Panicked /\ ~outClosed /\ \A w \in Workers : worker[w].pc = "done"
    /\ outClosed' = TRUE
    /\ UNCHANGED <<in, inClosed, closed, cancelled, worker, out, sendVars, log, reports>>

Work(w) ==
    Stop(w) \/ Receive(w) \/ TimerFlush(w) \/ ProduceSyncResult(w) \/ ReportOne(w) \/ ReportAbandoned(w)

\* Nothing is left to do: the process crashed, or every goroutine that could
\* still act waits for a call the application does not make.
AtRest ==
    /\ \/ Panicked
       \/ /\ out = <<>>
          /\ \A r \in Records : sent[r] # "no"
          /\ \A w \in Workers : worker[w].pc = "done" \/ (worker[w].batch = <<>> /\ in = <<>>)
    /\ UNCHANGED vars

Next ==
    \/ \E r \in Records : Send(r)
    \/ Close \/ CloseIn \/ Cancel \/ Drain
    \/ \E w \in Workers : Work(w)
    \/ RunReturns
    \/ AtRest

Spec == Init /\ [][Next]_vars

\* Goroutines that can run do run, timers expire, a produce call returns
\* (Producer.tla), and the application keeps reading Results().
FairSpec ==
    /\ Spec
    /\ \A w \in Workers : WF_vars(Work(w))
    /\ WF_vars(CloseIn) /\ WF_vars(Drain) /\ WF_vars(RunReturns)

----------------------------------------------------------------------------
(* Properties.                                                              *)

AllReports == reports \o out

ReportsOf(r) == {i \in DOMAIN AllReports : AllReports[i].rec = r}

Batches(r) == {w \in DOMAIN worker : r \in Range(worker[w].batch)}

TypeOK ==
    /\ in \in Seq(Records) /\ Len(in) <= ChannelBuffer
    /\ {inClosed, closed, cancelled, outClosed} \subseteq BOOLEAN
    /\ waiting \in Seq(Records)
    /\ \A w \in Workers :
          /\ worker[w].pc \in {"select", "produce", "report", "done"}
          /\ worker[w].batch \in Seq(Records)
          /\ worker[w].next \in Nat \ {0}
          /\ worker[w].pc = "report" => worker[w].next <= Len(worker[w].batch)
          /\ {worker[w].timer, worker[w].failed, worker[w].dead, worker[w].exiting} \subseteq BOOLEAN
    /\ out \in Seq(Report) /\ Len(out) <= ChannelBuffer
    /\ sent \in [Records -> {"no", "waiting", "accepted", "refused", "panicked"}]
    /\ accepted \in Seq(Records) /\ log \in Seq(Records) /\ reports \in Seq(Report)

\* However workers, retained batches and cancellation interleave, no record is
\* handed to the brokers so that it is stored twice (flush, :103-121).
StoredOnce == \A i, j \in DOMAIN log : log[i] = log[j] => i = j

\* A report without an error is about a stored record, and until the context
\* is cancelled no record has two reports.  Once Run has returned without a
\* cancelled context, a record that has no report was left in the input
\* channel: the brokers never saw it (flush, :108-118, Close, :158-164, and the
\* worker's closed case).
ReportsAreTrue ==
    /\ \A i \in DOMAIN AllReports : AllReports[i].ok => AllReports[i].rec \in Range(log)
    /\ ~cancelled => \A r \in Records : \A i, j \in ReportsOf(r) : i = j
    /\ outClosed /\ ~cancelled =>
          \A r \in Records : ReportsOf(r) = {} => r \notin Range(log) /\ Batches(r) = {}

QueuedBefore(queued, r, s) ==
    \E i, j \in DOMAIN queued : i < j /\ queued[i] = r /\ queued[j] = s

\* With one worker, records are stored in the order their Sends were queued, each
\* once, and a failed call leaves some out (worker, :123-155).
StoredInSendOrder ==
    (\E w \in DOMAIN worker : DOMAIN worker = {w}) =>
        /\ Range(log) \subseteq Range(accepted)
        /\ \A i, j \in DOMAIN log : i < j => QueuedBefore(accepted, log[i], log[j])

\* After Close or cancellation Run returns and closes the results channel, so
\* that a reader ranging over Results() ends (Run, :48-57).
RunEnds == []<>(closed \/ cancelled => outClosed \/ Panicked)
=============================================================================
