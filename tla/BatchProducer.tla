--------------------------- MODULE BatchProducer ---------------------------
(***************************************************************************)
(* BatchProducer (src/batch_producer.go): Send collects records and        *)
(* produces them when the batch is full; a linger timer, started by the    *)
(* first record of a batch, calls Flush from a goroutine of its own; Close *)
(* is Flush.  One mutex is held throughout each call, also while           *)
(* ProduceSync runs.                                                       *)
(*                                                                         *)
(* A timer that has expired cannot be stopped any more: its goroutine      *)
(* waits for the mutex and flushes whatever is pending when it gets it.    *)
(* ProduceSync stores the batch and succeeds, or fails having stored any   *)
(* part of it (Producer.tla has its steps).                                *)
(***************************************************************************)
EXTENDS Integers, Sequences, FiniteSets, SequencesExt

CONSTANTS
    Records,     \* the records the application sends, each once
    BatchMax,    \* cfg.Producer.BatchSize
    MaxFlushes,  \* bound: calls of Flush or Close by the application
    MayFail      \* ProduceSync may fail

\* What the constants are.
BatchAssumption ==
    /\ IsFiniteSet(Records)
    /\ BatchMax \in Nat \ {0} /\ MaxFlushes \in Nat
    /\ MayFail \in BOOLEAN

VARIABLES
    pending,   \* b.pending
    timer,     \* b.timer: "nil", "running", or "expired" and not yet replaced
    flushers,  \* goroutines of expired timers that wait for the mutex
    holder,    \* who holds the mutex while producing: "nobody", "caller", "timer"
    batch,     \* the records being produced under the mutex
    given,     \* records passed to Send, in order
    log,       \* records the brokers stored, in order
    failed,    \* records of produce calls that returned an error
    told,      \* those of them whose error was returned to the application
    flushes    \* calls of Flush so far

vars == <<pending, timer, flushers, holder, batch, given, log, failed, told, flushes>>

Init ==
    /\ pending = <<>> /\ batch = <<>> /\ given = <<>> /\ log = <<>>
    /\ timer = "nil" /\ flushers = 0 /\ holder = "nobody"
    /\ failed = {} /\ told = {} /\ flushes = 0

Unlocked == holder = "nobody"

\* b.timer stopped and not forgotten.
TimerStopped == IF timer = "running" THEN "expired" ELSE timer

\* b.timer after flushLocked.
TimerAfterFlush == "nil"

\* flushLocked without its early return for an empty batch.

\* flushLocked on the given pending records: the timer is stopped and
\* forgotten, and a non-empty batch is produced with the mutex held.
FlushLocked(records, who) ==
    /\ timer' = TimerAfterFlush
    /\ pending' = <<>>
    /\ batch' = records
    /\ holder' = IF records = <<>> THEN "nobody" ELSE who

Full(records) == Len(records) >= BatchMax

\* A record joins a batch that is not full; the timer starts unless one is set.
Linger(records) ==
    /\ pending' = records
    /\ timer' = IF timer = "nil" THEN "running" ELSE timer
    /\ UNCHANGED <<batch, holder>>

Send(r) ==
    LET records == Append(pending, r) IN
    /\ Unlocked /\ r \notin ToSet(given)
    /\ given' = Append(given, r)
    /\ IF Full(records) THEN FlushLocked(records, "caller") ELSE Linger(records)
    /\ UNCHANGED <<flushers, log, failed, told, flushes>>

Flush ==
    /\ Unlocked /\ flushes < MaxFlushes
    /\ flushes' = flushes + 1
    /\ FlushLocked(pending, "caller")
    /\ UNCHANGED <<flushers, given, log, failed, told>>

TimerExpires ==
    /\ timer = "running"
    /\ timer' = "expired"
    /\ flushers' = flushers + 1
    /\ UNCHANGED <<pending, holder, batch, given, log, failed, told, flushes>>

TimerFlush ==
    /\ Unlocked /\ flushers > 0
    /\ flushers' = flushers - 1
    /\ FlushLocked(pending, "timer")
    /\ UNCHANGED <<given, log, failed, told, flushes>>

\* ProduceSync returns and the mutex is released.  The timer's goroutine
\* discards the error.
ProduceSync ==
    /\ ~Unlocked
    /\ \/ /\ log' = log \o batch
          /\ UNCHANGED <<failed, told>>
       \/ /\ MayFail
          /\ \E part \in SUBSET ToSet(batch) :
                log' = log \o SelectSeq(batch, LAMBDA r : r \in part)
          /\ failed' = failed \cup ToSet(batch)
          /\ told' = IF holder = "caller" THEN told \cup ToSet(batch) ELSE told
    /\ batch' = <<>> /\ holder' = "nobody"
    /\ UNCHANGED <<pending, timer, flushers, given, flushes>>

\* Every record was sent and flushed and the application calls nothing more.
AtRest ==
    /\ Unlocked /\ pending = <<>> /\ flushers = 0 /\ timer # "running"
    /\ ToSet(given) = Records /\ flushes = MaxFlushes
    /\ UNCHANGED vars

Next ==
    \/ \E r \in Records : Send(r)
    \/ Flush \/ TimerExpires \/ TimerFlush \/ ProduceSync
    \/ AtRest

Spec == Init /\ [][Next]_vars

\* Timers expire, goroutines get the mutex, ProduceSync returns.
FairSpec == Spec /\ WF_vars(TimerExpires) /\ WF_vars(TimerFlush) /\ WF_vars(ProduceSync)

----------------------------------------------------------------------------
(* Properties.                                                              *)

TypeOK ==
    /\ {pending, batch, given, log} \subseteq Seq(Records)
    /\ timer \in {"nil", "running", "expired"}
    /\ flushers \in Nat
    /\ holder \in {"nobody", "caller", "timer"}
    /\ (holder = "nobody") = (batch = <<>>)
    /\ failed \subseteq Records /\ told \subseteq failed
    /\ flushes \in 0 .. MaxFlushes

=============================================================================
