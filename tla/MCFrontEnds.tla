----------------------------- MODULE MCFrontEnds -----------------------------
(***************************************************************************)
(* The two front ends of the producer, in four situations: a single worker *)
(* that is closed and cancelled at any moment (the constants of the .cfg), *)
(* a pool of workers with fewer records, a pool that is left running, and  *)
(* the BatchProducer.  A behaviour stays in the situation it starts in;    *)
(* the variables of the other front end keep their initial values.         *)
(*                                                                         *)
(* Records are numbers, given in the order in which their Sends begin:     *)
(* nothing in either front end tells one record from another.              *)
(***************************************************************************)
EXTENDS AsyncProducer, SequencesExt

CONSTANTS Pair, MaxFlushes

VARIABLES situation, pending, timer, flushers, holder, batch, given, stored, failed, told, flushes

Pool == INSTANCE AsyncProducer WITH Workers <- Pair, Records <- 1 .. 2

Steady == INSTANCE AsyncProducer WITH Workers <- Pair, Records <- 1 .. 3, MayClose <- FALSE, MayCancel <- FALSE

Batching == INSTANCE BatchProducer WITH log <- stored, BatchMax <- BatchSize

ASSUME Batching!BatchAssumption

batchVars == <<pending, timer, flushers, holder, batch, given, stored, failed, told, flushes>>

SendsInOrder(begun) == \A r, s \in DOMAIN sent : r < s /\ s \in begun => r \in begun

Async(next) ==
    /\ next
    /\ SendsInOrder({r \in DOMAIN sent : sent'[r] # "no"})
    /\ UNCHANGED batchVars

FrontInit ==
    /\ \/ situation \in {"single", "batching"} /\ Init
       \/ situation = "pool" /\ Pool!Init
       \/ situation = "steady" /\ Steady!Init
    /\ Batching!Init

FrontNext ==
    /\ UNCHANGED situation
    /\ \/ situation = "single" /\ Async(Next)
       \/ situation = "pool" /\ Async(Pool!Next)
       \/ situation = "steady" /\ Async(Steady!Next)
       \/ /\ situation = "batching" /\ Batching!Next
          /\ SendsInOrder(ToSet(given'))
          /\ UNCHANGED vars

frontVars == <<situation, vars, batchVars>>

AsyncStep(where, step) == situation = where /\ UNCHANGED situation /\ Async(step)

BatchStep(step) == step /\ UNCHANGED <<situation, vars>>

\* The fairness of AsyncProducer and of BatchProducer.
FrontSpec ==
    /\ FrontInit /\ [][FrontNext]_frontVars
    /\ \A w \in Workers : WF_frontVars(AsyncStep("single", Work(w)))
    /\ \A w \in Pair :
          /\ WF_frontVars(AsyncStep("pool", Pool!Work(w)))
          /\ WF_frontVars(AsyncStep("steady", Steady!Work(w)))
    /\ WF_frontVars(AsyncStep("single", CloseIn \/ RunReturns))
    /\ WF_frontVars(AsyncStep("single", Drain))
    /\ WF_frontVars(AsyncStep("pool", Pool!CloseIn \/ Pool!RunReturns))
    /\ WF_frontVars(AsyncStep("pool", Pool!Drain))
    /\ WF_frontVars(AsyncStep("steady", Steady!Drain))
    /\ WF_frontVars(BatchStep(Batching!TimerExpires))
    /\ WF_frontVars(BatchStep(Batching!TimerFlush))
    /\ WF_frontVars(BatchStep(Batching!ProduceSync))

(* Left running, the workers report every record whose Send succeeded: a   *)
(* full batch or the linger timer sends it (worker, :123-155).             *)
AcceptedIsReported ==
    []<>(situation = "steady" => \A r \in ToSet(accepted) : ReportsOf(r) # {})

(* Every record given to BatchProducer.Send is produced in the end without *)
(* a further call (the linger timer's Flush, batch_producer.go:46-51).     *)
EverythingIsFlushed ==
    []<>(ToSet(given) \subseteq ToSet(stored) \cup failed)
=============================================================================
