---------------------- MODULE MCTransactionSituations ----------------------
(***************************************************************************)
(* One application and one transactional id, in five situations: before    *)
(* TV2 (the constants of the .cfg), under TV2, under TV2 with a third      *)
(* transaction and failing Commits and Aborts, before TV2 with an          *)
(* application that goes on after a call has failed, and before TV2 with   *)
(* coordinators on either of two brokers, of which the transaction's       *)
(* moves, and an application that may drop a transaction and begin anew.   *)
(* A behaviour stays in the situation it starts in.                        *)
(***************************************************************************)
EXTENDS MCTransaction

CONSTANTS p1, b1, b2

VARIABLE situation

V2 == INSTANCE Transaction
    WITH TV2 <- TRUE, Faults <- {"lostReply", "lateRequest", "rival", "crash"}, Partitions <- {p1}

ThirdTxn == INSTANCE Transaction
    WITH TV2 <- TRUE, Faults <- {"lostRequest", "lostReply", "busy"}, Partitions <- {p1},
         MaxTxns <- 3, MaxCalls <- 1, MaxDisturbances <- 3

GoingOn == INSTANCE Transaction
    WITH AbortOnError <- FALSE, Faults <- {"lostRequest", "busy", "crash"},
         MaxTxns <- 1, MaxCalls <- 3, MaxEnds <- 0

Moving == INSTANCE Transaction
    WITH Brokers <- {b1, b2}, Faults <- {"move"}, Partitions <- {p1}, Abandon <- TRUE

SituationInit ==
    \/ situation = "v1" /\ Init
    \/ situation = "v2" /\ V2!Init
    \/ situation = "again" /\ ThirdTxn!Init
    \/ situation = "going on" /\ GoingOn!Init
    \/ situation = "moving" /\ Moving!Init

SituationNext ==
    /\ UNCHANGED situation
    /\ \/ situation = "v1" /\ Next
       \/ situation = "v2" /\ V2!Next
       \/ situation = "again" /\ ThirdTxn!Next
       \/ situation = "going on" /\ GoingOn!Next
       \/ situation = "moving" /\ Moving!Next

SituationSpec == SituationInit /\ [][SituationNext]_<<situation, vars>>

(* Before TV2 a produce request goes only to partitions the coordinator    *)
(* has added: when the application goes on after a failed                  *)
(* AddPartitionsToTxn (ensurePartitions forgets what it could not          *)
(* register), and, if it does not, also when a leader was missing after    *)
(* other partitions had been marked, when answers are lost and when a      *)
(* transaction is dropped.  An application that goes on after a missing    *)
(* leader is on its own (README, Deviations).                              *)
RegisteredFirst ==
    /\ situation = "v1" => SentIsRegistered
    /\ situation = "going on" => GoingOn!SentIsRegistered
    /\ situation = "moving" => Moving!SentIsRegistered
=============================================================================
