-------------------------- MODULE MCSharedProducer --------------------------
(***************************************************************************)
(* Two goroutines share one producer, in three situations: on one          *)
(* partition with lost and refused requests (the constants of the .cfg),   *)
(* while the partition's leader moves, and with idempotence off on two     *)
(* brokers.  A behaviour stays in the situation it starts in.              *)
(***************************************************************************)
EXTENDS Producer, TLC

CONSTANTS b1, b2, p1, p2

VARIABLE situation

Electing == INSTANCE Producer
    WITH Brokers <- {b1, b2}, MetaFaults <- {Missing}, MaxRecords <- 1, MaxMoves <- 1

Plain == INSTANCE Producer
    WITH Brokers <- {b1, b2}, Partitions <- {p1, p2}, MetaFaults <- {Missing},
         Idempotent <- FALSE, MaxCalls <- 1

SharedInit ==
    \/ situation = "sharing" /\ Init
    \/ situation = "electing" /\ Electing!Init
    \/ situation = "plain" /\ Plain!Init

SharedNext ==
    /\ UNCHANGED situation
    /\ \/ situation = "sharing" /\ Next
       \/ situation = "electing" /\ Electing!Next
       \/ situation = "plain" /\ Plain!Next

SharedSpec == SharedInit /\ [][SharedNext]_<<situation, vars>>

(* An acknowledgement names a stored record (produceToBroker's results),   *)
(* whatever the other goroutine reserves or rolls back meanwhile.          *)
SharedAckedIsStored == AckedIsStored

(* When no block is reserved the sequence table agrees with the brokers,   *)
(* whichever order two callers reserved and rolled back in (ReserveBlock,  *)
(* RollbackBlock of produce.State).                                        *)
SharedSequencesAgree ==
    /\ situation = "sharing" => SequencesAgree
    /\ situation = "electing" => Electing!SequencesAgree

(* With idempotence off nothing deduplicates: a retry after a partial      *)
(* failure sends only what no broker acknowledged (pendingRecords).        *)
PlainNoDuplicates == situation = "plain" => Plain!NoDuplicates

Symmetry == Permutations(Callers) \cup Permutations({b1, b2}) \cup Permutations({p1, p2})
=============================================================================
