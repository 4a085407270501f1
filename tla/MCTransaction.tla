---------------------------- MODULE MCTransaction ----------------------------
(***************************************************************************)
(* Instances of Transaction for TLC.  Data partitions are interchangeable, *)
(* and so are brokers: no operator of Transaction orders or names one.     *)
(***************************************************************************)
EXTENDS Transaction, TLC

Interchangeable == Permutations(Partitions) \cup Permutations(Brokers)
=============================================================================
