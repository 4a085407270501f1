----------------------------- MODULE MCProducer -----------------------------
(* Instances of Producer for TLC.                                          *)
EXTENDS Producer, TLC

CONSTANTS c1, c2, p1, p2, b1, b2

MCOneCaller == {c1}
MCOnePartition == {p1}
MCTwoPartitions == {p1, p2}
MCTwoBrokers == {b1, b2}
MCOneBroker == {b1}

(* Callers, partitions and brokers are interchangeable.                    *)
Symmetry == Permutations(Callers) \cup Permutations(Partitions) \cup Permutations(Brokers)
=============================================================================
