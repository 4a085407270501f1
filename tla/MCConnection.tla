---------------------------- MODULE MCConnection ----------------------------
(* Connection on small instances: the callers are model values.            *)
EXTENDS Connection, TLC

\* Callers are interchangeable.
Interchangeable == Permutations(Callers)
=============================================================================
