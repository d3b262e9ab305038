--------------------------- MODULE MCReflectionQueue ---------------------------
(* Instances of ReflectionQueue for TLC: two sessions, and the jobs of each   *)
(* are interchangeable.                                                       *)
EXTENDS ReflectionQueue, TLC

CONSTANTS A, B, OfB

Split == [j \in Jobs |-> IF j \in OfB THEN B ELSE A]

Everything == [session |-> NoOne, lane |-> NoOne]
BulkOfB == [session |-> B, lane |-> "bulk"]
SomeFilters == {Everything, BulkOfB}

Symmetry == Permutations(OfB) \cup Permutations(Jobs \ OfB) \cup Permutations(Claimants)
=============================================================================
