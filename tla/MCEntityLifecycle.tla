-------------------------- MODULE MCEntityLifecycle --------------------------
(* One entity from the start, one that an extraction may add, and room for  *)
(* the identity an unmerge splits back out.                                 *)
EXTENDS EntityLifecycle
CONSTANTS x, y
Extracted == [n \in {1} |-> x]
=============================================================================
