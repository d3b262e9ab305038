--------------------------- MODULE MCIntrospector ---------------------------
(* Operation 1 is slow, has the wide window and always has work; operation 2 *)
(* answers a condition that never gets better, in the narrow window.  Both   *)
(* have one relevance, so the cap on waiting decides nothing between them.   *)
EXTENDS Introspector
Buckets == <<2, 1>>
Levels  == <<1, 1>>
=============================================================================
