--------------------------- MODULE MCSupersession ---------------------------
(* Two claims of one observation and one of a later one; one pair is judged, *)
(* and judged again as often as a row allows.                                *)
EXTENDS Supersession, TLC
CONSTANTS a, a2, b, e1, e2
Sources == (a :> e1) @@ (a2 :> e1) @@ (b :> e2)
JudgedPairs == {<<a, b>>}
=============================================================================
