---------------------------- MODULE MCNarratives ----------------------------
(* Two episodes.  Of the two nodes over the same episodes, the plain one     *)
(* comes first where both are told, and the cleanup's where one is.          *)
EXTENDS Narratives
Bit(b) == IF b THEN 1 ELSE 0
Ids == [s \in Stories |->
          4 * Bit(1 \in s[1]) + 2 * Bit(2 \in s[1]) + Bit(s[2] = (s[1] = Episodes))]
=============================================================================
