-------------------------------- MODULE MCIntake --------------------------------
(* Instances of Intake for TLC: two pushes of one experience beside one of *)
(* another session.                                                        *)
EXTENDS Intake, TLC

CONSTANTS p1, p2, p3, s1, s2, c1, c2

TwoTwins == (p1 :> s1) @@ (p2 :> s1) @@ (p3 :> s2)
Contents == (p1 :> c1) @@ (p2 :> c1) @@ (p3 :> c2)
=============================================================================
