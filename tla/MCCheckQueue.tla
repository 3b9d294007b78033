----------------------------- MODULE MCCheckQueue -----------------------------
(***************************************************************************)
(* Instances of CheckQueue: named workers and checks as model values.      *)
(***************************************************************************)
EXTENDS CheckQueue

CONSTANTS w1, w2, c1, c2, c3, c4
=============================================================================
