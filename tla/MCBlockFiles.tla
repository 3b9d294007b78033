----------------------------- MODULE MCBlockFiles -----------------------------
(***************************************************************************)
(* Two files of two blocks.  a and b are the first blocks of two branches, *)
(* c follows b and d follows c: with a and b in the first file, b is       *)
(* connected when c has gone to the second.                                *)
(***************************************************************************)
EXTENDS BlockFiles, TLC
CONSTANTS a, b, c, d
MCParent3 == (a :> None @@ b :> None @@ c :> b)
=============================================================================
