--------------------------- MODULE MCBlockDownload ---------------------------
(***************************************************************************)
(* An honest peer and another one.                                         *)
(***************************************************************************)
EXTENDS BlockDownload
CONSTANTS p1, p2, b1, b2
=============================================================================
