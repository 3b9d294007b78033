----------------------------- MODULE MCBlockTree -----------------------------
(***************************************************************************)
(* Small block trees for BlockTree.  The blocks are model values; the tree *)
(* is                                                                      *)
(*                 g -- a1 -- a2 -- a3                                     *)
(*                  \-- b1 -- b2 -- b3                                     *)
(*                        \-- c2                                           *)
(* and the configurations choose which blocks exist and which are invalid. *)
(* b3 has the work of two blocks, so heights and work disagree.            *)
(***************************************************************************)
EXTENDS BlockTree, TLC

CONSTANTS g, a1, a2, a3, b1, b2, b3, c2

Parent == (g :> NoBlock @@ a1 :> g @@ a2 :> a1 @@ a3 :> a2
             @@ b1 :> g @@ b2 :> b1 @@ b3 :> b2 @@ c2 :> b1)

MCPrev == [b \in Blocks |-> Parent[b]]
MCWork == [b \in Blocks |-> IF b = b3 THEN 2 ELSE 1]

\* Two heap layouts that order every pair of blocks both ways.
Rank == (g :> 0 @@ a1 :> 1 @@ a2 :> 2 @@ a3 :> 3 @@ b1 :> 4 @@ b2 :> 5 @@ b3 :> 6 @@ c2 :> 7)
MCAddrOrders == {[b \in Blocks |-> Rank[b]], [b \in Blocks |-> 7 - Rank[b]]}
MCOneAddrOrder == {[b \in Blocks |-> Rank[b]]}
=============================================================================
