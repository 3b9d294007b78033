------------------------------ MODULE MCWallet ------------------------------
(***************************************************************************)
(* A wallet that owns the coinbases of c1 and c2, the one of a1 and b1,    *)
(* and most of what is made of them:                                       *)
(*                 g -- c1 -- c2 -- a1 -- a2 -- a3                         *)
(*                              \-- b1 -- b2                               *)
(* t1 and t3 spend the coin of c1, t2 an output of t1, t4 the output of t3 *)
(* and the coin of c2, t5 that coin.  t4 comes from another copy of the    *)
(* wallet, the others are made here.  t1 is in a1, t2 in a3 and t3 in b1.  *)
(***************************************************************************)
EXTENDS Wallet

CONSTANTS cb1, cb2, cb3, cb4, cb5, t1, t2, t3, t4, t5, none
CONSTANTS g, c1, c2, a1, a2, a3, b1, b2

MCVin == (cb1 :> <<>> @@ cb2 :> <<>> @@ cb3 :> <<>> @@ cb4 :> <<>> @@ cb5 :> <<>>
          @@ t1 :> << <<cb1, 1>> >>
          @@ t2 :> << <<t1, 1>> >>
          @@ t3 :> << <<cb1, 1>> >>
          @@ t4 :> << <<t3, 1>>, <<cb2, 1>> >>
          @@ t5 :> << <<cb2, 1>> >>)

MCVout == (cb1 :> <<5>> @@ cb2 :> <<5>> @@ cb3 :> <<5>> @@ cb4 :> <<5>> @@ cb5 :> <<5>>
           @@ t1 :> <<4, 1>> @@ t2 :> <<3>> @@ t3 :> <<5>> @@ t4 :> <<8>> @@ t5 :> <<4>>)

MCMine == {<<cb1, 1>>, <<cb2, 1>>, <<cb3, 1>>, <<t1, 1>>, <<t2, 1>>, <<t3, 1>>}

MCTree == (g :> g @@ c1 :> g @@ c2 :> c1 @@ a1 :> c2 @@ a2 :> a1 @@ a3 :> a2 @@ b1 :> c2 @@ b2 :> b1)
MCPrev == [b \in Blocks |-> MCTree[b]]

MCVtx == (g :> <<>> @@ c1 :> <<cb1>> @@ c2 :> <<cb2>>
          @@ a1 :> <<cb3, t1>> @@ a2 :> <<cb4>> @@ a3 :> <<cb5, t2>>
          @@ b1 :> <<cb3, t3>> @@ b2 :> <<cb4>>)

MCHashOrder == <<cb1, cb2, cb3, cb4, cb5, t2, t1, t3, t4, t5>>

\* The blocks are such that LedgerProofs' theorems about the pool apply.
ASSUME CoinBasesDiffer == NoCoinBaseAgain

\* And the one about its balance.
ASSUME MCHypotheses == NoneRefused
=============================================================================
