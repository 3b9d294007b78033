------------------------------- MODULE MCLedger -------------------------------
(***************************************************************************)
(* A small ledger.  Block c1 pays a coinbase of two outputs; the branches  *)
(*                 g -- c1 -- a1 -- a2 -- a3                               *)
(*                        \-- b1 -- b2 -- b3                               *)
(* spend them in conflicting ways.  t1 - t2 - t4 is a chain of             *)
(* transactions, t3 spends the output t1 does, t4 and t5 the same one; t6  *)
(* and t7 spend the coinbases of a1 and a2, and b1 has the coinbase of a1  *)
(* too.  Two blocks fail after their branch was connected: the coinbase of *)
(* a3 pays one too much, and b3 repeats the unspent coinbase of b1, which  *)
(* BIP30 forbids.                                                          *)
(***************************************************************************)
EXTENDS Ledger, TLC

CONSTANTS cb0, cbA1, cbA2, cbA3, cbB2, t1, t2, t3, t4, t5, t6, t7
CONSTANTS g, c1, a1, a2, a3, b1, b2, b3

MCVin == (cb0 :> <<>> @@ cbA1 :> <<>> @@ cbA2 :> <<>> @@ cbA3 :> <<>> @@ cbB2 :> <<>>
          @@ t1 :> << <<cb0, 1>> >>
          @@ t2 :> << <<t1, 1>> >>
          @@ t3 :> << <<cb0, 1>> >>
          @@ t4 :> << <<t2, 1>>, <<cb0, 2>>, <<t1, 2>> >>
          @@ t5 :> << <<cb0, 2>> >>
          @@ t6 :> << <<cbA1, 1>> >>
          @@ t7 :> << <<t6, 1>>, <<cbA2, 1>> >>)

MCVout == (cb0 :> <<3, 2>> @@ cbA1 :> <<5>> @@ cbA2 :> <<6>> @@ cbA3 :> <<7>> @@ cbB2 :> <<5>>
           @@ t1 :> <<2, 1>> @@ t2 :> <<2, 0>> @@ t3 :> <<2>>
           @@ t4 :> <<4>> @@ t5 :> <<2>> @@ t6 :> <<4>> @@ t7 :> <<10>>)

MCUnspendable == {<<t2, 2>>}

MCTree == (g :> g @@ c1 :> g @@ a1 :> c1 @@ a2 :> a1 @@ a3 :> a2 @@ b1 :> c1 @@ b2 :> b1 @@ b3 :> b2)
MCPrev == [b \in Blocks |-> MCTree[b]]

MCVtx == (g :> <<>> @@ c1 :> <<cb0>>
          @@ a1 :> <<cbA1, t1, t2>> @@ a2 :> <<cbA2, t4>> @@ a3 :> <<cbA3, t6>>
          @@ b1 :> <<cbA1, t3>> @@ b2 :> <<cbB2, t5>> @@ b3 :> <<cbA1>>)

\* The blocks are such that LedgerProofs' theorems about the pool apply.
ASSUME CoinBasesDiffer == NoCoinBaseAgain
=============================================================================
