------------------------------- MODULE MCMiner -------------------------------
(***************************************************************************)
(* The miner on the ledger of MCLedger.                                    *)
(***************************************************************************)
EXTENDS MCLedger, Miner

\* The blocks are such that LedgerProofs!TemplateAlwaysExact applies.
ASSUME CoinBasesByHeight == CoinBaseHeights
=============================================================================
