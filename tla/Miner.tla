-------------------------------- MODULE Miner --------------------------------
(***************************************************************************)
(* The internal miner (miner.cpp) beside the ledger it reads.              *)
(*                                                                         *)
(* A miner thread notes the tip without taking cs_main, builds a template  *)
(* from the pool under cs_main and mempool.cs, writes the next height into *)
(* the coinbase and searches, while blocks and transactions keep arriving. *)
(* The priority queue is a set: TakeFromQueue may choose any of its        *)
(* members, so what is shown holds for every order of priorities and fees. *)
(* CreateNewBlock may end the process: see Dies.                           *)
(***************************************************************************)
EXTENDS Ledger

CONSTANT Oversized  \* transactions that may not fit (size, sigops or free-area limits)

VARIABLES
    minerPC,     \* where the miner thread is
    pindexPrev,  \* ticoinMiner's pindexPrev
    hashPrev,    \* pblock->hashPrevBlock
    vtx,         \* pblock->vtx without the coinbase
    vecPriority, \* the transactions in the priority queue
    setDependsOn,\* COrphan: transaction -> the pool transactions it waits for
    popped,      \* <<p, t>>: mapDependers[p] has the COrphan of t, which was popped
    skipped,     \* transactions left out for a limit
    nHeightCB    \* the height written into the coinbase

minerVars == <<minerPC, pindexPrev, hashPrev, vtx, vecPriority, setDependsOn, popped, skipped, nHeightCB>>
mvars == <<vars, minerVars>>

MinerInit ==
    /\ Init
    /\ minerPC = "start" /\ pindexPrev = Genesis /\ hashPrev = Genesis
    /\ vtx = <<>> /\ vecPriority = {} /\ setDependsOn = [t \in {} |-> {}]
    /\ popped = {} /\ skipped = {} /\ nHeightCB = 0
-----------------------------------------------------------------------------
(* ticoinMiner *)

\* pindexPrev = chainActive.Tip(), at any moment.
ReadTip ==
    /\ minerPC = "start"
    /\ minerPC' = "create" /\ pindexPrev' = tip
    /\ UNCHANGED <<vars, hashPrev, vtx, vecPriority, setDependsOn, popped, skipped, nHeightCB>>

\* The parents a pool transaction has to wait for.
WaitsFor(t) == {o[1] : o \in {p \in ToSet(Vin[t]) : ~TipHaveCoins(p[1])}}

\* "mempool transaction missing input": the loop over the inputs of t ends there.
Missing(o) == ~TipHaveCoins(o[1]) /\ o[1] \notin mapTx
Looked(t) == {Vin[t][i] : i \in {j \in DOMAIN Vin[t] : \A k \in 1..(j - 1) : ~Missing(Vin[t][k])}}

\* CreateNewBlock, first loop.  A transaction with a missing input is left out: its
\* COrphan is popped from vOrphan, but the parents it met before still lead to it.
BeginTemplate ==
    /\ minerPC = "create" /\ Settled
    /\ LET usable == {t \in mapTx : WaitsFor(t) \subseteq mapTx}
       IN /\ setDependsOn' = [t \in {u \in usable : WaitsFor(u) # {}} |-> WaitsFor(t)]
          /\ vecPriority' = {t \in usable : WaitsFor(t) = {}}
          /\ popped' = {p \in mapTx \X (mapTx \ usable) : p[1] \in WaitsFor(p[2]) \cap {o[1] : o \in Looked(p[2])}}
    /\ minerPC' = "build" /\ pc' = "mining"
    /\ hashPrev' = tip /\ vtx' = <<>> /\ skipped' = {}
    /\ UNCHANGED <<pindexPrev, nHeightCB, chainVars, coinVars, poolVars, blk, n, view, blockundo, nFees>>

\* Mutant of Freed: what is left of setDependsOn is looked at before the erase.
Freed_TestedFirst(tx) == {t \in DOMAIN setDependsOn : tx \in setDependsOn[t] /\ setDependsOn[t] = {}}

\* The dependers that wait for nothing else than tx.
Freed(tx) == {t \in DOMAIN setDependsOn : setDependsOn[t] = {tx}}

\* HaveInputs and CheckInputs of a queued transaction.
Minable(tx) == CheckInputs([t \in InputTxs(tx) |-> GetCoins(view, t)], tx, Height[hashPrev] + 1)

\* CreateNewBlock, second loop, for one transaction of the queue.  A COrphan that was
\* popped is memory given back: what is there may look like one that is ready.
TakeFromQueue(tx) ==
    /\ minerPC = "build" /\ tx \in vecPriority
    /\ \/ /\ Minable(tx)
          /\ view' = UpdateCoins(view, tx, Height[hashPrev] + 1).view
          /\ vtx' = Append(vtx, tx)
          /\ nFees' = nFees + ValueIn(tx) - ValueOut(tx)
          /\ \E back \in SUBSET {t \in mapTx : <<tx, t>> \in popped} :
                vecPriority' = (vecPriority \ {tx}) \cup Freed(tx) \cup back
          /\ setDependsOn' = [t \in DOMAIN setDependsOn |-> setDependsOn[t] \ {tx}]
          /\ UNCHANGED skipped
       \/ /\ tx \in Oversized \/ ~Minable(tx)
          /\ vecPriority' = vecPriority \ {tx}
          /\ skipped' = skipped \cup {tx}
          /\ UNCHANGED <<view, vtx, nFees, setDependsOn>>
    /\ UNCHANGED <<minerPC, pindexPrev, hashPrev, popped, nHeightCB, chainVars, coinVars, poolVars,
                   pc, blk, n, blockundo>>

EndOfLocals == /\ pindexPrev' = Genesis /\ vtx' = <<>> /\ skipped' = {} /\ popped' = {}
               /\ setDependsOn' = [t \in {} |-> {}]

\* The process ends in CreateNewBlock.
Dies ==
    /\ minerPC' = "dead" /\ pc' = "down"
    /\ view' = Empty /\ nFees' = 0 /\ vecPriority' = {} /\ EndOfLocals
    /\ UNCHANGED <<hashPrev, nHeightCB, chainVars, coinVars, poolVars, blk, n, blockundo>>

\* In the first loop: coins.vout[n] of an entry whose vout was cut down to nothing, or
\* to less than n, or the assertion of a node with -debug.
DiesReading ==
    /\ minerPC = "create" /\ Settled
    /\ \E t \in mapTx : \E o \in Looked(t) :
          Missing(o) \/ (TipHaveCoins(o[1]) /\ \A i \in TipCoins(o[1]).vout : i < o[2])
    /\ Dies

\* In the second: the COrphan of a popped transaction is used.
DiesInQueue ==
    /\ minerPC = "build" /\ \E p \in popped : p[1] \in vecPriority /\ Minable(p[1])
    /\ Dies

\* The end of CreateNewBlock, and IncrementExtraNonce with ticoinMiner's pindexPrev.
EndTemplate ==
    /\ minerPC = "build" /\ vecPriority = {}
    /\ minerPC' = "search" /\ pc' = "idle"
    /\ nHeightCB' = Height[pindexPrev] + 1
    /\ view' = Empty /\ nFees' = 0 /\ EndOfLocals
    /\ UNCHANGED <<hashPrev, vecPriority, chainVars, coinVars, poolVars, blk, n, blockundo>>

\* A solution is found and CheckWork submits it unless it is stale, or a reason
\* to rebuild is noticed first.  The block reaches AcceptBlock like any other.
EndSearch ==
    /\ minerPC = "search"
    /\ \/ minerPC' = "start" /\ hashPrev' = Genesis /\ nHeightCB' = 0
       \/ Settled /\ hashPrev = tip /\ minerPC' = "submit" /\ UNCHANGED <<hashPrev, nHeightCB>>
    /\ UNCHANGED <<vars, pindexPrev, vtx, vecPriority, setDependsOn, popped, skipped>>

Submitted ==
    /\ minerPC = "submit" /\ minerPC' = "start" /\ hashPrev' = Genesis /\ nHeightCB' = 0
    /\ UNCHANGED <<vars, pindexPrev, vtx, vecPriority, setDependsOn, popped, skipped>>

MinerStep == \/ ReadTip \/ BeginTemplate \/ EndTemplate \/ EndSearch \/ Submitted
             \/ DiesReading \/ DiesInQueue
             \/ \E tx \in Txs : TakeFromQueue(tx)

MinerNext == MinerStep \/ (Next /\ UNCHANGED minerVars)

MinerSpec == MinerInit /\ [][MinerNext]_mvars
-----------------------------------------------------------------------------
(* Properties *)

\* ConnectBlock with fJustCheck on the template: its transactions in order.
JustCheckTx(acc, tx) ==
    [ok |-> /\ acc.ok
            /\ CheckInputs([t \in InputTxs(tx) |-> GetCoins(acc.view, t)], tx, Height[hashPrev] + 1)
            /\ IsPruned(TipCoins(tx)),
     view |-> UpdateCoins(acc.view, tx, Height[hashPrev] + 1).view]
JustCheck == FoldLeft(JustCheckTx, [ok |-> TRUE, view |-> Empty], vtx)

\* Whatever the pool went through, and in whatever order the queue is served,
\* CreateNewBlock never throws "ConnectBlock failed".
TemplateConnects == minerPC = "build" => JustCheck.ok

\* A finished template leaves out a pool transaction only for a limit, for
\* an input the chain has lost, or with a parent it left out (mapDependers, setDependsOn).
TemplateComplete ==
    minerPC = "build" /\ vecPriority = {} =>
        \A t \in mapTx \ ToSet(vtx) :
            \/ t \in skipped /\ (t \in Oversized \/ \E o \in ToSet(Vin[t]) : ~Connects(o))
            \/ \E o \in ToSet(Vin[t]) : o[1] \notin ToSet(vtx) /\ ~TipHaveCoins(o[1])

\* What TemplateExact needs of the blocks besides NoCoinBaseAgain: a coinbase comes
\* at another height only where BIP30 refuses it, as it has the height in it (BIP34).
CoinBaseHeights ==
    \A b, c \in Blocks \ {Genesis} : Vtx[b][1] = Vtx[c][1] =>
        \/ Height[b] = Height[c]
        \/ \E u \in Utxo[Prev[b]] : u.out[1] = Vtx[b][1]
        \/ \E u \in Utxo[Prev[c]] : u.out[1] = Vtx[c][1]

\* Together: while the process lives, CreateNewBlock never fails on the pool, nor forgets a transaction.
TemplateExact == TemplateConnects /\ TemplateComplete

\* "This should never happen": no pool makes CreateNewBlock end the process.
\* The code does not keep this (README, section 4).
Survives == minerPC # "dead"

\* "Height first in coinbase required for block.version=2": a block CheckWork
\* submits carries the height after the block it builds on.
\* The code does not keep this (README, section 4).
SubmittedHeight == minerPC = "submit" => nHeightCB = Height[hashPrev] + 1
=============================================================================
