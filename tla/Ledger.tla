-------------------------------- MODULE Ledger --------------------------------
(***************************************************************************)
(* Coins, undo data and the memory pool (coins.*, txmempool.*, main.cpp).  *)
(*                                                                         *)
(* ActivateBestChain connects and disconnects one block at a time.  A block*)
(* is applied to a temporary CCoinsViewCache (view) on top of pcoinsTip,   *)
(* itself a cache (cacheCoins) on top of the chainstate database (coinsDB).*)
(* Connecting removes the block's transactions and all that conflict with  *)
(* them from the pool; disconnecting offers them to the pool again.  Which *)
(* chain is the best is BlockTree's subject: here it is the longest one    *)
(* without a block known to fail.  All of it runs under cs_main, and       *)
(* transactions arrive between two such calls.                             *)
(***************************************************************************)
EXTENDS Naturals, FiniteSets, Sequences, SequencesExt, FiniteSetsExt

CONSTANTS
    Txs,           \* the transactions that exist, by hash
    CoinBases,     \* those with CTransaction::IsCoinBase
    Vin,           \* CTransaction::vin, a sequence of outpoints <<hash, n>>
    Vout,          \* CTransaction::vout, a sequence of values
    Unspendable,   \* outpoints whose script IsUnspendable
    BadScript,     \* transactions with an input that fails VerifyScript
    NonStandard,   \* transactions only AcceptToMemoryPool refuses
    Blocks, Genesis,
    Prev,          \* CBlock::hashPrevBlock
    Vtx,           \* CBlock::vtx
    Subsidy,       \* GetBlockValue without the fees
    COINBASE_MATURITY,
    FlushChoices   \* whether WriteChainState writes: {TRUE} unless in initial download

NoCoins == [fCoinBase |-> FALSE, nHeight |-> 0, vout |-> {}]

OutPoints == UNION {{t} \X DOMAIN Vout[t] : t \in Txs}

Height[b \in Blocks] == IF b = Genesis THEN 0 ELSE Height[Prev[b]] + 1
Chain[b \in Blocks] == IF b = Genesis THEN {b} ELSE {b} \cup Chain[Prev[b]]

\* What CheckTransaction, CheckBlock and the hashes guarantee of the data: values are
\* not negative, no outpoint is spent twice by a transaction, only the first one of a
\* block is a coinbase, none is in it twice, and no block is its own ancestor.
ASSUME DataAssumption ==
    /\ IsFiniteSet(Txs) /\ CoinBases \cup BadScript \cup NonStandard \subseteq Txs
    /\ Vout \in [Txs -> Seq(Nat)] /\ Vin \in [Txs -> Seq(OutPoints)]
    /\ \A t \in Txs : /\ \A i, j \in DOMAIN Vin[t] : Vin[t][i] = Vin[t][j] => i = j
                      /\ t \in CoinBases <=> Vin[t] = <<>>
                      /\ Vout[t] # <<>>
    /\ Genesis \in Blocks
    /\ \A b \in Blocks \ {Genesis} :
          /\ Prev[b] \in Blocks
          /\ Vtx[b] \in Seq(Txs) /\ Vtx[b] # <<>>
          /\ \A i \in DOMAIN Vtx[b] : Vtx[b][i] \in CoinBases <=> i = 1
          /\ \A i, j \in DOMAIN Vtx[b] : Vtx[b][i] = Vtx[b][j] => i = j
    /\ \A S \in (SUBSET Blocks) \ {{}} : \E b \in S : b = Genesis \/ Prev[b] \notin S
    /\ Subsidy \in Nat /\ COINBASE_MATURITY \in Nat
    /\ FlushChoices \in (SUBSET BOOLEAN) \ {{}}

VARIABLES
    known,      \* blocks in mapBlockIndex
    failed,     \* blocks with BLOCK_FAILED_VALID
    target,     \* the tip of chainMostWork
    tip,        \* chainActive.Tip()
    coinsDB,    \* the chainstate database: txid -> CCoins
    cacheCoins, \* pcoinsTip->cacheCoins, entries written since the last Flush
    coinsBest,  \* pcoinsTip->hashBlock
    undo,       \* the undo data on disk: block -> CBlockUndo
    mapTx,      \* CTxMemPool::mapTx
    mapNextTx,  \* CTxMemPool::mapNextTx: outpoint -> spending transaction
    pc,         \* where the thread holding cs_main is
    blk,        \* the block being connected or disconnected
    n,          \* the position of its loop over block.vtx
    view,       \* the temporary CCoinsViewCache of ConnectTip and DisconnectTip
    blockundo,  \* ConnectBlock's CBlockUndo
    nFees       \* ConnectBlock's nFees

chainVars == <<known, failed, target, tip>>
coinVars  == <<coinsDB, cacheCoins, coinsBest, undo>>
poolVars  == <<mapTx, mapNextTx>>
callVars  == <<pc, blk, n, view, blockundo, nFees>>
vars      == <<chainVars, coinVars, poolVars, callVars>>
-----------------------------------------------------------------------------
(* CCoins *)

IsPruned(coins) == coins.vout = {}
IsAvailable(coins, i) == i \in coins.vout

\* operator== of CCoins.
SameCoins(c, d) == (IsPruned(c) /\ IsPruned(d)) \/ c = d

\* CCoins(tx, nHeight), with ClearUnspendable.
CoinsOf(tx, h) == [fCoinBase |-> tx \in CoinBases, nHeight |-> h,
                   vout |-> {i \in DOMAIN Vout[tx] : <<tx, i>> \notin Unspendable}]

\* The views.  A CCoinsViewCache prefers its own entry, a pruned one too.
Empty == [t \in {} |-> NoCoins]
TipCoins(t) == IF t \in DOMAIN cacheCoins THEN cacheCoins[t]
               ELSE IF t \in DOMAIN coinsDB THEN coinsDB[t] ELSE NoCoins
TipHaveCoins(t) == t \in DOMAIN cacheCoins \cup DOMAIN coinsDB
GetCoins(v, t) == IF t \in DOMAIN v THEN v[t] ELSE TipCoins(t)
HaveCoins(v, t) == t \in DOMAIN v \/ TipHaveCoins(t)

\* SetCoins, and BatchWrite of a whole cache.
Overlay(v, w) == [t \in DOMAIN v \cup DOMAIN w |-> IF t \in DOMAIN w THEN w[t] ELSE v[t]]
SetCoins(v, t, coins) == Overlay(v, [x \in {t} |-> coins])

Sum(s) == FoldLeft(LAMBDA x, y : x + y, 0, s)
ValueIn(tx) == Sum([j \in DOMAIN Vin[tx] |-> Vout[Vin[tx][j][1]][Vin[tx][j][2]]])
ValueOut(tx) == Sum(Vout[tx])

\* The transactions whose outputs tx spends.
InputTxs(tx) == {o[1] : o \in ToSet(Vin[tx])}

\* CheckInputs at nSpendHeight, with the coins of the transactions tx spends.
CheckInputs(coins, tx, nSpendHeight) ==
    /\ \A o \in ToSet(Vin[tx]) : IsAvailable(coins[o[1]], o[2])
    /\ \A t \in InputTxs(tx) : coins[t].fCoinBase => nSpendHeight - coins[t].nHeight >= COINBASE_MATURITY
    /\ ValueIn(tx) >= ValueOut(tx)
    /\ tx \notin BadScript

\* Mutant of SpendInput: the last output leaves no height in its undo record.
SpendInput_NoHeight(acc, o) ==
    [view |-> SetCoins(acc.view, o[1], [GetCoins(acc.view, o[1]) EXCEPT !.vout = @ \ {o[2]}]),
     undo |-> Append(acc.undo, [nHeight |-> 0, fCoinBase |-> FALSE])]

\* CCoins::Spend: the height goes into the undo record of the last output only.
SpendInput(acc, o) ==
    LET coins == GetCoins(acc.view, o[1])
        spent == [coins EXCEPT !.vout = @ \ {o[2]}]
    IN [view |-> SetCoins(acc.view, o[1], spent),
        undo |-> Append(acc.undo, IF IsPruned(spent)
                                  THEN [nHeight |-> coins.nHeight, fCoinBase |-> coins.fCoinBase]
                                  ELSE [nHeight |-> 0, fCoinBase |-> FALSE])]

UpdateCoins(v, tx, h) ==
    LET spent == FoldLeft(SpendInput, [view |-> v, undo |-> <<>>], Vin[tx])
    IN [spent EXCEPT !.view = SetCoins(@, tx, CoinsOf(tx, h))]

\* The inner loop of DisconnectBlock: one input restored from its undo record.
RestoreInput(acc, in) ==
    LET o == in[1]
        coins == GetCoins(acc.view, o[1])
        base == IF in[2].nHeight # 0
                THEN [fCoinBase |-> in[2].fCoinBase, nHeight |-> in[2].nHeight, vout |-> {}]
                ELSE coins
    IN [view |-> SetCoins(acc.view, o[1], [base EXCEPT !.vout = @ \cup {o[2]}]),
        fClean |-> /\ acc.fClean
                   /\ IsPruned(coins) <=> in[2].nHeight # 0
                   /\ ~IsAvailable(base, o[2])]

\* The body of DisconnectBlock's loop over the transactions.
UndoTx(v, tx, h, txundo) ==
    LET clean == SameCoins(GetCoins(v, tx), CoinsOf(tx, h))
        removed == IF HaveCoins(v, tx) THEN SetCoins(v, tx, NoCoins) ELSE v
    IN FoldLeft(RestoreInput, [view |-> removed, fClean |-> clean], Reverse(Zip(Vin[tx], txundo)))
-----------------------------------------------------------------------------
(* CTxMemPool *)

Outputs(t) == {t} \X DOMAIN Vout[t]

\* The pool transactions that spend an output of one of ts, at any distance.
Closed(ts, D) == \A o \in DOMAIN mapNextTx : o[1] \in ts \cup D => mapNextTx[o] \in D
Descendants(ts) == {t \in Txs : \A D \in SUBSET mapTx : Closed(ts, D) => t \in D}

\* remove: the members of ts that are in the pool lose their inputs' entries.
RemoveFromPool(ts) ==
    /\ mapTx' = mapTx \ ts
    /\ mapNextTx' = [o \in DOMAIN mapNextTx \ UNION {ToSet(Vin[t]) : t \in ts \cap mapTx} |-> mapNextTx[o]]

\* Mutant of RemoveForBlock: conflicts go, what depends on them stays.
RemoveForBlock_NotRecursive(tx) ==
    RemoveFromPool({tx} \cup {mapNextTx[o] : o \in ToSet(Vin[tx]) \cap DOMAIN mapNextTx})

\* remove(tx) of ConnectTip, then removeConflicts(tx), each conflict with all
\* that depends on it.
RemoveForBlock(tx) ==
    LET conflicts == {mapNextTx[o] : o \in ToSet(Vin[tx]) \cap DOMAIN mapNextTx} \ {tx}
    IN RemoveFromPool({tx} \cup conflicts \cup Descendants(conflicts))

\* Mutant of PoolView: inputs are looked up in the chain only.
PoolView_ChainOnly(t) == TipCoins(t)

\* CCoinsViewMemPool::GetCoins: pcoinsTip first, even where its entry is pruned.
PoolView(t) == IF TipHaveCoins(t) THEN TipCoins(t)
               ELSE IF t \in mapTx THEN CoinsOf(t, 0) ELSE NoCoins
PoolHaveCoins(t) == TipHaveCoins(t) \/ t \in mapTx

\* "Check for conflicts with in-memory transactions".
ConflictsWithPool(tx) == ToSet(Vin[tx]) \cap DOMAIN mapNextTx # {}

\* AcceptToMemoryPool without the fee limits that only peers' transactions meet.
Acceptable(tx) ==
    /\ tx \notin CoinBases \cup NonStandard
    /\ tx \notin mapTx
    /\ ~ConflictsWithPool(tx)
    /\ ~PoolHaveCoins(tx)
    /\ CheckInputs([t \in InputTxs(tx) |-> PoolView(t)], tx, Height[coinsBest] + 1)

addUnchecked(tx) ==
    /\ mapTx' = mapTx \cup {tx}
    /\ mapNextTx' = [o \in DOMAIN mapNextTx \cup ToSet(Vin[tx]) |->
                       IF o \in ToSet(Vin[tx]) THEN tx ELSE mapNextTx[o]]
-----------------------------------------------------------------------------
(* Chain selection, reduced to what decides which block is next *)

\* The blocks FindMostWorkChain may settle on.
Best(kn, fl) == LET ok == {b \in kn : Chain[b] \cap fl = {}}
                IN {b \in ok : \A c \in ok : Height[c] <= Height[b]}

Init ==
    /\ known = {Genesis} /\ failed = {} /\ target = Genesis /\ tip = Genesis
    /\ coinsDB = Empty /\ cacheCoins = Empty /\ coinsBest = Genesis
    /\ undo = [b \in {} |-> <<>>]
    /\ mapTx = {} /\ mapNextTx = [o \in {} |-> 0]
    /\ pc = "idle" /\ blk = Genesis /\ n = 0
    /\ view = Empty /\ blockundo = <<>> /\ nFees = 0

Settled == pc = "idle" /\ tip = target

\* A block is added to the index, and ActivateBestChain is called.
AcceptBlock(b) ==
    /\ Settled /\ b \notin known /\ Prev[b] \in known /\ Chain[b] \cap failed = {}
    /\ known' = known \cup {b}
    /\ target' = IF Height[b] > Height[tip] THEN b ELSE target
    /\ UNCHANGED <<failed, tip, coinVars, poolVars, callVars>>

\* A transaction of a peer or of the wallet.
AcceptToMemoryPool(tx) ==
    /\ Settled
    /\ IF Acceptable(tx) THEN addUnchecked(tx) ELSE UNCHANGED poolVars
    /\ UNCHANGED <<chainVars, coinVars, callVars>>

\* CCoinsViewDB::BatchWrite: what is pruned is erased from the database.
Written(cache) == LET all == Overlay(coinsDB, cache)
                  IN [t \in {u \in DOMAIN all : ~IsPruned(all[u])} |-> all[t]]

\* WriteChainState: pcoinsTip->Flush(), unless it is put off.
WriteChainState(cache) ==
    \E flush \in FlushChoices :
       IF flush
       THEN coinsDB' = Written(cache) /\ cacheCoins' = Empty
       ELSE cacheCoins' = cache /\ UNCHANGED coinsDB

EndCall == n' = 0 /\ view' = Empty /\ blockundo' = <<>> /\ nFees' = 0
-----------------------------------------------------------------------------
(* ConnectTip *)

\* The block fails: InvalidBlockFound, and ActivateBestChain looks again.
ConnectFails(b) ==
    /\ blk' = b
    /\ failed' = failed \cup {b}
    /\ target' \in Best(known, failed')
    /\ pc' = "idle" /\ EndCall
    /\ UNCHANGED <<known, tip, coinVars, poolVars>>

\* ConnectBlock up to its loop: no transaction may replace an unspent one.
BeginConnect ==
    /\ pc = "idle" /\ tip # target /\ tip \in Chain[target]
    /\ \E b \in Chain[target] \ {Genesis} :
          /\ Prev[b] = tip
          /\ IF \E t \in ToSet(Vtx[b]) : ~IsPruned(TipCoins(t))
             THEN ConnectFails(b)
             ELSE /\ pc' = "connect" /\ blk' = b /\ n' = 1
                  /\ UNCHANGED <<view, blockundo, nFees, chainVars, coinVars, poolVars>>

\* One transaction of the block.
ConnectTx ==
    /\ pc = "connect" /\ n <= Len(Vtx[blk])
    /\ LET tx == Vtx[blk][n]
           coins == [t \in InputTxs(tx) |-> GetCoins(view, t)]
           new == UpdateCoins(view, tx, Height[blk])
       IN IF n > 1 /\ ~CheckInputs(coins, tx, Height[blk])
          THEN ConnectFails(blk)
          ELSE /\ view' = new.view
               /\ blockundo' = IF n > 1 THEN Append(blockundo, new.undo) ELSE blockundo
               /\ nFees' = IF n > 1 THEN nFees + ValueIn(tx) - ValueOut(tx) ELSE nFees
               /\ n' = n + 1
               /\ UNCHANGED <<pc, blk, chainVars, coinVars, poolVars>>

\* The coinbase check of ConnectBlock.
PaysTooMuch(b, fees) == ValueOut(Vtx[b][1]) > Subsidy + fees

\* The rest of ConnectBlock.  Undo data is written the first time only.
EndConnectBlock ==
    /\ pc = "connect" /\ n > Len(Vtx[blk])
    /\ IF PaysTooMuch(blk, nFees)
       THEN ConnectFails(blk)
       ELSE /\ undo' = IF blk \in DOMAIN undo THEN undo
                       ELSE [b \in DOMAIN undo \cup {blk} |-> IF b = blk THEN blockundo ELSE undo[b]]
            /\ pc' = "connected"
            /\ UNCHANGED <<blk, n, view, blockundo, nFees, coinsDB, cacheCoins, coinsBest, chainVars, poolVars>>

\* ConnectTip after ConnectBlock and up to the pool.
FinishConnect ==
    /\ pc = "connected"
    /\ WriteChainState(Overlay(cacheCoins, view))
    /\ coinsBest' = blk
    /\ pc' = "conflicts" /\ n' = 1
    /\ view' = Empty /\ blockundo' = <<>> /\ nFees' = 0
    /\ UNCHANGED <<blk, undo, chainVars, poolVars>>

\* Remove conflicting transactions from the mempool, then UpdateTip.
RemoveConflicts ==
    /\ pc = "conflicts" /\ n <= Len(Vtx[blk])
    /\ RemoveForBlock(Vtx[blk][n])
    /\ n' = n + 1
    /\ UNCHANGED <<pc, blk, view, blockundo, nFees, chainVars, coinVars>>

ConnectDone ==
    /\ pc = "conflicts" /\ n > Len(Vtx[blk])
    /\ tip' = blk
    /\ pc' = "idle" /\ EndCall
    /\ UNCHANGED <<blk, known, failed, target, coinVars, poolVars>>
-----------------------------------------------------------------------------
(* DisconnectTip *)

BeginDisconnect ==
    /\ pc = "idle" /\ tip \notin Chain[target]
    /\ pc' = "disconnect" /\ blk' = tip /\ n' = Len(Vtx[tip])
    /\ UNCHANGED <<view, blockundo, nFees, chainVars, coinVars, poolVars>>

\* One transaction of DisconnectBlock, the last first.  When the coins are not
\* what the block left, DisconnectTip and ActivateBestChain give up.
DisconnectTx ==
    /\ pc = "disconnect" /\ n >= 1
    /\ LET new == UndoTx(view, Vtx[blk][n], Height[blk], IF n > 1 THEN undo[blk][n - 1] ELSE <<>>)
       IN /\ view' = new.view
          /\ IF new.fClean THEN n' = n - 1 /\ UNCHANGED pc ELSE pc' = "unclean" /\ UNCHANGED n
    /\ UNCHANGED <<blk, blockundo, nFees, chainVars, coinVars, poolVars>>

FinishDisconnect ==
    /\ pc = "disconnect" /\ n = 0
    /\ WriteChainState(Overlay(cacheCoins, view))
    /\ coinsBest' = Prev[blk]
    /\ pc' = "resurrect" /\ n' = 1 /\ view' = Empty
    /\ UNCHANGED <<blk, blockundo, nFees, undo, chainVars, poolVars>>

\* Resurrect mempool transactions from the disconnected block; one that is not
\* accepted takes its descendants with it.
Resurrect ==
    /\ pc = "resurrect" /\ n <= Len(Vtx[blk])
    /\ LET tx == Vtx[blk][n]
       IN IF tx \in CoinBases THEN UNCHANGED poolVars
          ELSE IF Acceptable(tx) THEN addUnchecked(tx)
          ELSE RemoveFromPool({tx} \cup Descendants({tx}))
    /\ n' = n + 1
    /\ UNCHANGED <<pc, blk, view, blockundo, nFees, chainVars, coinVars>>

DisconnectDone ==
    /\ pc = "resurrect" /\ n > Len(Vtx[blk])
    /\ tip' = Prev[blk]
    /\ pc' = "idle" /\ EndCall
    /\ UNCHANGED <<blk, known, failed, target, coinVars, poolVars>>
-----------------------------------------------------------------------------
Next ==
    \/ \E b \in Blocks \ {Genesis} : AcceptBlock(b)
    \/ \E tx \in Txs : AcceptToMemoryPool(tx)
    \/ BeginConnect \/ ConnectTx \/ EndConnectBlock \/ FinishConnect \/ RemoveConflicts \/ ConnectDone
    \/ BeginDisconnect \/ DisconnectTx \/ FinishDisconnect \/ Resurrect \/ DisconnectDone

Spec == Init /\ [][Next]_vars
-----------------------------------------------------------------------------
(* Properties *)

CCoins == [fCoinBase : BOOLEAN, nHeight : Nat, vout : SUBSET Nat]
IsView(v) == DOMAIN v \subseteq Txs /\ \A t \in DOMAIN v : v[t] \in CCoins

\* Every variable has the shape of the C++ object it stands for, and the chain
\* pointers stay inside the block index.
TypeOK ==
    /\ known \subseteq Blocks /\ failed \subseteq known /\ {target, tip, coinsBest} \subseteq known
    /\ IsView(coinsDB) /\ IsView(cacheCoins) /\ IsView(view)
    /\ DOMAIN undo \subseteq known /\ blk \in known
    /\ mapTx \subseteq Txs /\ DOMAIN mapNextTx \subseteq OutPoints
    /\ \A o \in DOMAIN mapNextTx : mapNextTx[o] \in Txs
    /\ pc \in {"idle", "connect", "connected", "conflicts", "disconnect", "resurrect", "unclean", "mining", "reaccept",
              "rescan", "down"}
    /\ n \in Nat /\ nFees \in Nat

\* The reference for coins: an output is unspent on the chain ending in b if a
\* block of the chain made it, with the height of that block, and neither that
\* nor a later one spent it.
Utxo[b \in Blocks] ==
    IF b = Genesis THEN {}
    ELSE LET made == {[out |-> o, nHeight |-> Height[b]] :
                        o \in (UNION {Outputs(t) : t \in ToSet(Vtx[b])}) \ Unspendable}
             spent == UNION {ToSet(Vin[t]) : t \in ToSet(Vtx[b])}
         IN {u \in Utxo[Prev[b]] \cup made : u.out \notin spent}

Unspent == {o \in OutPoints : IsAvailable(TipCoins(o[1]), o[2])}

\* Whatever was connected, disconnected, connected again and flushed in between
\* (UpdateCoins, DisconnectBlock, Flush), pcoinsTip is the replay of its chain.
CoinsAreReplay ==
    /\ Utxo[coinsBest] = {[out |-> o, nHeight |-> TipCoins(o[1]).nHeight] : o \in Unspent}
    /\ \A o \in Unspent : TipCoins(o[1]).fCoinBase <=> o[1] \in CoinBases

\* DisconnectBlock never finds coins other than those ConnectBlock left
\* ("added transaction mismatch? database corrupted").
AlwaysClean == pc # "unclean"

\* The coinbase check of ConnectBlock bounds the money: no sequence of blocks
\* and reorganisations leaves more than the subsidies of the active chain.
MoneySupply == MapThenSumSet(LAMBDA o : Vout[o[1]][o[2]], Unspent) <= Subsidy * Height[coinsBest]

\* Together: the coins are right, and undoing a block leaves them right.
CoinsExact == TypeOK /\ CoinsAreReplay /\ AlwaysClean /\ MoneySupply

\* mapNextTx says for every pool transaction, and for nothing else, what it
\* spends; so no two of them spend the same output (CTxMemPool::check).
PoolSpendsExact ==
    /\ DOMAIN mapNextTx = UNION {ToSet(Vin[t]) : t \in mapTx}
    /\ \A t \in mapTx : \A o \in ToSet(Vin[t]) : mapNextTx[o] = t

Connects(o) == o[1] \in mapTx \/ IsAvailable(TipCoins(o[1]), o[2])

\* After every block and transaction, the inputs of the pool are unspent or made
\* by the pool, and no pool transaction is in the chain; only a coinbase that a
\* reorganisation took away may be missing, as no one removes its spenders.
PoolFollowsChain ==
    pc = "idle" => \A t \in mapTx :
        /\ IsPruned(TipCoins(t))
        /\ \A o \in ToSet(Vin[t]) : Connects(o) \/ o[1] \in CoinBases

\* What PoolExact needs of the blocks: a coinbase comes a second time on a chain only
\* while an output of the first one is unspent, where BIP30 refuses it.
NoCoinBaseAgain ==
    \A b \in Blocks \ {Genesis} : \A c \in Chain[Prev[b]] \ {Genesis} :
        Vtx[b][1] = Vtx[c][1] => \E u \in Utxo[Prev[b]] : u.out[1] = Vtx[b][1]

\* Together: the pool has no conflict within itself or with the chain.
PoolExact == PoolSpendsExact /\ PoolFollowsChain

\* The comment of CTxMemPool::check and of CreateNewBlock: every mempool
\* transaction's inputs refer to available coins, or other mempool tx's.
\* The code does not keep this (README, section 4).
PoolInputsAvailable == pc = "idle" => \A t \in mapTx : \A o \in ToSet(Vin[t]) : Connects(o)

\* A transaction of the disconnected block the pool could hold and does not.
Lost == {t \in ToSet(Vtx[blk]) \ (CoinBases \cup NonStandard) :
            t \notin mapTx /\ \A o \in ToSet(Vin[t]) : Connects(o)}

\* DisconnectTip gives every transaction of the block whose inputs exist without
\* it back to the pool, once WriteChainState has written the coins.
ResurrectedIfFlushed == pc = "resurrect" /\ n > Len(Vtx[blk]) /\ cacheCoins = Empty => Lost = {}

\* DisconnectTip: "Resurrect mempool transactions from the disconnected block".
\* The code does not keep this (README, section 4).
Resurrected == pc = "resurrect" /\ n > Len(Vtx[blk]) => Lost = {}
=============================================================================
