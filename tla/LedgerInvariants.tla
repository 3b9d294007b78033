--------------------------- MODULE LedgerInvariants ---------------------------
(***************************************************************************)
(* What holds at each step of Ledger, of Miner and of Wallet: the          *)
(* inductive invariants of LedgerProofs, and what they are stated with.    *)
(*                                                                         *)
(* CoinsInv      pcoinsTip, the database and the view in progress each     *)
(*               represent (Rep) the unspent outputs of a place in the     *)
(*               tree (Utxo, Part), and undo data leads back from there    *)
(* PoolInv       the pool fits the chain, but for the transactions the     *)
(*               loops of ConnectTip and DisconnectTip have ahead of them  *)
(* LedgerInv     what CreateNewBlock relies on; Building is what it keeps  *)
(* WalletInv     the wallet has what concerns it or is about to be told    *)
(* CreditInv     a cached credit is current or about to be marked dirty    *)
(***************************************************************************)
EXTENDS Miner, Wallet

-----------------------------------------------------------------------------
(* Values *)

Val(o) == Vout[o[1]][o[2]]
Amount(T) == MapThenSumSet(LAMBDA o : Vout[o[1]][o[2]], T)

-----------------------------------------------------------------------------
(* Views *)

\* The values of the variables that hold coins and undo data.
Views == UNION {[D -> CCoins] : D \in SUBSET Txs}
UndoRecord == [nHeight : Nat, fCoinBase : BOOLEAN]
TipTypes == coinsDB \in Views /\ cacheCoins \in Views

-----------------------------------------------------------------------------
(* The unspent outputs inside a block *)

Records == [out : OutPoints, nHeight : Nat]
Outs(U) == {u.out : u \in U}
Minus(U, S) == {u \in U : u.out \notin S}

\* The outputs after the first k transactions of block b.
MadeBy(t, h) == {[out |-> o, nHeight |-> h] : o \in Outputs(t) \ Unspendable}
Made(b, k) == {[out |-> o, nHeight |-> Height[b]] :
                 o \in (UNION {Outputs(Vtx[b][i]) : i \in 1..k}) \ Unspendable}
Gone(b, k) == UNION {ToSet(Vin[Vtx[b][i]]) : i \in 1..k}
Part(b, k) == Minus(Utxo[Prev[b]] \cup Made(b, k), Gone(b, k))

-----------------------------------------------------------------------------
(* Coins that represent a set of unspent outputs *)

\* The coins a view shows, and how they represent a set of unspent outputs.
CoinsIn(v) == [t \in Txs |-> GetCoins(v, t)]
Rep(C, U) ==
    /\ C \in [Txs -> CCoins]
    /\ U \subseteq Records
    /\ \A t \in Txs : \A i \in Nat : i \in C[t].vout <=> <<t, i>> \in Outs(U)
    /\ \A u \in U : /\ u.nHeight = C[u.out[1]].nHeight
                    /\ C[u.out[1]].fCoinBase <=> u.out[1] \in CoinBases

\* The outputs in U that are left when the first j inputs of tx are spent.
Cut(U, tx, j) == Minus(U, {Vin[tx][i] : i \in 1..j})

\* What a record of an input w says, when R is left after it: the height and kind of
\* the transaction, if no output of it is left.
Tells(r, w, R) ==
    IF \E x \in R : x.out[1] = w.out[1]
    THEN r.nHeight = 0
    ELSE r.nHeight = w.nHeight /\ (r.fCoinBase <=> w.out[1] \in CoinBases)
UndoOK(U, tx, u) ==
    /\ u \in Seq(UndoRecord) /\ Len(u) = Len(Vin[tx])
    /\ \A j \in 1..Len(Vin[tx]) : \A w \in U : w.out = Vin[tx][j] => Tells(u[j], w, Cut(U, tx, j))

Without(U, o) == {u \in U : u.out # o}
With(U, w) == U \cup {w}
Uniform(U) == \A u, w \in U : u.out[1] = w.out[1] => u.nHeight = w.nHeight

\* Where UpdateCoins is after k inputs.
Spent(U, tx, acc, k) ==
    /\ Rep(CoinsIn(acc.view), Cut(U, tx, k))
    /\ Len(acc.undo) = k
    /\ \A j \in 1..k : \A w \in U : w.out = Vin[tx][j] => Tells(acc.undo[j], w, Cut(U, tx, j))

-----------------------------------------------------------------------------
(* A block, transaction by transaction *)

\* No transaction of the block has outputs left before it (BIP30).
Fresh(b) == \A u \in Utxo[Prev[b]] : u.out[1] \notin ToSet(Vtx[b])
Available(b, k) == \A i \in 1..k : ToSet(Vin[Vtx[b][i]]) \subseteq Outs(Part(b, i - 1))

-----------------------------------------------------------------------------
(* Coins *)

\* The first k transactions of block b are connected, and bu is its undo data so far.
Applied(b, k, bu) ==
    /\ Fresh(b) /\ Available(b, k)
    /\ \A i \in 0..k : Uniform(Part(b, i))
    /\ bu \in Seq(Seq(UndoRecord)) /\ Len(bu) = IF k = 0 THEN 0 ELSE k - 1
    /\ \A i \in 2..k : UndoOK(Part(b, i - 1), Vtx[b][i], bu[i - 1])

Types ==
    /\ known \subseteq Blocks /\ Genesis \in known
    /\ failed \subseteq known
    /\ {target, tip, coinsBest, blk} \subseteq known
    /\ \A b \in known \ {Genesis} : Prev[b] \in known
    /\ TipTypes /\ view \in Views
    /\ n \in Nat /\ nFees \in Nat
    /\ pc \in {"idle", "connect", "connected", "conflicts", "disconnect", "resurrect", "mining", "reaccept", "rescan", "down"}

PoolTypes ==
    /\ mapTx \subseteq Txs
    /\ DOMAIN mapNextTx \subseteq OutPoints
    /\ \A o \in DOMAIN mapNextTx : mapNextTx[o] \in Txs

\* Every block that was connected once has undo data, and pays what it may.
HistoryOf(u) ==
    /\ DOMAIN u \subseteq Blocks \ {Genesis}
    /\ \A b \in DOMAIN u :
          /\ Prev[b] \in DOMAIN u \cup {Genesis}
          /\ Applied(b, Len(Vtx[b]), u[b])
          /\ Amount(Outs(Utxo[b])) <= Subsidy * Height[b]
History ==
    /\ HistoryOf(undo) /\ DOMAIN undo \subseteq known
    /\ {tip, coinsBest} \subseteq DOMAIN undo \cup {Genesis}

AtTip == Rep(CoinsIn(Empty), Utxo[coinsBest])

Idle == pc = "idle" => coinsBest = tip /\ view = Empty /\ blockundo = <<>> /\ nFees = 0

Connecting == pc = "connect" =>
    /\ coinsBest = tip /\ blk # Genesis /\ Prev[blk] = tip
    /\ n \in 1..(Len(Vtx[blk]) + 1)
    /\ Rep(CoinsIn(view), Part(blk, n - 1))
    /\ Applied(blk, n - 1, blockundo)
    /\ Amount(Outs(Part(blk, n - 1))) + nFees
          <= Amount(Outs(Utxo[tip])) + (IF n = 1 THEN 0 ELSE ValueOut(Vtx[blk][1]))

Disconnecting == pc = "disconnect" =>
    /\ coinsBest = tip /\ blk = tip /\ tip # Genesis
    /\ n \in 0..Len(Vtx[blk])
    /\ Rep(CoinsIn(view), Part(blk, n))

Finishing ==
    /\ pc = "connected" => /\ coinsBest = tip /\ blk \in DOMAIN undo /\ Prev[blk] = tip
                          /\ Rep(CoinsIn(view), Utxo[blk])
    /\ pc = "conflicts" => coinsBest = blk /\ view = Empty
    /\ pc = "resurrect" => blk # Genesis /\ n # 0 /\ coinsBest = Prev[blk] /\ view = Empty

\* The miner and the wallet hold cs_main between two calls of ActivateBestChain.
\* After a kill there is no call.
Elsewhere ==
    /\ pc \in {"mining", "reaccept", "rescan"} => coinsBest = tip /\ blockundo = <<>>
    /\ pc = "reaccept" => n # 0
    /\ pc \in {"rescan", "down"} => view = Empty /\ blockundo = <<>> /\ nFees = 0

Loops == Idle /\ Connecting /\ Disconnecting /\ Finishing /\ Elsewhere
CoinsInv == Types /\ History /\ AtTip /\ Loops

-----------------------------------------------------------------------------
(* The miner *)

\* CreateNewBlock holds cs_main while it has a view of its own.
MinerInv ==
    /\ CoinsInv /\ PoolTypes
    /\ hashPrev \in Blocks
    /\ minerPC = "build" => pc = "mining"

-----------------------------------------------------------------------------
(* A chain spends an output once *)

\* The transactions of a chain, and of a chain and the first k of a block on it.
ChainTxs(b) == UNION {ToSet(Vtx[c]) : c \in Chain[b] \ {Genesis}}
Upto(b, k) == ChainTxs(Prev[b]) \cup {Vtx[b][i] : i \in 1..k}

\* T made the unspent outputs U and spent none of them, and all that T spends T made.
Accounts(U, T) ==
    /\ \A u \in U : u.out[1] \in T
    /\ \A t \in T : \A o \in ToSet(Vin[t]) : o \notin Outs(U) /\ o[1] \in T

-----------------------------------------------------------------------------
(* The pool *)

\* What RemoveConflicts and Resurrect have not come to yet.
Ahead == {Vtx[blk][i] : i \in n..Len(Vtx[blk])}
ToConnect == IF pc = "conflicts" THEN Ahead ELSE {}
ToReturn == IF pc = "resurrect" THEN Ahead ELSE {}

PoolLoop == pc \in {"conflicts", "resurrect"} => blk \in DOMAIN undo /\ n # 0

\* No transaction is in the pool and in the chain, once RemoveConflicts has come to it.
OffChain == mapTx \cap ChainTxs(coinsBest) \subseteq ToConnect

\* Nor does the chain spend what the pool spends.
NotSpent == \A o \in DOMAIN mapNextTx : \A t \in ChainTxs(coinsBest) : o \in ToSet(Vin[t]) => t \in ToConnect

\* What the pool spends is there, or a transaction made it that comes back, or none does.
Supplied == \A o \in DOMAIN mapNextTx :
    /\ o \notin Unspendable
    /\ \/ o[1] \in mapTx \cup CoinBases \cup ToReturn
       \/ o \in Outs(Utxo[coinsBest])
       \/ \E t \in ToConnect : o \in ToSet(Vin[t])

\* A transaction that comes back conflicts with nothing.
NotBack == \A t \in ToReturn : t \notin mapTx /\ ToSet(Vin[t]) \cap DOMAIN mapNextTx = {}

PoolInv == PoolSpendsExact /\ PoolLoop /\ OffChain /\ NotSpent /\ Supplied /\ NotBack /\ mapTx \cap CoinBases = {}

-----------------------------------------------------------------------------
(* What a disconnected block gives back *)

\* The k-th transaction of block b passes CheckInputs after those before it.
PassedAt(b, k) ==
    /\ \A u \in Part(b, k - 1) : u.out \in ToSet(Vin[Vtx[b][k]]) /\ u.out[1] \in CoinBases
                                    => Height[b] - u.nHeight >= COINBASE_MATURITY
    /\ ValueIn(Vtx[b][k]) >= ValueOut(Vtx[b][k])
    /\ Vtx[b][k] \notin BadScript

\* So did all of a block that was connected once, and those connected so far.
Passed ==
    /\ \A b \in DOMAIN undo : \A k \in 2..Len(Vtx[b]) : PassedAt(b, k)
    /\ pc = "connect" => \A k \in 2..(n - 1) : PassedAt(blk, k)

\* The database has no entry of a spent transaction.
DBUnpruned == \A t \in DOMAIN coinsDB : ~IsPruned(coinsDB[t])

\* What Resurrect has come to is in the pool, or is nothing for the pool.
GivenBack ==
    pc = "resurrect" /\ cacheCoins = Empty =>
        \A k \in 1..Len(Vtx[blk]) : k < n =>
            \/ Vtx[blk][k] \in mapTx \cup CoinBases \cup NonStandard
            \/ \E o \in ToSet(Vin[Vtx[blk][k]]) : ~Connects(o)

-----------------------------------------------------------------------------
(* A block that was connected once never fails *)

\* The fees nFees takes, transaction by transaction.
FeeSums(b, f, k) ==
    /\ f \in [0..k -> Nat] /\ f[0] = 0
    /\ \A i \in 1..k : f[i] = IF i = 1 THEN 0 ELSE f[i - 1] + (ValueIn(Vtx[b][i]) - ValueOut(Vtx[b][i]))

\* A block in the history does not pay too much.
Fees ==
    /\ pc = "connect" => \E f : FeeSums(blk, f, n - 1) /\ nFees = f[n - 1]
    /\ \A b \in DOMAIN undo : \E f : FeeSums(b, f, Len(Vtx[b])) /\ ~PaysTooMuch(b, f[Len(Vtx[b])])

\* No block of the history has failed, and the target is the best of the others.
NeverFails == DOMAIN undo \cap failed = {} /\ (pc = "connect" => blk \notin failed)
BestTarget == target \in Best(known, failed)

-----------------------------------------------------------------------------
(* What pcoinsTip has an entry of, and what the pool was checked for *)

\* A view has entries of no other transactions.
Within(v, D) == \A t \in DOMAIN v : t \in D

\* The temporary view has entries for the chain and the block only.
ViewsTouch == pc \in {"connect", "connected", "disconnect"} => Within(view, ChainTxs(blk))

\* pcoinsTip has no entry of a pool transaction, not even one of spent coins.
NotInTip == \A t \in mapTx : TipHaveCoins(t) => t \in ToConnect

\* Each input that is a coinbase was old enough on some chain that was connected.
WasMature(t) == \A o \in ToSet(Vin[t]) : o[1] \in CoinBases =>
    \E b, c \in DOMAIN undo : Vtx[b][1] = o[1] /\ (Height[c] + 1) - Height[b] >= COINBASE_MATURITY
PoolChecked == \A t \in mapTx : ValueIn(t) >= ValueOut(t) /\ t \notin BadScript /\ WasMature(t)

-----------------------------------------------------------------------------
(* CreateNewBlock *)

Taken == ToSet(vtx)

\* The template is built on the best chain.
OnTip == hashPrev = coinsBest /\ tip = coinsBest /\ target = tip /\ vtx \in Seq(Txs)

\* The miner's view shows what the transactions taken leave.
Shows(U) ==
    /\ Rep(CoinsIn(view), U) /\ Accounts(U, ChainTxs(hashPrev) \cup Taken)
    /\ \A u \in U : u \in Utxo[hashPrev] \/ u.out[1] \in Taken
    /\ \A o \in OutPoints :
          /\ o \in Outs(Utxo[hashPrev]) \/ (o[1] \in Taken /\ o \notin Unspendable)
          /\ \A t \in Taken : o \notin ToSet(Vin[t])
          => o \in Outs(U)

\* A transaction passes its checks on unspent outputs, and what it leaves of them.
Fits(U, tx, ht) ==
    /\ ToSet(Vin[tx]) \subseteq Outs(U) /\ \A u \in U : u.out[1] # tx
    /\ \A u \in U : u.out \in ToSet(Vin[tx]) /\ u.out[1] \in CoinBases => ht - u.nHeight >= COINBASE_MATURITY
    /\ ValueIn(tx) >= ValueOut(tx) /\ tx \notin BadScript
After(U, tx, ht) == Minus(U, ToSet(Vin[tx])) \cup MadeBy(tx, ht)

\* Each transaction of s passes after those before it, in a block on b.
Lined(f, s, b) ==
    /\ f[0] = Utxo[b]
    /\ \A k \in 1..Len(s) : Fits(f[k - 1], s[k], Height[b] + 1) /\ f[k] = After(f[k - 1], s[k], Height[b] + 1)

\* A transaction with its parents in the pool is taken, queued, skipped or waits.  What
\* comes back of a COrphan that was popped lacks a parent, and is not taken.
Queued ==
    /\ Taken \subseteq mapTx /\ vecPriority \subseteq mapTx \ Taken
    /\ \A t \in DOMAIN setDependsOn : setDependsOn[t] = WaitsFor(t) \ Taken
    /\ \A t \in Taken : WaitsFor(t) \subseteq Taken
    /\ \A t \in vecPriority : WaitsFor(t) \subseteq Taken \/ ~(WaitsFor(t) \subseteq mapTx)
    /\ \A p \in popped : ~(WaitsFor(p[2]) \subseteq mapTx)
    /\ \A t \in DOMAIN setDependsOn : t \in mapTx
    /\ \A t \in mapTx : WaitsFor(t) \subseteq mapTx =>
          t \in Taken \cup vecPriority \cup skipped \/ (t \in DOMAIN setDependsOn /\ ~(WaitsFor(t) \subseteq Taken))
    /\ \A t \in skipped : t \in Oversized \/ \E o \in ToSet(Vin[t]) : ~Connects(o)

Building == minerPC = "build" =>
    OnTip /\ (\E f : Lined(f, vtx, hashPrev) /\ Shows(f[Len(vtx)])) /\ Queued

\* What the ledger does for the miner.
LedgerInv == PoolInv /\ Passed /\ Fees /\ NeverFails /\ BestTarget /\ ViewsTouch /\ NotInTip /\ PoolChecked

-----------------------------------------------------------------------------
(* The wallet has what concerns it *)

WalletCall == [tx : Txs, block : Blocks \cup {NoBlock}]

WalletTypes ==
    /\ DOMAIN mapWallet \subseteq Txs /\ pending \in Seq(WalletCall)
    /\ locator \in Blocks /\ txConflicted \subseteq Txs

\* Where the call is.
Stages ==
    /\ pending # <<>> => pc \in {"idle", "rescan", "connected"}
    /\ pc \in {"disconnect", "resurrect"} => blk = tip
    /\ pc = "conflicts" => blk # Genesis /\ Prev[blk] = tip

\* A transaction of the wallet has no block but one it is in, and the wallet is told of a
\* block's transactions at the end of ConnectBlock or while the block is in the chain.
Recorded ==
    /\ \A t \in DOMAIN mapWallet : mapWallet[t] # NoBlock =>
          mapWallet[t] \in Blocks \ {Genesis} /\ t \in ToSet(Vtx[mapWallet[t]])
    /\ \A i \in 1..Len(pending) : pending[i].block # NoBlock =>
          /\ pending[i].tx \in ToSet(Vtx[pending[i].block]) /\ pending[i].block # Genesis
          /\ pending[i].block \in Chain[tip] \/ (pc = "connected" /\ pending[i].block = blk)

Has(t, b) == t \in DOMAIN mapWallet /\ mapWallet[t] = b
Told(t, b) == Has(t, b) \/ \E i \in 1..Len(pending) : pending[i].tx = t /\ pending[i].block = b

\* The wallet has what concerns it of the chain of the coins, even of the one they are
\* written for next, or the calls of ConnectBlock will tell it.
Heard ==
    /\ \A b \in Chain[coinsBest] \ {Genesis} : \A t \in ToSet(Vtx[b]) : Concerns(t) => Has(t, b)
    /\ pc = "connected" => \A t \in ToSet(Vtx[blk]) : Concerns(t) => Told(t, blk)

\* Those calls come in such an order that the wallet recognises its own coins.
InOrder == pc = "connected" => \A i \in 1..Len(pending) :
    \/ pending[i].tx \in DOMAIN mapWallet
    \/ \A o \in ToSet(Vin[pending[i].tx]) \cap Mine :
          \/ o[1] \in DOMAIN mapWallet
          \/ \E j \in 1..(i - 1) : pending[j].tx = o[1]

\* The wallet has what concerns it of the pool, and of what was just removed from it.
PoolHeard == \A t \in mapTx \cup txConflicted : Concerns(t) => t \in DOMAIN mapWallet

WalletInv == WalletTypes /\ Stages /\ Recorded /\ Heard /\ InOrder /\ PoolHeard

-----------------------------------------------------------------------------
(* A cached credit is current *)

\* The transactions of the wallet that are not conflicted.
Counts(t) == t \in DOMAIN mapWallet /\ (InMainChain(t) \/ t \in mapTx)

Credits(t) == {o \in Outputs(t) \cap Mine : ~IsSpent(o)}

\* What a call of SyncWithWallets tells the wallet or will tell it.
Telling == {pending[i].tx : i \in 1..Len(pending)} \cup txConflicted
              \cup (IF pc = "conflicts" THEN ToSet(Vtx[blk]) ELSE {})

\* A credit in the cache is what would be computed now, or will be marked dirty.
CreditKept == \A t \in DOMAIN credit :
    credit[t] = AvailableCredit(t) \/ \E s \in Telling \cap DOMAIN mapWallet : t \in MarkedDirty(s)

CreditTypes ==
    /\ DOMAIN credit \subseteq DOMAIN mapWallet
    /\ \A t \in DOMAIN credit : credit[t] \in Nat
    /\ pc \in {"down", "rescan"} => DOMAIN credit = {}
    /\ txConflicted # {} => pc = "conflicts"
    /\ txConflicted \cap mapTx = {}
    /\ locator \in known

\* A transaction of this wallet is not seen elsewhere before it is committed.
Seen(t) == t \in Own => t \in DOMAIN mapWallet
OwnInv ==
    /\ \A b \in known : \A t \in ToSet(Vtx[b]) : Seen(t)
    /\ \A i \in 1..Len(pending) : Seen(pending[i].tx)
    /\ created \subseteq Own \ DOMAIN mapWallet

CreditInv == CreditTypes /\ OwnInv /\ CreditKept

\* Resurrect has given back every transaction of the block it has come to.
Returned == pc = "resurrect" =>
    \A k \in 1..Len(Vtx[blk]) : k < n /\ k > 1 => Vtx[blk][k] \in mapTx
ReturnInv == Passed /\ DBUnpruned /\ cacheCoins = Empty /\ Returned
=============================================================================
