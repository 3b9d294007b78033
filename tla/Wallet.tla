------------------------------- MODULE Wallet -------------------------------
(***************************************************************************)
(* The transactions of the wallet (wallet.cpp, wallet.h) on the ledger.    *)
(* The wallet learns of transactions by SyncTransaction, which the node    *)
(* calls under cs_main: from AcceptToMemoryPool; for every transaction of  *)
(* a block at the end of ConnectBlock, before the coins are written and    *)
(* the tip changes; and again at the end of ConnectTip, and in             *)
(* DisconnectTip, when UpdateTip has written the wallet's locator.  It     *)
(* keeps mapWallet in its file, and in memory the credit of each           *)
(* transaction, which has to be computed anew when a spender of it         *)
(* appears or stops counting.                                              *)
(* mapTxSpends holds the inputs of mapWallet: both grow in AddToWallet.    *)
(***************************************************************************)
EXTENDS Ledger, Integers, TLC

CONSTANTS
    Mine,           \* the outpoints whose script the wallet can sign for
    Own,            \* transactions CreateTransaction may make
    NoBlock,        \* hashBlock = 0
    LocatorHeights, \* the heights at which UpdateTip calls SetBestChain
    HashOrder,      \* the transactions in the order of their hashes
    Kills           \* whether the node is killed

ASSUME WalletAssumption ==
    /\ Mine \subseteq OutPoints \ Unspendable
    /\ \A t \in Own : t \in Txs \ CoinBases /\ ToSet(Vin[t]) \subseteq Mine
    /\ NoBlock \notin Blocks
    /\ LocatorHeights \subseteq Nat
    /\ HashOrder \in Seq(Txs) /\ ToSet(HashOrder) = Txs /\ Len(HashOrder) = Cardinality(Txs)
    /\ Kills \in BOOLEAN
    /\ Kills => FlushChoices = {TRUE}
    /\ Vtx[Genesis] = <<>>  \* its coinbase is not among the coins, and pays no wallet

VARIABLES
    mapWallet,      \* CWallet::mapWallet: txid -> CWalletTx::hashBlock
    credit,         \* nAvailableCreditCached, where fAvailableCreditCached
    locator,        \* the tip of the wallet's best block record
    created,        \* results of CreateTransaction that are not committed
    txConflicted,   \* ConnectTip's list
    pending,        \* the calls of SyncWithWallets still to be made
    reaccept        \* ReacceptWalletTransactions is still to be called

walletVars == <<mapWallet, credit, locator, created, txConflicted, pending, reaccept>>
allVars == <<vars, walletVars>>
-----------------------------------------------------------------------------
(* CWalletTx *)

InMainChain(t) == mapWallet[t] # NoBlock /\ mapWallet[t] \in Chain[tip]

GetDepthInMainChain(t) ==
    IF InMainChain(t) THEN Height[tip] - Height[mapWallet[t]] + 1
    ELSE IF t \in mapTx THEN 0 ELSE -1

\* GetBlocksToMaturity is zero.
Mature(t) == t \in CoinBases => GetDepthInMainChain(t) > COINBASE_MATURITY

\* Mutant of IsSpent: conflicted transactions spend too.
IsSpent_Conflicted(o) == \E t \in DOMAIN mapWallet : o \in ToSet(Vin[t])

\* An outpoint is spent if any non-conflicted transaction spends it.
IsSpent(o) == \E t \in DOMAIN mapWallet : o \in ToSet(Vin[t]) /\ GetDepthInMainChain(t) >= 0

\* The sum GetAvailableCredit computes when it has no cached value.
AvailableCredit(t) ==
    MapThenSumSet(LAMBDA o : Vout[o[1]][o[2]], {o \in Outputs(t) \cap Mine : ~IsSpent(o)})

\* IsTrusted, with -spendzeroconfchange.
IsTrusted(t) ==
    \/ GetDepthInMainChain(t) >= 1
    \/ /\ GetDepthInMainChain(t) = 0
       /\ Vin[t] # <<>>
       /\ \A o \in ToSet(Vin[t]) : o[1] \in DOMAIN mapWallet /\ o \in Mine

AvailableCoins == {o \in Mine : /\ o[1] \in DOMAIN mapWallet
                                /\ IsTrusted(o[1]) /\ Mature(o[1])
                                /\ ~IsSpent(o)}
-----------------------------------------------------------------------------
(* AddToWallet and SyncTransaction *)

\* IsMine(tx) or IsFromMe(tx), or the wallet has it.
InvolvingMe(w, t) ==
    \/ t \in DOMAIN w
    \/ Outputs(t) \cap Mine # {}
    \/ \E o \in ToSet(Vin[t]) : o[1] \in DOMAIN w /\ o \in Mine

\* Inserts, or merges the block if there is one.
AddToWallet(w, t, b) ==
    IF t \in DOMAIN w /\ b = NoBlock THEN w
    ELSE [s \in DOMAIN w \cup {t} |-> IF s = t THEN b ELSE w[s]]

AddToWalletIfInvolvingMe(w, t, b) == IF InvolvingMe(w, t) THEN AddToWallet(w, t, b) ELSE w

\* MarkDirty of the transaction and of those it spends.
MarkedDirty(t) == {t} \cup {o[1] : o \in ToSet(Vin[t])}

Clean(ts) == [t \in DOMAIN credit \ ts |-> credit[t]]

SyncTransaction(t, b) ==
    /\ mapWallet' = AddToWalletIfInvolvingMe(mapWallet, t, b)
    /\ credit' = IF InvolvingMe(mapWallet, t) THEN Clean(MarkedDirty(t)) ELSE credit
-----------------------------------------------------------------------------
WalletInit ==
    /\ Init
    /\ mapWallet = [t \in {} |-> NoBlock] /\ credit = [t \in {} |-> 0]
    /\ locator = Genesis /\ created = {} /\ txConflicted = {} /\ pending = <<>>
    /\ reaccept = FALSE

\* cs_main is free, or ActivateBestChain is between two blocks.
CallDone == pending = <<>>

\* No one else has a transaction of this wallet before it is committed.
Published(ts) == ts \cap Own \subseteq DOMAIN mapWallet

\* The steps of the node that call nothing of the wallet; the rest of ConnectTip waits for
\* the calls of ConnectBlock.
NodeStep ==
    /\ CallDone
    /\ \/ \E b \in Blocks \ {Genesis} : Published(ToSet(Vtx[b])) /\ AcceptBlock(b)
       \/ BeginConnect \/ ConnectTx \/ FinishConnect
       \/ BeginDisconnect \/ DisconnectTx \/ FinishDisconnect
    /\ UNCHANGED walletVars

Calls(s, b) == [i \in DOMAIN s |-> [tx |-> s[i], block |-> b]]

\* Mutant of Watched: the wallet hears of the block when UpdateTip is done only.
Watched_Later ==
    /\ CallDone
    /\ EndConnectBlock
    /\ UNCHANGED walletVars

\* "Watch for transactions paying to me": the end of ConnectBlock tells the wallet of the
\* transactions of the block, before the coins and the locator are written.
Watched ==
    /\ CallDone
    /\ EndConnectBlock
    /\ pending' = IF pc' = "connected" THEN Calls(Vtx[blk], blk) ELSE <<>>
    /\ UNCHANGED <<mapWallet, credit, locator, created, txConflicted, reaccept>>

\* A transaction reaches the pool, from a peer or from the block disconnected.
PoolStep(tx) ==
    /\ CallDone
    /\ \/ Published({tx}) /\ AcceptToMemoryPool(tx)
       \/ pc = "resurrect" /\ n <= Len(Vtx[blk]) /\ tx = Vtx[blk][n] /\ Resurrect
    /\ IF tx \in mapTx' \ mapTx
       THEN SyncTransaction(tx, NoBlock)
       ELSE UNCHANGED <<mapWallet, credit>>
    /\ UNCHANGED <<locator, created, txConflicted, pending, reaccept>>

NoteConflicts ==
    /\ CallDone
    /\ RemoveConflicts
    /\ txConflicted' = txConflicted \cup (mapTx \ (mapTx' \cup {Vtx[blk][n]}))
    /\ UNCHANGED <<mapWallet, credit, locator, created, pending, reaccept>>

\* SetBestChain of UpdateTip.
SetBestChain(b) == locator' = IF Height[b] \in LocatorHeights THEN b ELSE locator

\* UpdateTip, before the wallet hears of the conflicts and of the block, once more.
Connected ==
    /\ CallDone
    /\ ConnectDone
    /\ SetBestChain(blk)
    /\ pending' = Calls(SetToSeq(txConflicted), NoBlock) \o Calls(Vtx[blk], blk)
    /\ txConflicted' = {}
    /\ UNCHANGED <<mapWallet, credit, created, reaccept>>

Disconnected ==
    /\ CallDone
    /\ DisconnectDone
    /\ SetBestChain(Prev[blk])
    /\ pending' = Calls(Vtx[blk], NoBlock)
    /\ UNCHANGED <<mapWallet, credit, created, txConflicted, reaccept>>

SyncWithWallets ==
    /\ ~CallDone
    /\ SyncTransaction(Head(pending).tx, Head(pending).block)
    /\ pending' = Tail(pending)
    /\ UNCHANGED <<locator, created, txConflicted, reaccept, vars>>
-----------------------------------------------------------------------------
(* The user *)

Free == Settled /\ CallDone

\* GetBalance and GetUnconfirmedBalance value a transaction.
GetAvailableCredit(t) ==
    /\ Free
    /\ t \in DOMAIN mapWallet \ DOMAIN credit
    /\ GetDepthInMainChain(t) >= 0 /\ Mature(t)
    /\ credit' = [s \in DOMAIN credit \cup {t} |-> IF s = t THEN AvailableCredit(t) ELSE credit[s]]
    /\ UNCHANGED <<mapWallet, locator, created, txConflicted, pending, reaccept, vars>>

\* The user is shown a transaction ...
CreateTransaction(t) ==
    /\ Free
    /\ t \in Own \ (created \cup DOMAIN mapWallet)
    /\ ToSet(Vin[t]) \subseteq AvailableCoins
    /\ created' = created \cup {t}
    /\ UNCHANGED <<mapWallet, credit, locator, txConflicted, pending, reaccept, vars>>

\* ... and sends it.
CommitTransaction(t) ==
    /\ Free
    /\ t \in created
    /\ created' = created \ {t}
    /\ mapWallet' = AddToWallet(mapWallet, t, NoBlock)
    /\ IF Acceptable(t)
       THEN addUnchecked(t) /\ credit' = Clean(MarkedDirty(t))
       ELSE UNCHANGED poolVars /\ credit' = Clean({t})
    /\ UNCHANGED <<locator, txConflicted, pending, reaccept, chainVars, coinVars, callVars>>
-----------------------------------------------------------------------------
(* Kill and restart *)

\* What is on disk stays: the index, the coins, undo data, mapWallet, the locator.
Kill ==
    /\ Kills /\ pc # "down"
    /\ pc' = "down" /\ EndCall /\ blk' = Genesis
    /\ mapTx' = {} /\ mapNextTx' = [o \in {} |-> 0]
    /\ credit' = Clean(Txs) /\ created' = {} /\ txConflicted' = {} /\ pending' = <<>>
    /\ UNCHANGED <<chainVars, coinVars, mapWallet, locator, reaccept>>

\* FindFork of the locator.
FindFork == CHOOSE b \in Chain[locator] \cap Chain[coinsBest] :
               \A c \in Chain[locator] \cap Chain[coinsBest] : Height[c] <= Height[b]

\* The chain of the coins becomes active, the wallet is loaded, and the blocks from
\* the fork of its locator on are scanned, the fork itself too.
Restart ==
    /\ pc = "down"
    /\ pc' = "rescan"
    /\ tip' = coinsBest
    /\ target' \in Best(known, failed)
    /\ n' = IF FindFork = coinsBest THEN Height[coinsBest] + 1 ELSE Height[FindFork]
    /\ UNCHANGED <<known, failed, coinVars, poolVars, blk, view, blockundo, nFees, walletVars>>

\* One block of ScanForWalletTransactions.  It calls AddToWalletIfInvolvingMe, which
\* does here what SyncTransaction does: no credit is cached yet.
ScanBlock ==
    /\ pc = "rescan" /\ CallDone
    /\ \E b \in Chain[tip] : Height[b] = n /\ pending' = Calls(Vtx[b], b)
    /\ n' = n + 1
    /\ UNCHANGED <<pc, blk, view, blockundo, nFees, chainVars, coinVars, poolVars>>
    /\ UNCHANGED <<mapWallet, credit, locator, created, txConflicted, reaccept>>

\* SetBestChain, if there was something to scan.
ScanDone ==
    /\ pc = "rescan" /\ CallDone /\ n > Height[tip]
    /\ pc' = "idle" /\ EndCall
    /\ locator' = IF FindFork = tip THEN locator ELSE tip
    /\ reaccept' = TRUE
    /\ UNCHANGED <<blk, chainVars, coinVars, poolVars>>
    /\ UNCHANGED <<mapWallet, credit, created, txConflicted, pending>>

ReacceptWalletTransactions ==
    /\ Free /\ reaccept
    /\ pc' = "reaccept" /\ n' = 1
    /\ reaccept' = FALSE
    /\ UNCHANGED <<blk, view, blockundo, nFees, chainVars, coinVars, poolVars>>
    /\ UNCHANGED <<mapWallet, credit, locator, created, txConflicted, pending>>

ReacceptTx ==
    /\ pc = "reaccept" /\ n <= Len(HashOrder)
    /\ LET t == HashOrder[n]
       IN IF /\ t \in DOMAIN mapWallet \ CoinBases
             /\ GetDepthInMainChain(t) < 0
             /\ Acceptable(t)
          THEN addUnchecked(t) /\ SyncTransaction(t, NoBlock)
          ELSE UNCHANGED <<poolVars, mapWallet, credit>>
    /\ n' = n + 1
    /\ UNCHANGED <<pc, blk, view, blockundo, nFees, chainVars, coinVars>>
    /\ UNCHANGED <<locator, created, txConflicted, pending, reaccept>>

ReacceptDone ==
    /\ pc = "reaccept" /\ n > Len(HashOrder)
    /\ pc' = "idle" /\ EndCall
    /\ UNCHANGED <<blk, chainVars, coinVars, poolVars, walletVars>>

WalletNext ==
    \/ NodeStep
    \/ \E tx \in Txs : PoolStep(tx)
    \/ Watched \/ NoteConflicts \/ Connected \/ Disconnected \/ SyncWithWallets
    \/ \E t \in Txs : GetAvailableCredit(t) \/ CreateTransaction(t) \/ CommitTransaction(t)
    \/ Kill \/ Restart \/ ScanBlock \/ ScanDone
    \/ ReacceptWalletTransactions \/ ReacceptTx \/ ReacceptDone

WalletSpec == WalletInit /\ [][WalletNext]_allVars
-----------------------------------------------------------------------------
(* Properties *)

\* Every variable of the wallet has the shape of the C++ object it stands for.
WalletTypeOK ==
    /\ DOMAIN mapWallet \subseteq Txs
    /\ \A t \in DOMAIN mapWallet : mapWallet[t] \in Blocks \cup {NoBlock}
    /\ DOMAIN credit \subseteq DOMAIN mapWallet
    /\ \A t \in DOMAIN credit : credit[t] \in Nat
    /\ locator \in known /\ created \subseteq Own \ DOMAIN mapWallet
    /\ txConflicted \subseteq Txs \ mapTx

\* The transactions that pay to the wallet or spend an output of it.
Concerns(t) == (Outputs(t) \cup ToSet(Vin[t])) \cap Mine # {}

\* What a current credit relies on (README, section 4): no transaction of a disconnected
\* block is refused by the pool, as DisconnectTip tells the wallet nothing of those that
\* leave the pool with it.
NoneRefused == NonStandard = {} /\ FlushChoices = {TRUE} /\ COINBASE_MATURITY > 0

\* After every block, transaction, reorganisation and restart, whenever it was killed and
\* whatever its locator names, the wallet has each transaction of the chain and of the pool
\* that concerns it, with its block (ConnectBlock: "Watch for transactions paying to me").
WalletComplete ==
    pc = "idle" /\ CallDone =>
        /\ \A b \in Chain[tip] : \A t \in ToSet(Vtx[b]) :
              Concerns(t) => t \in DOMAIN mapWallet /\ mapWallet[t] = b
        /\ \A t \in mapTx : Concerns(t) => t \in DOMAIN mapWallet

\* SyncTransaction: "If a transaction changes 'conflicted' state, that changes the
\* balance available of the outputs it spends": a cached credit is always what
\* would be computed now.
CreditCurrent == pc = "idle" /\ CallDone => \A t \in DOMAIN credit : credit[t] = AvailableCredit(t)

\* A coin AvailableCoins offers exists and nothing in the chain or the pool spends
\* it; and of the coins of the chain that are mine, none that is mature and unspent
\* is withheld.
OffersExact ==
    Free => /\ \A o \in AvailableCoins : Connects(o) /\ o \notin DOMAIN mapNextTx
            /\ \A o \in (Mine \cap Unspent) \ DOMAIN mapNextTx :
                  o \in AvailableCoins \/ ~Mature(o[1])

\* Together: the balance shown and the coins offered are those the wallet has.
BalanceExact == WalletTypeOK /\ CreditCurrent /\ OffersExact

\* CommitTransaction: "This must not fail.  The transaction has already been signed
\* and recorded."
\* The code does not keep this (README, section 4).
CommitAccepted == [][pc' # "down" => created \ created' \subseteq mapTx']_allVars

\* AppInit2: "Add wallet transactions that aren't already in a block to
\* mapTransactions".  None is left out that could be added.
\* The code does not keep this (README, section 4).
AllReaccepted ==
    pc = "reaccept" /\ n > Len(HashOrder) => \A t \in DOMAIN mapWallet : ~Acceptable(t)
=============================================================================
