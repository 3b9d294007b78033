------------------------------- MODULE BlockTree -------------------------------
(***************************************************************************)
(* Chain selection and its persistence (main.cpp, init.cpp, txdb.cpp).     *)
(*                                                                         *)
(* Every block arrives through ProcessBlock: it is dropped, parked as an   *)
(* orphan, or accepted into the block index, after which ActivateBestChain *)
(* moves the active chain one block at a time towards the candidate with   *)
(* the most work.  All of it runs under cs_main, so no other thread sees   *)
(* the steps; a crash does.  The index lives in the block tree database    *)
(* (blockTree) and the coins in the chainstate database (coinsDB): writes  *)
(* to either may be lost, from the latest backwards, when the machine loses*)
(* power, unless a later Sync() made them durable.                         *)
(***************************************************************************)
EXTENDS Naturals, FiniteSets, Sequences

CONSTANTS
    Blocks,       \* the blocks that exist in the network, by hash
    Genesis,      \* Params().GenesisBlock()
    NoBlock,      \* a NULL CBlockIndex* and the hash uint256(0)
    Prev,         \* CBlock::hashPrevBlock
    Work,         \* CBlockIndex::GetBlockWork
    BadContext,   \* blocks AcceptBlock refuses in the context of their parent
    BadConnect,   \* blocks that violate a rule only ConnectBlock checks
    AddrOrders,   \* the relative heap addresses CBlockIndex objects may get
    MaxOrphans,   \* -maxorphanblocks
    Faults,       \* which of FaultKinds the environment may inject
    MaxCrashes    \* bound on Kill and PowerLoss steps

FaultKinds == {"ibd", "diskfull", "kill", "powerloss", "shutdown"}

\* CBlockIndex::nStatus: BLOCK_HAVE_DATA stands for "is in mapBlockIndex with
\* BLOCK_VALID_TRANSACTIONS", the empty status for "is not in mapBlockIndex".
Flags == {"HAVE_DATA", "HAVE_UNDO", "VALID_SCRIPTS", "FAILED_VALID", "FAILED_CHILD"}
BLOCK_FAILED_MASK == {"FAILED_VALID", "FAILED_CHILD"}

\* CChain::SetTip walks pprev, so a CChain is its tip and holds Ancestors[tip].
Ancestors[b \in Blocks \cup {NoBlock}] ==
    IF b = NoBlock THEN {} ELSE {b} \cup Ancestors[Prev[b]]

\* CBlockIndex::nChainWork, the work of the block and all before it.
ChainWork[b \in Blocks \cup {NoBlock}] ==
    IF b = NoBlock THEN 0 ELSE Work[b] + ChainWork[Prev[b]]

ASSUME BlocksAssumption ==
    /\ NoBlock \notin Blocks
    /\ Genesis \in Blocks
    /\ Prev \in [Blocks -> Blocks \cup {NoBlock}]
    /\ \A b \in Blocks : Prev[b] = NoBlock <=> b = Genesis
    /\ BadContext \subseteq Blocks \ {Genesis}
    /\ BadConnect \subseteq Blocks \ {Genesis}

\* Hashes cannot form a cycle, so the two recursions above are well founded.
ASSUME TreeAssumption ==
    /\ Ancestors \in [Blocks \cup {NoBlock} -> SUBSET Blocks]
    /\ Ancestors[NoBlock] = {}
    /\ \A b \in Blocks : /\ Ancestors[b] = {b} \cup Ancestors[Prev[b]]
                         /\ b \notin Ancestors[Prev[b]]
                         /\ \A a \in Ancestors[b] : Ancestors[a] \subseteq Ancestors[b]
                         /\ \A a, c \in Ancestors[b] : a \in Ancestors[c] \/ c \in Ancestors[a]

ASSUME WorkAssumption ==
    /\ ChainWork \in [Blocks \cup {NoBlock} -> Nat]
    /\ \A b \in Blocks : ChainWork[Prev[b]] < ChainWork[b]

ASSUME EnvAssumption ==
    /\ AddrOrders # {}
    /\ \A r \in AddrOrders : /\ r \in [Blocks -> Nat]
                             /\ \A a, b \in Blocks : r[a] = r[b] => a = b
    /\ MaxOrphans \in Nat
    /\ MaxCrashes \in Nat
    /\ Faults \subseteq FaultKinds

VARIABLES
    \* the block index
    nStatus,                \* mapBlockIndex and CBlockIndex::nStatus
    nSequenceId,            \* CBlockIndex::nSequenceId
    nBlockSequenceId,       \* the next sequence id
    addr,                   \* the addresses of this process's CBlockIndex objects
    setBlockIndexValid,     \* candidates for the tip of chainMostWork
    pindexBestInvalid,
    \* the chains and the coins
    chainActive,
    chainMostWork,
    pcoinsTip,              \* pcoinsTip->GetBestBlock()
    nLastWrite,             \* WriteChainState has written in this process
    \* the orphan blocks
    mapOrphanBlocks,
    mapOrphanBlocksByPrev,
    \* where ProcessBlock or AppInit2 is
    pc,
    accepting,              \* the block in AddToBlockIndex; NoBlock: AppInit2, step 9
    pindexOldTip,           \* local of ActivateBestChain
    vWorkQueue,             \* local of ProcessBlock
    fRequestShutdown,
    \* the disk: what the two databases hold now, and may hold after a power loss
    blockTree,
    blockTreeDisk,
    coinsDB,
    coinsDisk,
    \* history
    unsyncedFlush,          \* Shutdown flushed the coins before an unsynced index
    nCrashes

indexVars  == <<nStatus, nSequenceId, nBlockSequenceId, addr, setBlockIndexValid,
                pindexBestInvalid>>
chainVars  == <<chainActive, chainMostWork, pcoinsTip, nLastWrite>>
orphanVars == <<mapOrphanBlocks, mapOrphanBlocksByPrev>>
callVars   == <<pc, accepting, pindexOldTip, vWorkQueue, fRequestShutdown>>
treeVars   == <<blockTree, blockTreeDisk>>
coinVars   == <<coinsDB, coinsDisk>>
vars == <<indexVars, chainVars, orphanVars, callVars, treeVars, coinVars,
          unsyncedFlush, nCrashes>>

-----------------------------------------------------------------------------
(* Helpers *)

InIndex(status) == {b \in Blocks : status[b] # {}}
mapBlockIndex == InIndex(nStatus)

FailedIn(status) == {b \in Blocks : status[b] \cap BLOCK_FAILED_MASK # {}}
Failed == FailedIn(nStatus)

\* Mutant of WorkLess: the latest of two equal branches is preferred.
WorkLess_LatestWins(a, b) ==
    \/ ChainWork[a] < ChainWork[b]
    \/ /\ ChainWork[a] = ChainWork[b]
       /\ nSequenceId[a] < nSequenceId[b]

\* Mutant of WorkLess: the time of arrival comes before the work.
WorkLess_ArrivalFirst(a, b) ==
    \/ nSequenceId[b] < nSequenceId[a]
    \/ /\ nSequenceId[b] = nSequenceId[a]
       /\ addr[b] < addr[a]

\* CBlockIndexWorkComparator: a sorts before b, so b is preferred.
WorkLess(a, b) ==
    \/ ChainWork[a] < ChainWork[b]
    \/ /\ ChainWork[a] = ChainWork[b]
       /\ nSequenceId[b] < nSequenceId[a]
    \/ /\ ChainWork[a] = ChainWork[b]
       /\ nSequenceId[b] = nSequenceId[a]
       /\ addr[b] < addr[a]

\* setBlockIndexValid.rbegin()
IsBestCandidate(b) ==
    /\ b \in setBlockIndexValid
    /\ \A c \in setBlockIndexValid : c = b \/ WorkLess(c, b)

\* A block of more work than the best invalid one so far replaces it.
BetterInvalid(old, b) ==
    IF old = NoBlock \/ ChainWork[old] < ChainWork[b] THEN b ELSE old

\* CBlockTreeDB::WriteBlockIndex: an asynchronous LevelDB write of one entry.
Written(b, status) == [blockTree EXCEPT ![b] = status]

WriteBlockIndex(b, status) ==
    /\ blockTree' = Written(b, status)
    /\ blockTreeDisk' = blockTreeDisk \cup {Written(b, status)}

\* Mutant of Synced: the chain state is written without pblocktree->Sync().
Synced_Not(tree) == blockTreeDisk \cup {tree}

\* CBlockTreeDB::Sync: what the index may hold after a power loss from now on.
Synced(tree) == {tree}

\* Mutant of EraseCandidate: InvalidBlockFound leaves the block in the set.
EraseCandidate_Not(b) == setBlockIndexValid

\* setBlockIndexValid.erase
EraseCandidate(b) == setBlockIndexValid \ {b}

\* No coins view may name a block whose data or undo data the index lacks.
Recoverable(tree, c) ==
    \A a \in Ancestors[c] :
        /\ "HAVE_DATA" \in tree[a]
        /\ a # Genesis => "HAVE_UNDO" \in tree[a]

-----------------------------------------------------------------------------
(* Return from ActivateBestChain and AddToBlockIndex to their caller: step 9 *)
(* of AppInit2, InitBlockIndex, the orphan loop, or ProcessBlock itself.     *)

\* Mutant of Push: orphans of orphans are not looked at.
Push_Not(b) == vWorkQueue

\* vWorkQueue.push_back
Push(b) == Append(vWorkQueue, b)

Return(ok) ==
    /\ pindexOldTip' = NoBlock
    /\ \/ /\ accepting = NoBlock
          /\ pc' = IF ok THEN "idle" ELSE "exiting"
          /\ UNCHANGED <<accepting, vWorkQueue, mapOrphanBlocks>>
       \/ /\ accepting = Genesis
          /\ pc' = IF ok THEN "start" ELSE "exiting"
          /\ accepting' = NoBlock
          /\ UNCHANGED <<vWorkQueue, mapOrphanBlocks>>
       \/ /\ accepting \in mapOrphanBlocks
          /\ pc' = "orphans"
          /\ vWorkQueue' = IF ok THEN Push(accepting) ELSE vWorkQueue
          /\ mapOrphanBlocks' = mapOrphanBlocks \ {accepting}
          /\ accepting' = NoBlock
       \/ /\ accepting \notin mapOrphanBlocks \cup {NoBlock, Genesis}
          /\ pc' = IF ok THEN "orphans" ELSE "idle"
          /\ vWorkQueue' = IF ok THEN <<accepting>> ELSE <<>>
          /\ accepting' = NoBlock
          /\ UNCHANGED mapOrphanBlocks
    /\ UNCHANGED mapOrphanBlocksByPrev

-----------------------------------------------------------------------------
(* ProcessBlock.  A block that CheckBlock or the checkpoints refuse and an   *)
(* orphan without a peer to ask for its parents change nothing either; they  *)
(* are left out of Blocks.                                                   *)

\* AddToBlockIndex up to its call of ActivateBestChain.
AddToBlockIndex(b) ==
    /\ nStatus' = [nStatus EXCEPT ![b] = {"HAVE_DATA"}]
    /\ nSequenceId' = [nSequenceId EXCEPT ![b] = nBlockSequenceId]
    /\ nBlockSequenceId' = nBlockSequenceId + 1
    /\ setBlockIndexValid' = setBlockIndexValid \cup {b}
    /\ WriteBlockIndex(b, {"HAVE_DATA"})
    /\ accepting' = b
    /\ pc' = "start"

\* PruneOrphanBlocks: the random walk can end at any orphan without dependents.
Prunable ==
    IF Cardinality(mapOrphanBlocksByPrev) <= MaxOrphans
    THEN {{}}
    ELSE {{o} : o \in {o \in mapOrphanBlocksByPrev :
                          \A p \in mapOrphanBlocksByPrev : Prev[p] # o}}

\* Mutant of HavePrev: a block is accepted whether its parent is known or not.
HavePrev_Always(b) == TRUE

\* mapBlockIndex.count(pblock->hashPrevBlock)
HavePrev(b) == Prev[b] \in mapBlockIndex

NewBlock(b) == b \notin mapBlockIndex \cup mapOrphanBlocks

ProcessOrphan(b) ==
    /\ pc = "idle"
    /\ NewBlock(b)
    /\ ~HavePrev(b)
    /\ \E pruned \in Prunable :
          /\ mapOrphanBlocks' = (mapOrphanBlocks \ pruned) \cup {b}
          /\ mapOrphanBlocksByPrev' = (mapOrphanBlocksByPrev \ pruned) \cup {b}
    /\ UNCHANGED <<indexVars, chainVars, callVars, treeVars, coinVars,
                   unsyncedFlush, nCrashes>>

\* A duplicate, or AcceptBlock refuses the block: nothing changes.
ProcessReject(b) ==
    /\ pc = "idle"
    /\ \/ ~NewBlock(b)
       \/ /\ HavePrev(b)
          /\ b \in BadContext
    /\ UNCHANGED vars

ProcessAccept(b) ==
    /\ pc = "idle"
    /\ NewBlock(b)
    /\ HavePrev(b)
    /\ b \notin BadContext
    /\ AddToBlockIndex(b)
    /\ UNCHANGED <<addr, pindexBestInvalid, chainVars, orphanVars, pindexOldTip,
                   vWorkQueue, fRequestShutdown, coinVars, unsyncedFlush, nCrashes>>

\* FindBlockPos finds the disk full before AcceptBlock has stored anything.
ProcessDiskFull(b) ==
    /\ pc = "idle"
    /\ "diskfull" \in Faults
    /\ NewBlock(b)
    /\ HavePrev(b)
    /\ b \notin BadContext
    /\ fRequestShutdown' = TRUE
    /\ UNCHANGED <<indexVars, chainVars, orphanVars, pc, accepting, pindexOldTip,
                   vWorkQueue, treeVars, coinVars, unsyncedFlush, nCrashes>>

\* The orphans that wait for the block at the head of the work queue and have
\* not been taken yet (their entries ByPrev stay until the whole group is done).
Dependents == {o \in mapOrphanBlocksByPrev \cap mapOrphanBlocks :
                  Prev[o] = Head(vWorkQueue)}

OrphanAccept(o) ==
    /\ pc = "orphans"
    /\ vWorkQueue # <<>>
    /\ o \in Dependents
    /\ o \notin BadContext \cup mapBlockIndex
    /\ AddToBlockIndex(o)
    /\ UNCHANGED <<addr, pindexBestInvalid, chainVars, orphanVars, pindexOldTip,
                   vWorkQueue, fRequestShutdown, coinVars, unsyncedFlush, nCrashes>>

\* AcceptBlock refuses the orphan, or finds the disk full: it is dropped.
OrphanReject(o) ==
    /\ pc = "orphans"
    /\ vWorkQueue # <<>>
    /\ o \in Dependents
    /\ \/ /\ o \in BadContext \cup mapBlockIndex
          /\ UNCHANGED fRequestShutdown
       \/ /\ o \notin BadContext \cup mapBlockIndex
          /\ "diskfull" \in Faults
          /\ fRequestShutdown' = TRUE
    /\ mapOrphanBlocks' = mapOrphanBlocks \ {o}
    /\ UNCHANGED <<indexVars, chainVars, mapOrphanBlocksByPrev, pc, accepting,
                   pindexOldTip, vWorkQueue, treeVars, coinVars, unsyncedFlush, nCrashes>>

OrphanNext ==
    /\ pc = "orphans"
    /\ \/ /\ vWorkQueue = <<>>
          /\ pc' = "idle"
          /\ UNCHANGED <<vWorkQueue, mapOrphanBlocksByPrev>>
       \/ /\ vWorkQueue # <<>>
          /\ Dependents = {}
          /\ mapOrphanBlocksByPrev' =
                {o \in mapOrphanBlocksByPrev : Prev[o] # Head(vWorkQueue)}
          /\ vWorkQueue' = Tail(vWorkQueue)
          /\ UNCHANGED pc
    /\ UNCHANGED <<indexVars, chainVars, mapOrphanBlocks, accepting, pindexOldTip,
                   fRequestShutdown, treeVars, coinVars, unsyncedFlush, nCrashes>>

-----------------------------------------------------------------------------
(* ActivateBestChain *)

ActivateStart ==
    /\ pc = "start"
    /\ pindexOldTip' = chainActive
    /\ pc' = "popInvalid"
    /\ UNCHANGED <<indexVars, chainVars, orphanVars, accepting, vWorkQueue,
                   fRequestShutdown, treeVars, coinVars, unsyncedFlush, nCrashes>>

\* FindMostWorkChain, first loop: step back from a tip known to be invalid.
PopInvalid ==
    /\ pc = "popInvalid"
    /\ IF chainMostWork \in Failed
       THEN /\ setBlockIndexValid' = EraseCandidate(chainMostWork)
            /\ chainMostWork' = Prev[chainMostWork]
            /\ UNCHANGED pc
       ELSE /\ pc' = "candidate"
            /\ UNCHANGED <<setBlockIndexValid, chainMostWork>>
    /\ UNCHANGED <<nStatus, nSequenceId, nBlockSequenceId, addr, pindexBestInvalid,
                   chainActive, pcoinsTip, nLastWrite, orphanVars, accepting,
                   pindexOldTip, vWorkQueue, fRequestShutdown, treeVars, coinVars,
                   unsyncedFlush, nCrashes>>

\* The invalid blocks between a candidate and the active chain.
InvalidAncestors(b) == (Ancestors[b] \ Ancestors[chainActive]) \cap Failed

\* FindMostWorkChain, second loop: the best candidate descends from an invalid
\* block; it and everything down to the first invalid block f stops being one.
CandidateInvalid ==
    /\ pc = "candidate"
    /\ \E b \in setBlockIndexValid, f \in Blocks :
          /\ IsBestCandidate(b)
          /\ f \in InvalidAncestors(b)
          /\ InvalidAncestors(b) \subseteq Ancestors[f]
          /\ LET children == Ancestors[b] \ Ancestors[f] IN
             /\ nStatus' = [c \in Blocks |->
                   IF c \in children THEN nStatus[c] \cup {"FAILED_CHILD"} ELSE nStatus[c]]
             /\ setBlockIndexValid' = setBlockIndexValid \ children
          /\ pindexBestInvalid' = BetterInvalid(pindexBestInvalid, b)
    /\ UNCHANGED <<nSequenceId, nBlockSequenceId, addr, chainVars, orphanVars, callVars,
                   treeVars, coinVars, unsyncedFlush, nCrashes>>

\* FindMostWorkChain, the end: take the candidate if it is an improvement.  (The
\* return for an empty set is out of reach: the genesis block is a candidate.)
CandidateFound ==
    /\ pc = "candidate"
    /\ \E b \in setBlockIndexValid :
          /\ IsBestCandidate(b)
          /\ InvalidAncestors(b) = {}
          /\ chainMostWork' = IF chainMostWork # NoBlock /\ ~WorkLess(chainMostWork, b)
                              THEN chainMostWork ELSE b
    /\ pc' = "reorg"
    /\ UNCHANGED <<indexVars, chainActive, pcoinsTip, nLastWrite, orphanVars, accepting,
                   pindexOldTip, vWorkQueue, fRequestShutdown, treeVars, coinVars,
                   unsyncedFlush, nCrashes>>

\* WriteChainState, with the index in state tree and pcoinsTip at best.  In
\* initial block download it may leave both databases for a later write.
WriteChainState(tree, best) ==
    \/ /\ "ibd" \in Faults
       /\ nLastWrite
       /\ blockTree' = tree
       /\ blockTreeDisk' = blockTreeDisk \cup {tree}
       /\ UNCHANGED <<nLastWrite, coinVars>>
    \/ /\ nLastWrite' = TRUE
       /\ blockTree' = tree
       /\ blockTreeDisk' = Synced(tree)
       /\ coinsDB' = best
       /\ coinsDisk' = coinsDisk \cup {best}

\* WriteChainState finds the disk full after the coins view has been updated.
WriteChainStateDiskFull(tree) ==
    /\ "diskfull" \in Faults
    /\ fRequestShutdown' = TRUE
    /\ blockTree' = tree
    /\ blockTreeDisk' = blockTreeDisk \cup {tree}
    /\ UNCHANGED <<nLastWrite, coinVars>>

MustDisconnect ==
    /\ chainActive # NoBlock
    /\ chainMostWork # NoBlock
    /\ chainActive \notin Ancestors[chainMostWork]

\* DisconnectTip; without undo data DisconnectBlock would refuse.
DisconnectTip ==
    /\ pc = "reorg"
    /\ MustDisconnect
    /\ pcoinsTip = chainActive
    /\ "HAVE_UNDO" \in nStatus[chainActive]
    /\ pcoinsTip' = Prev[chainActive]
    /\ \/ /\ WriteChainState(blockTree, Prev[chainActive])
          /\ chainActive' = Prev[chainActive]
          /\ UNCHANGED <<orphanVars, callVars>>
       \/ /\ WriteChainStateDiskFull(blockTree)
          /\ Return(FALSE)
          /\ UNCHANGED chainActive
    /\ UNCHANGED <<indexVars, chainMostWork, unsyncedFlush, nCrashes>>

\* The block of chainMostWork that ConnectTip connects next.
IsNext(b) ==
    /\ pc = "reorg"
    /\ ~MustDisconnect
    /\ b \in Ancestors[chainMostWork]
    /\ Prev[b] = chainActive

\* Mutant of ConnectedStatus: the position of the undo data is not recorded.
ConnectedStatus_NoUndo(b) ==
    IF b = Genesis THEN nStatus[b] ELSE nStatus[b] \cup {"VALID_SCRIPTS"}

\* ConnectBlock returns early for the genesis block.
ConnectedStatus(b) ==
    IF b = Genesis THEN nStatus[b]
    ELSE nStatus[b] \cup {"HAVE_UNDO", "VALID_SCRIPTS"}

\* ConnectTip on a valid block: ConnectBlock writes the undo data and the index
\* entry, the coins move to the block, and the chain state is written.
ConnectTip(b) ==
    /\ IsNext(b)
    /\ pcoinsTip = Prev[b]
    /\ b \notin BadConnect
    /\ LET status == ConnectedStatus(b)
           tree   == IF status = nStatus[b] THEN blockTree ELSE Written(b, status)
       IN /\ nStatus' = [nStatus EXCEPT ![b] = status]
          /\ pcoinsTip' = b
          /\ \/ /\ WriteChainState(tree, b)
                /\ chainActive' = b
                /\ UNCHANGED <<orphanVars, callVars>>
             \/ /\ WriteChainStateDiskFull(tree)
                /\ Return(FALSE)
                /\ UNCHANGED chainActive
    /\ UNCHANGED <<nSequenceId, nBlockSequenceId, addr, setBlockIndexValid,
                   pindexBestInvalid, chainMostWork, unsyncedFlush, nCrashes>>

\* ConnectBlock runs out of space for the undo data: nothing else happens.
ConnectUndoDiskFull(b) ==
    /\ IsNext(b)
    /\ pcoinsTip = Prev[b]
    /\ b \notin BadConnect \cup {Genesis}
    /\ "HAVE_UNDO" \notin nStatus[b]
    /\ "diskfull" \in Faults
    /\ fRequestShutdown' = TRUE
    /\ Return(FALSE)
    /\ UNCHANGED <<indexVars, chainVars, treeVars, coinVars, unsyncedFlush, nCrashes>>

\* ConnectBlock refuses the block: InvalidBlockFound and InvalidChainFound, and
\* ActivateBestChain looks for another chain.
ConnectInvalid(b) ==
    /\ IsNext(b)
    /\ pcoinsTip = Prev[b]
    /\ b \in BadConnect
    /\ nStatus' = [nStatus EXCEPT ![b] = @ \cup {"FAILED_VALID"}]
    /\ WriteBlockIndex(b, nStatus[b] \cup {"FAILED_VALID"})
    /\ setBlockIndexValid' = EraseCandidate(b)
    /\ pindexBestInvalid' = BetterInvalid(BetterInvalid(pindexBestInvalid, b), chainMostWork)
    /\ pc' = "popInvalid"
    /\ UNCHANGED <<nSequenceId, nBlockSequenceId, addr, chainVars, orphanVars, accepting,
                   pindexOldTip, vWorkQueue, fRequestShutdown, coinVars,
                   unsyncedFlush, nCrashes>>

\* The assertions of DisconnectBlock and ConnectBlock on view.GetBestBlock().
AssertionFails ==
    /\ pc = "reorg"
    /\ chainMostWork \notin Ancestors[chainActive]
    /\ pcoinsTip # chainActive
    /\ pc' = "assertFailed"
    /\ UNCHANGED <<indexVars, chainVars, orphanVars, accepting, pindexOldTip,
                   vWorkQueue, fRequestShutdown, treeVars, coinVars,
                   unsyncedFlush, nCrashes>>

ActivateDone ==
    /\ pc = "reorg"
    /\ chainMostWork \in Ancestors[chainActive] \cup {NoBlock}
    /\ ~MustDisconnect
    /\ Return(TRUE)
    /\ UNCHANGED <<indexVars, chainVars, fRequestShutdown, treeVars, coinVars,
                   unsyncedFlush, nCrashes>>

-----------------------------------------------------------------------------
(* Start, stop and crash of the process *)

EmptyTree == [b \in Blocks |-> {}]

\* The memory of a process that does not run.
Cold ==
    /\ nStatus' = EmptyTree
    /\ nSequenceId' = [b \in Blocks |-> 0]
    /\ nBlockSequenceId' = 1
    /\ addr' = CHOOSE r \in AddrOrders : TRUE
    /\ setBlockIndexValid' = {}
    /\ pindexBestInvalid' = NoBlock
    /\ chainActive' = NoBlock
    /\ chainMostWork' = NoBlock
    /\ pcoinsTip' = NoBlock
    /\ nLastWrite' = FALSE
    /\ mapOrphanBlocks' = {}
    /\ mapOrphanBlocksByPrev' = {}
    /\ accepting' = NoBlock
    /\ pindexOldTip' = NoBlock
    /\ vWorkQueue' = <<>>
    /\ fRequestShutdown' = FALSE

\* VerifyDB disconnects the last blocks in memory, for which it needs undo data.
Loadable == /\ coinsDB \in InIndex(blockTree)
            /\ Recoverable(blockTree, coinsDB)

\* Mutant of LoadedTip: any leaf of the index instead of the coins' best block.
LoadedTip_Leaf ==
    CHOOSE b \in InIndex(blockTree) : \A c \in InIndex(blockTree) : Prev[c] # b

\* mapBlockIndex.find(pcoinsTip->GetBestBlock())
LoadedTip == coinsDB

\* LoadBlockIndexDB; blocks from disk have sequence id 0 and fresh addresses.
LoadBlockIndex ==
    /\ pc = "down"
    /\ Loadable
    /\ nStatus' = blockTree
    /\ setBlockIndexValid' = InIndex(blockTree) \ FailedIn(blockTree)
    /\ \/ /\ FailedIn(blockTree) = {}
          /\ pindexBestInvalid' = NoBlock
       \/ \E b \in FailedIn(blockTree) :
             /\ \A c \in FailedIn(blockTree) : ChainWork[c] <= ChainWork[b]
             /\ pindexBestInvalid' = b
    /\ addr' \in AddrOrders
    /\ chainActive' = LoadedTip
    /\ pcoinsTip' = coinsDB
    /\ pc' = "start"
    /\ UNCHANGED <<nSequenceId, nBlockSequenceId, chainMostWork, nLastWrite, orphanVars,
                   accepting, pindexOldTip, vWorkQueue, fRequestShutdown, treeVars,
                   coinVars, unsyncedFlush, nCrashes>>

\* InitBlockIndex on an empty data directory.
InitBlockIndex ==
    /\ pc = "down"
    /\ InIndex(blockTree) = {}
    /\ addr' \in AddrOrders
    /\ pcoinsTip' = coinsDB
    /\ AddToBlockIndex(Genesis)
    /\ UNCHANGED <<pindexBestInvalid, chainActive, chainMostWork, nLastWrite, orphanVars,
                   pindexOldTip, vWorkQueue, fRequestShutdown, coinVars,
                   unsyncedFlush, nCrashes>>

\* AppInit2 gives up: "Incorrect or no genesis block found", or VerifyDB failed.
LoadFails ==
    /\ pc = "down"
    /\ InIndex(blockTree) # {}
    /\ ~Loadable
    /\ pc' = IF coinsDB \in InIndex(blockTree) THEN "corrupted" ELSE "noGenesis"
    /\ UNCHANGED <<indexVars, chainVars, orphanVars, accepting, pindexOldTip, vWorkQueue,
                   fRequestShutdown, treeVars, coinVars, unsyncedFlush, nCrashes>>

\* The operator restarts with -reindex, which wipes both databases.  (ThreadImport
\* then finds the blocks in the block files and gives them to ProcessBlock again.)
Reindex ==
    /\ pc \in {"noGenesis", "corrupted"}
    /\ pc' = "down"
    /\ blockTree' = EmptyTree
    /\ blockTreeDisk' = {EmptyTree}
    /\ coinsDB' = NoBlock
    /\ coinsDisk' = {NoBlock}
    /\ unsyncedFlush' = FALSE
    /\ UNCHANGED <<indexVars, chainVars, orphanVars, accepting, pindexOldTip, vWorkQueue,
                   fRequestShutdown, nCrashes>>

\* Shutdown() flushes pcoinsTip; pblocktree->Flush() does nothing for LevelDB.
Shutdown ==
    /\ \/ pc = "idle" /\ (fRequestShutdown \/ "shutdown" \in Faults)
       \/ pc = "exiting"
    /\ pc' = "down"
    /\ coinsDB' = pcoinsTip
    /\ coinsDisk' = coinsDisk \cup {pcoinsTip}
    /\ unsyncedFlush' = (unsyncedFlush \/ blockTreeDisk # {blockTree})
    /\ Cold
    /\ UNCHANGED <<treeVars, nCrashes>>

\* The process dies; what it wrote is in the operating system's hands.
Kill ==
    /\ pc \notin {"down", "noGenesis", "corrupted"}
    /\ \/ /\ pc = "assertFailed"
          /\ UNCHANGED nCrashes
       \/ /\ pc # "assertFailed"
          /\ "kill" \in Faults
          /\ nCrashes < MaxCrashes
          /\ nCrashes' = nCrashes + 1
    /\ pc' = "down"
    /\ Cold
    /\ UNCHANGED <<treeVars, coinVars, unsyncedFlush>>

\* The machine dies: each database keeps a prefix of what was written to it.
PowerLoss ==
    /\ "powerloss" \in Faults
    /\ nCrashes < MaxCrashes
    /\ nCrashes' = nCrashes + 1
    /\ \E t \in blockTreeDisk, c \in coinsDisk :
          /\ blockTree' = t
          /\ blockTreeDisk' = {t}
          /\ coinsDB' = c
          /\ coinsDisk' = {c}
    /\ pc' = "down"
    /\ Cold
    /\ UNCHANGED unsyncedFlush

-----------------------------------------------------------------------------
Init ==
    /\ nStatus = EmptyTree
    /\ nSequenceId = [b \in Blocks |-> 0]
    /\ nBlockSequenceId = 1
    /\ addr = CHOOSE r \in AddrOrders : TRUE
    /\ setBlockIndexValid = {}
    /\ pindexBestInvalid = NoBlock
    /\ chainActive = NoBlock
    /\ chainMostWork = NoBlock
    /\ pcoinsTip = NoBlock
    /\ nLastWrite = FALSE
    /\ mapOrphanBlocks = {}
    /\ mapOrphanBlocksByPrev = {}
    /\ pc = "down"
    /\ accepting = NoBlock
    /\ pindexOldTip = NoBlock
    /\ vWorkQueue = <<>>
    /\ fRequestShutdown = FALSE
    /\ blockTree = EmptyTree
    /\ blockTreeDisk = {EmptyTree}
    /\ coinsDB = NoBlock
    /\ coinsDisk = {NoBlock}
    /\ unsyncedFlush = FALSE
    /\ nCrashes = 0

\* The steps ProcessBlock and ActivateBestChain take by themselves.
NodeStep ==
    \/ \E o \in Blocks : OrphanAccept(o) \/ OrphanReject(o)
    \/ OrphanNext
    \/ ActivateStart
    \/ PopInvalid
    \/ CandidateInvalid
    \/ CandidateFound
    \/ DisconnectTip
    \/ \E b \in Blocks : ConnectTip(b) \/ ConnectUndoDiskFull(b) \/ ConnectInvalid(b)
    \/ AssertionFails
    \/ ActivateDone

Environment ==
    \/ \E b \in Blocks : \/ ProcessOrphan(b)
                        \/ ProcessReject(b)
                        \/ ProcessAccept(b)
                        \/ ProcessDiskFull(b)
    \/ LoadBlockIndex
    \/ InitBlockIndex
    \/ LoadFails
    \/ Reindex
    \/ Shutdown
    \/ Kill
    \/ PowerLoss

Next == NodeStep \/ Environment

Spec == Init /\ [][Next]_vars /\ WF_vars(NodeStep)

-----------------------------------------------------------------------------
PCs == {"down", "idle", "exiting", "start", "popInvalid", "candidate", "reorg",
        "orphans", "assertFailed", "noGenesis", "corrupted"}

\* An entry of the index always has its block data.
Trees == [Blocks -> {{}} \cup {s \in SUBSET Flags : "HAVE_DATA" \in s}]

\* The values every variable may hold; in particular flags are only ever set on
\* blocks that are in the index and have their data (CBlockIndex::nStatus).
TypeOK ==
    /\ nStatus \in Trees
    /\ nSequenceId \in [Blocks -> Nat]
    /\ nBlockSequenceId \in Nat
    /\ addr \in AddrOrders
    /\ setBlockIndexValid \subseteq Blocks
    /\ pindexBestInvalid \in Blocks \cup {NoBlock}
    /\ chainActive \in Blocks \cup {NoBlock}
    /\ chainMostWork \in Blocks \cup {NoBlock}
    /\ pcoinsTip \in Blocks \cup {NoBlock}
    /\ nLastWrite \in BOOLEAN
    /\ mapOrphanBlocks \subseteq Blocks
    /\ mapOrphanBlocksByPrev \subseteq Blocks
    /\ pc \in PCs
    /\ accepting \in Blocks \cup {NoBlock}
    /\ pindexOldTip \in Blocks \cup {NoBlock}
    /\ vWorkQueue \in Seq(Blocks)
    /\ fRequestShutdown \in BOOLEAN
    /\ blockTree \in Trees
    /\ blockTreeDisk \subseteq Trees
    /\ coinsDB \in Blocks \cup {NoBlock}
    /\ coinsDisk \subseteq Blocks \cup {NoBlock}
    /\ unsyncedFlush \in BOOLEAN
    /\ nCrashes \in 0..MaxCrashes

\* The candidates are exactly the indexed blocks not known to be invalid: a
\* missing one would never be activated (main.cpp:98, "must contain those who
\* aren't failed"), an invalid one makes FindMostWorkChain loop for ever.
CandidatesExact == setBlockIndexValid = mapBlockIndex \ Failed

\* Every block of the active chain was connected and none is known invalid,
\* whatever reorganisations, invalid forks and restarts came before.
ActiveChainValid ==
    \A a \in Ancestors[chainActive] :
        /\ a \notin Failed \cup BadConnect
        /\ a # Genesis => {"HAVE_UNDO", "VALID_SCRIPTS"} \subseteq nStatus[a]

\* When ProcessBlock has returned and no system error occurred, no indexed chain
\* that would connect has more work than the active one, even if it lost blocks
\* to a fork that turned out to be invalid half-way.
BestChainActive ==
    pc = "idle" /\ ~fRequestShutdown =>
        /\ chainActive # NoBlock
        /\ \A b \in mapBlockIndex :
              Ancestors[b] \cap BadConnect = {} => ChainWork[b] <= ChainWork[chainActive]

\* Between two ProcessBlock calls the two orphan maps agree and no orphan waits
\* for a block that is already indexed, so none can be stranded for ever; and at most
\* one more than the configured number is kept (PruneOrphanBlocks runs before the insertion).
OrphansWait ==
    /\ Cardinality(mapOrphanBlocks) <= MaxOrphans + 1
    /\ pc = "idle" =>
        /\ mapOrphanBlocks = mapOrphanBlocksByPrev
        /\ ~fRequestShutdown =>
              \A o \in mapOrphanBlocks : Prev[o] \notin mapBlockIndex

\* Whatever prefix of its writes each database keeps, the coins name a block
\* whose whole chain the index can read and undo.  (Shutdown breaks the order of
\* the two databases, so the property stops at a flush it makes out of order.)
PowerLossSafe ==
    ~unsyncedFlush =>
        \A t \in blockTreeDisk, c \in coinsDisk : Recoverable(t, c)

\* A restart finds every entry of the index with its parent, so pprev is never
\* an empty CBlockIndex made up by InsertBlockIndex.
IndexParentClosed ==
    \A t \in blockTreeDisk : \A b \in InIndex(t) \ {Genesis} : Prev[b] \in InIndex(t)

\* The coins are those of the active tip except after a full disk (or on top of
\* an index that lost what Shutdown did not sync); only then can the assertions
\* of ConnectBlock and DisconnectBlock fail.
CoinsFollowTip ==
    pcoinsTip # chainActive \/ pc = "assertFailed" => fRequestShutdown \/ unsyncedFlush

\* A block is disconnected only for a chain with more work than the one it ends,
\* or as much and received no later.
ReorgOnlyToBetter ==
    [][DisconnectTip =>
          \/ ChainWork[chainActive] < ChainWork[chainMostWork]
          \/ /\ ChainWork[chainActive] = ChainWork[chainMostWork]
             /\ nSequenceId[chainMostWork] <= nSequenceId[chainActive]]_vars

\* Processing a block replaces the tip only by one with strictly more work: of
\* two equal branches the node stays on the one it has (the first seen).
FirstSeenWins ==
    [][ActivateDone /\ accepting \notin {NoBlock, Genesis} /\ chainActive # pindexOldTip
          => ChainWork[pindexOldTip] < ChainWork[chainActive]]_vars

\* ActivateBestChain and the orphan loop terminate: ProcessBlock returns and
\* releases cs_main, whatever invalid chains it meets.
ProcessBlockReturns ==
    pc \in {"start", "popInvalid", "candidate", "reorg", "orphans"}
        ~> pc \in {"idle", "exiting", "down", "assertFailed"}

-----------------------------------------------------------------------------
(* What comments and documentation say, and the code does not do. *)

\* init.cpp:209, -maxorphanblocks: "Keep at most <n> unconnectable blocks in
\* memory".  PruneOrphanBlocks makes room only once the limit is exceeded.
\* The code does not keep this (README, section 4).
KeepAtMostMaxOrphans == Cardinality(mapOrphanBlocks) <= MaxOrphans

\* main.cpp:2061: FindMostWorkChain makes chainMostWork "the chain with the most
\* work in it, that isn't known to be invalid".
\* The code does not keep this (README, section 4).
MostWorkNotKnownInvalid == pc = "reorg" => Ancestors[chainMostWork] \cap Failed = {}

\* main.cpp:1629 and 1756: the view's best block is the block to disconnect, or
\* the parent of the block to connect.
\* The code does not keep this (README, section 4).
ViewMatchesTip == pc # "assertFailed"

\* init.cpp:866: a loaded index without an active genesis block means that "we're
\* likely using a testnet datadir", not one this node wrote itself.
OwnDatadirHasGenesis == pc # "noGenesis"

\* README.md:123: of two blocks found at the same time "the miner will process the
\* first block received" until "the next block is found".
\* The code does not keep this (README, section 4).
StaysOnFirstReceived ==
    [][ActivateDone /\ chainActive # pindexOldTip
          => ChainWork[pindexOldTip] < ChainWork[chainActive]]_vars

=============================================================================
