---------------------------- MODULE BlockTreeProofs ----------------------------
(***************************************************************************)
(* Proofs about BlockTree, for every block tree and every set of faults.   *)
(*                                                                         *)
(* None of the properties is inductive by itself.  IInv adds what the code *)
(* relies on without saying so: memory and database agree on everything    *)
(* but FAILED_CHILD, every version of the index a power loss can bring back*)
(* is well formed, and no coins ever belong to a chain with an invalid     *)
(* block.                                                                  *)
(***************************************************************************)
EXTENDS BlockTree, TLAPS, FiniteSetTheorems

\* An index is closed under ancestors, marks only blocks with an invalid one in
\* their chain, and has scripts checked wherever it has undo data.
WellFormed(status) ==
    /\ \A b \in InIndex(status) : Ancestors[b] \subseteq InIndex(status)
    /\ \A b \in FailedIn(status) : Ancestors[b] \cap BadConnect # {}
    /\ \A b \in Blocks : "HAVE_UNDO" \in status[b] => "VALID_SCRIPTS" \in status[b]

Valid(c) == Ancestors[c] \cap BadConnect = {}

Stopped == pc \in {"down", "noGenesis", "corrupted"}

\* Memory and database differ only in FAILED_CHILD.
Agree(status, tree) ==
    \A b \in Blocks : /\ status[b] \ {"FAILED_CHILD"} \subseteq tree[b]
                      /\ tree[b] \subseteq status[b]

\* A process that does not run has no memory.
ColdInv ==
    Stopped => /\ nStatus = EmptyTree
               /\ setBlockIndexValid = {}
               /\ chainActive = NoBlock
               /\ chainMostWork = NoBlock
               /\ pcoinsTip = NoBlock
               /\ accepting = NoBlock
               /\ vWorkQueue = <<>>
               /\ ~fRequestShutdown

\* The block being accepted and the blocks whose orphans wait are indexed.
CallInv ==
    /\ accepting \in mapBlockIndex \cup {NoBlock}
    /\ \A i \in 1..Len(vWorkQueue) : vWorkQueue[i] \in mapBlockIndex

DiskInv ==
    /\ blockTree \in blockTreeDisk
    /\ coinsDB \in coinsDisk
    /\ \A t \in blockTreeDisk : WellFormed(t)
    /\ \A c \in coinsDisk : Valid(c)

MemoryInv ==
    /\ WellFormed(nStatus)
    /\ chainMostWork \in mapBlockIndex \cup {NoBlock}
    /\ Valid(chainActive)
    /\ Valid(pcoinsTip)
    /\ Recoverable(nStatus, chainActive)
    /\ ~unsyncedFlush => Recoverable(nStatus, pcoinsTip)
    /\ ~Stopped => Agree(nStatus, blockTree)

StateInv == CandidatesExact /\ ColdInv /\ DiskInv /\ MemoryInv /\ PowerLossSafe /\ CoinsFollowTip

IInv == TypeOK /\ CallInv /\ StateInv

-----------------------------------------------------------------------------
(* The tree of blocks *)

\* A chain ends with its tip and contains the chain of every block in it.
LEMMA ChainFacts ==
    ASSUME NEW b \in Blocks
    PROVE  /\ b \in Ancestors[b]
           /\ Ancestors[b] \subseteq Blocks
           /\ Prev[b] \in Blocks \cup {NoBlock}
           /\ Ancestors[b] = {b} \cup Ancestors[Prev[b]]
           /\ Ancestors[Prev[b]] \subseteq Blocks
           /\ b \notin Ancestors[Prev[b]]
BY BlocksAssumption, TreeAssumption

\* Ancestors of a candidate above an ancestor f have f in their chain.
LEMMA AboveFacts ==
    ASSUME NEW b \in Blocks, NEW f \in Ancestors[b], NEW c \in Ancestors[b] \ Ancestors[f]
    PROVE  Ancestors[f] \subseteq Ancestors[c]
BY BlocksAssumption, TreeAssumption

-----------------------------------------------------------------------------
(* Types *)

LEMMA InitType == Init => TypeOK
<1> SUFFICES ASSUME Init PROVE TypeOK
  OBVIOUS
<1>1. EmptyTree \in Trees
  BY DEF EmptyTree, Trees
<1>2. (CHOOSE r \in AddrOrders : TRUE) \in AddrOrders
  BY EnvAssumption
<1>3. addr \in AddrOrders
  BY <1>2 DEF Init
<1>4. nSequenceId \in [Blocks -> Nat] /\ vWorkQueue \in Seq(Blocks) /\ nCrashes \in 0..MaxCrashes
  BY EnvAssumption DEF Init
<1> QED
  BY <1>1, <1>3, <1>4 DEF Init, TypeOK, PCs

LEMMA ColdType ==
    ASSUME Cold
    PROVE  /\ nStatus' \in Trees
           /\ nSequenceId' \in [Blocks -> Nat]
           /\ nBlockSequenceId' \in Nat
           /\ addr' \in AddrOrders
           /\ setBlockIndexValid' \subseteq Blocks
           /\ pindexBestInvalid' \in Blocks \cup {NoBlock}
           /\ chainActive' \in Blocks \cup {NoBlock}
           /\ chainMostWork' \in Blocks \cup {NoBlock}
           /\ pcoinsTip' \in Blocks \cup {NoBlock}
           /\ nLastWrite' \in BOOLEAN
           /\ mapOrphanBlocks' \subseteq Blocks
           /\ mapOrphanBlocksByPrev' \subseteq Blocks
           /\ accepting' \in Blocks \cup {NoBlock}
           /\ pindexOldTip' \in Blocks \cup {NoBlock}
           /\ vWorkQueue' \in Seq(Blocks)
           /\ fRequestShutdown' \in BOOLEAN
<1>1. EmptyTree \in Trees
  BY DEF EmptyTree, Trees
<1>2. (CHOOSE r \in AddrOrders : TRUE) \in AddrOrders
  BY EnvAssumption
<1>3. addr' \in AddrOrders
  BY <1>2 DEF Cold
<1>4. nSequenceId' \in [Blocks -> Nat] /\ vWorkQueue' \in Seq(Blocks)
  BY DEF Cold
<1> QED
  BY <1>1, <1>3, <1>4 DEF Cold

LEMMA ReturnType ==
    ASSUME TypeOK, NEW ok \in BOOLEAN, Return(ok)
    PROVE  /\ pc' \in PCs
           /\ accepting' \in Blocks \cup {NoBlock}
           /\ pindexOldTip' \in Blocks \cup {NoBlock}
           /\ vWorkQueue' \in Seq(Blocks)
           /\ mapOrphanBlocks' \subseteq Blocks
           /\ mapOrphanBlocksByPrev' \subseteq Blocks
<1>1. CASE accepting = NoBlock
  BY <1>1, BlocksAssumption DEF TypeOK, Return, PCs
<1>2. CASE accepting # NoBlock
  <2>1. accepting \in Blocks /\ Append(vWorkQueue, accepting) \in Seq(Blocks)
                            /\ <<accepting>> \in Seq(Blocks) /\ <<>> \in Seq(Blocks)
    BY <1>2 DEF TypeOK
  <2> QED
    BY <1>2, <2>1, BlocksAssumption DEF TypeOK, Return, PCs, Push
<1> QED
  BY <1>1, <1>2

\* Flags are only added to entries that have their data.
LEMMA AddedFlags ==
    ASSUME NEW t \in Trees, NEW b \in InIndex(t), NEW s \in SUBSET Flags
    PROVE  /\ t[b] \cup s \in {x \in SUBSET Flags : "HAVE_DATA" \in x}
           /\ [t EXCEPT ![b] = t[b] \cup s] \in Trees
BY DEF Trees, InIndex

\* Writing one entry keeps the index and all its recoverable versions well typed.
LEMMA WriteType ==
    ASSUME TypeOK, NEW b \in Blocks, NEW s \in {x \in SUBSET Flags : "HAVE_DATA" \in x},
           WriteBlockIndex(b, s)
    PROVE  blockTree' \in Trees /\ blockTreeDisk' \subseteq Trees
<1>1. Written(b, s) \in Trees
  BY DEF TypeOK, Trees, Written
<1> QED
  BY <1>1 DEF WriteBlockIndex, TypeOK

LEMMA AddToBlockIndexType ==
    ASSUME TypeOK, NEW b \in Blocks, AddToBlockIndex(b)
    PROVE  /\ nStatus' \in Trees
           /\ nSequenceId' \in [Blocks -> Nat]
           /\ nBlockSequenceId' \in Nat
           /\ setBlockIndexValid' \subseteq Blocks
           /\ blockTree' \in Trees
           /\ blockTreeDisk' \subseteq Trees
           /\ accepting' \in Blocks
           /\ pc' \in PCs
<1>1. {"HAVE_DATA"} \in {x \in SUBSET Flags : "HAVE_DATA" \in x}
  BY DEF Flags
<1>2. blockTree' \in Trees /\ blockTreeDisk' \subseteq Trees
  BY <1>1, WriteType DEF AddToBlockIndex
<1>3. nStatus' \in Trees
  BY <1>1 DEF AddToBlockIndex, TypeOK, Trees
<1> QED
  BY <1>2, <1>3 DEF AddToBlockIndex, TypeOK, PCs

\* Both outcomes of WriteChainState.
LEMMA WriteChainStateType ==
    ASSUME TypeOK, NEW t \in Trees, NEW c \in Blocks \cup {NoBlock},
           WriteChainState(t, c) \/ WriteChainStateDiskFull(t)
    PROVE  /\ nLastWrite' \in BOOLEAN
           /\ blockTree' \in Trees
           /\ blockTreeDisk' \subseteq Trees
           /\ coinsDB' \in Blocks \cup {NoBlock}
           /\ coinsDisk' \subseteq Blocks \cup {NoBlock}
BY DEF TypeOK, WriteChainState, WriteChainStateDiskFull, Synced, coinVars

LEMMA TypeStep == IInv /\ [Next]_vars => TypeOK'
<1> SUFFICES ASSUME IInv, [Next]_vars PROVE TypeOK'
  OBVIOUS
<1>t. TypeOK
  BY DEF IInv
<1>i. setBlockIndexValid \subseteq mapBlockIndex
  BY DEF IInv, StateInv, CandidatesExact
<1>w. \A b \in InIndex(nStatus) : Ancestors[b] \subseteq InIndex(nStatus)
  BY DEF IInv, StateInv, MemoryInv, WellFormed
<1>c. nCrashes \in 0..MaxCrashes /\ MaxCrashes \in Nat
  BY <1>t, EnvAssumption DEF TypeOK
<1>1. ASSUME NEW b \in Blocks, ProcessOrphan(b) PROVE TypeOK'
  <2>1. PICK pruned \in Prunable :
          /\ mapOrphanBlocks' = (mapOrphanBlocks \ pruned) \cup {b}
          /\ mapOrphanBlocksByPrev' = (mapOrphanBlocksByPrev \ pruned) \cup {b}
    BY <1>1 DEF ProcessOrphan
  <2> QED
    BY <1>1, <1>t, <2>1 DEF ProcessOrphan, TypeOK, indexVars, chainVars, orphanVars, callVars, treeVars, coinVars
<1>2. ASSUME NEW b \in Blocks, ProcessReject(b) PROVE TypeOK'
  BY <1>2, <1>t DEF ProcessReject, TypeOK, vars, indexVars, chainVars, orphanVars, callVars, treeVars, coinVars
<1>3. ASSUME NEW b \in Blocks, ProcessAccept(b) PROVE TypeOK'
  <2>1. AddToBlockIndex(b)
    BY <1>3 DEF ProcessAccept
  <2> QED
    BY <1>3, <1>t, <2>1, AddToBlockIndexType DEF ProcessAccept, TypeOK, indexVars, chainVars, orphanVars, callVars, treeVars, coinVars
<1>4. ASSUME NEW b \in Blocks, ProcessDiskFull(b) PROVE TypeOK'
  BY <1>4, <1>t DEF ProcessDiskFull, TypeOK, indexVars, chainVars, orphanVars, callVars, treeVars, coinVars
<1>5. ASSUME NEW o \in Blocks, OrphanAccept(o) PROVE TypeOK'
  <2>1. AddToBlockIndex(o)
    BY <1>5 DEF OrphanAccept
  <2> QED
    BY <1>5, <1>t, <2>1, AddToBlockIndexType DEF OrphanAccept, TypeOK, indexVars, chainVars, orphanVars, callVars, treeVars, coinVars
<1>6. ASSUME NEW o \in Blocks, OrphanReject(o) PROVE TypeOK'
  BY <1>6, <1>t DEF OrphanReject, TypeOK, indexVars, chainVars, orphanVars, callVars, treeVars, coinVars
<1>7. CASE OrphanNext
  <2>1. ASSUME vWorkQueue # <<>> PROVE Tail(vWorkQueue) \in Seq(Blocks)
    BY <1>t, <2>1 DEF TypeOK
  <2>2. vWorkQueue' = vWorkQueue \/ (vWorkQueue # <<>> /\ vWorkQueue' = Tail(vWorkQueue))
    BY <1>7 DEF OrphanNext
  <2>3. vWorkQueue' \in Seq(Blocks)
    BY <1>t, <2>1, <2>2 DEF TypeOK
  <2> QED
    BY <1>7, <1>t, <2>3 DEF OrphanNext, TypeOK, PCs, indexVars, chainVars, orphanVars, callVars, treeVars, coinVars
<1>8. CASE ActivateStart
  BY <1>8, <1>t DEF ActivateStart, TypeOK, PCs, indexVars, chainVars, orphanVars, callVars, treeVars, coinVars
<1>9. CASE PopInvalid
  <2>1. chainMostWork' \in Blocks \cup {NoBlock}
    BY <1>9, <1>t, BlocksAssumption DEF PopInvalid, TypeOK, Failed, FailedIn
  <2> QED
    BY <1>9, <1>t, <2>1 DEF PopInvalid, TypeOK, PCs, EraseCandidate, indexVars, chainVars, orphanVars, callVars, treeVars, coinVars
<1>10. CASE CandidateInvalid
  <2>1. PICK b \in setBlockIndexValid, f \in Blocks :
          /\ nStatus' = [c \in Blocks |-> IF c \in Ancestors[b] \ Ancestors[f]
                                          THEN nStatus[c] \cup {"FAILED_CHILD"} ELSE nStatus[c]]
          /\ setBlockIndexValid' = setBlockIndexValid \ (Ancestors[b] \ Ancestors[f])
          /\ pindexBestInvalid' = BetterInvalid(pindexBestInvalid, b)
    BY <1>10 DEF CandidateInvalid
  <2>2. \A c \in Ancestors[b] : c \in Blocks /\ nStatus[c] \cup {"FAILED_CHILD"}
                                   \in {x \in SUBSET Flags : "HAVE_DATA" \in x}
    BY <1>t, <1>i, <1>w DEF TypeOK, Trees, Flags, mapBlockIndex, InIndex
  <2>3. nStatus' \in Trees
    BY <1>t, <2>1, <2>2 DEF TypeOK, Trees
  <2> QED
    BY <1>10, <1>t, <2>1, <2>3 DEF CandidateInvalid, TypeOK, BetterInvalid, indexVars, chainVars, orphanVars, callVars, treeVars, coinVars
<1>11. CASE CandidateFound
  BY <1>11, <1>t DEF CandidateFound, TypeOK, PCs, indexVars, chainVars, orphanVars, callVars, treeVars, coinVars
<1>12. CASE DisconnectTip
  <2>1. Prev[chainActive] \in Blocks \cup {NoBlock}
    BY <1>12, <1>t, BlocksAssumption DEF DisconnectTip, MustDisconnect, TypeOK
  <2>2. CASE WriteChainState(blockTree, Prev[chainActive]) /\ chainActive' = Prev[chainActive]
                /\ UNCHANGED <<orphanVars, callVars>>
    BY <1>12, <1>t, <2>1, <2>2, WriteChainStateType DEF DisconnectTip, TypeOK, indexVars, chainVars, orphanVars, callVars, treeVars, coinVars
  <2>3. CASE WriteChainStateDiskFull(blockTree) /\ Return(FALSE) /\ UNCHANGED chainActive
    <3>1. fRequestShutdown' \in BOOLEAN
      BY <2>3 DEF WriteChainStateDiskFull
    <3> QED
      BY <1>12, <1>t, <2>1, <2>3, <3>1, WriteChainStateType, ReturnType DEF DisconnectTip, TypeOK, indexVars, chainVars, orphanVars, callVars, treeVars, coinVars
  <2> QED
    BY <1>12, <2>2, <2>3 DEF DisconnectTip
<1>13. ASSUME NEW b \in Blocks, ConnectTip(b) PROVE TypeOK'
  <2> DEFINE status == ConnectedStatus(b)
             tree   == IF status = nStatus[b] THEN blockTree ELSE Written(b, status)
  <2>1. b \in InIndex(nStatus)
    BY <1>13, <1>t, <1>w, TreeAssumption DEF ConnectTip, IsNext, IInv, StateInv, MemoryInv, mapBlockIndex
  <2>2. /\ status \in {x \in SUBSET Flags : "HAVE_DATA" \in x}
        /\ [nStatus EXCEPT ![b] = status] \in Trees
    BY <2>1, <1>t DEF TypeOK, Trees, InIndex, Flags, ConnectedStatus
  <2>3. tree \in Trees
    BY <2>2, <1>t DEF TypeOK, Trees, Written
  <2>4. nStatus' = [nStatus EXCEPT ![b] = status] /\ pcoinsTip' = b
    BY <1>13 DEF ConnectTip
  <2> HIDE DEF status, tree
  <2>5. CASE WriteChainState(tree, b) /\ chainActive' = b /\ UNCHANGED <<orphanVars, callVars>>
    BY <1>13, <1>t, <2>2, <2>3, <2>4, <2>5, WriteChainStateType DEF ConnectTip, TypeOK, indexVars, chainVars, orphanVars, callVars, treeVars, coinVars
  <2>6. CASE WriteChainStateDiskFull(tree) /\ Return(FALSE) /\ UNCHANGED chainActive
    <3>1. fRequestShutdown' \in BOOLEAN
      BY <2>6 DEF WriteChainStateDiskFull
    <3> QED
      BY <1>13, <1>t, <2>2, <2>3, <2>4, <2>6, <3>1, WriteChainStateType, ReturnType
         DEF ConnectTip, TypeOK, indexVars, chainVars, orphanVars, callVars, treeVars, coinVars
  <2> QED
    BY <1>13, <2>5, <2>6 DEF ConnectTip, status, tree
<1>14. ASSUME NEW b \in Blocks, ConnectUndoDiskFull(b) PROVE TypeOK'
  <2>1. Return(FALSE) /\ fRequestShutdown' \in BOOLEAN
    BY <1>14 DEF ConnectUndoDiskFull
  <2> QED
    BY <1>14, <1>t, <2>1, ReturnType DEF ConnectUndoDiskFull, TypeOK, indexVars, chainVars, orphanVars, callVars, treeVars, coinVars
<1>15. ASSUME NEW b \in Blocks, ConnectInvalid(b) PROVE TypeOK'
  <2>1. b \in InIndex(nStatus) /\ chainMostWork \in Blocks
    BY <1>15, <1>t, <1>w, TreeAssumption DEF ConnectInvalid, IsNext, IInv, StateInv, MemoryInv, mapBlockIndex, TypeOK
  <2>2. /\ nStatus[b] \cup {"FAILED_VALID"} \in {x \in SUBSET Flags : "HAVE_DATA" \in x}
        /\ nStatus' \in Trees
    BY <1>15, <2>1, <1>t, AddedFlags DEF ConnectInvalid, TypeOK, Flags
  <2>3. blockTree' \in Trees /\ blockTreeDisk' \subseteq Trees
    BY <1>15, <1>t, <2>2, WriteType DEF ConnectInvalid
  <2>4. pindexBestInvalid' \in Blocks \cup {NoBlock}
    BY <1>15, <1>t, <2>1 DEF ConnectInvalid, TypeOK, BetterInvalid
  <2> QED
    BY <1>15, <1>t, <2>2, <2>3, <2>4 DEF ConnectInvalid, TypeOK, PCs, EraseCandidate, indexVars, chainVars, orphanVars, callVars, treeVars, coinVars
<1>16. CASE AssertionFails
  BY <1>16, <1>t DEF AssertionFails, TypeOK, PCs, indexVars, chainVars, orphanVars, callVars, treeVars, coinVars
<1>17. CASE ActivateDone
  <2>1. Return(TRUE)
    BY <1>17 DEF ActivateDone
  <2> QED
    BY <1>17, <1>t, <2>1, ReturnType DEF ActivateDone, TypeOK, indexVars, chainVars, orphanVars, callVars, treeVars, coinVars
<1>18. CASE LoadBlockIndex
  <2>1. pindexBestInvalid' \in Blocks \cup {NoBlock}
    BY <1>18 DEF LoadBlockIndex, FailedIn
  <2> QED
    BY <1>18, <1>t, <2>1 DEF LoadBlockIndex, LoadedTip, InIndex, TypeOK, PCs, indexVars, chainVars, orphanVars, callVars, treeVars, coinVars
<1>19. CASE InitBlockIndex
  <2>1. AddToBlockIndex(Genesis) /\ Genesis \in Blocks
    BY <1>19, BlocksAssumption DEF InitBlockIndex
  <2> QED
    BY <1>19, <1>t, <2>1, AddToBlockIndexType DEF InitBlockIndex, TypeOK, indexVars, chainVars, orphanVars, callVars, treeVars, coinVars
<1>20. CASE LoadFails
  BY <1>20, <1>t DEF LoadFails, TypeOK, PCs, indexVars, chainVars, orphanVars, callVars, treeVars, coinVars
<1>21. CASE Reindex
  <2>1. EmptyTree \in Trees
    BY DEF EmptyTree, Trees
  <2> QED
    BY <1>21, <1>t, <2>1 DEF Reindex, TypeOK, PCs, indexVars, chainVars, orphanVars, callVars, treeVars, coinVars
<1>22. CASE Shutdown
  <2>1. Cold /\ unsyncedFlush' \in BOOLEAN
    BY <1>22, <1>t DEF Shutdown, TypeOK
  <2> QED
    BY <1>22, <1>t, <2>1, ColdType DEF Shutdown, TypeOK, PCs, treeVars
<1>23. CASE Kill
  <2>1. Cold
    BY <1>23 DEF Kill
  <2>2. nCrashes' = nCrashes \/ (nCrashes < MaxCrashes /\ nCrashes' = nCrashes + 1)
    BY <1>23 DEF Kill
  <2>3. nCrashes' \in 0..MaxCrashes
    BY <2>2, <1>c
  <2> QED
    BY <1>23, <1>t, <2>1, <2>3, ColdType DEF Kill, TypeOK, PCs, treeVars, coinVars
<1>24. CASE PowerLoss
  <2>1. Cold
    BY <1>24 DEF PowerLoss
  <2>2. nCrashes < MaxCrashes /\ nCrashes' = nCrashes + 1
    BY <1>24 DEF PowerLoss
  <2>3. nCrashes' \in 0..MaxCrashes
    BY <2>2, <1>c
  <2>4. /\ blockTree' \in blockTreeDisk /\ blockTreeDisk' = {blockTree'}
        /\ coinsDB' \in coinsDisk /\ coinsDisk' = {coinsDB'}
    BY <1>24 DEF PowerLoss
  <2> QED
    BY <1>24, <1>t, <2>1, <2>3, <2>4, ColdType DEF PowerLoss, TypeOK, PCs
<1>25. CASE UNCHANGED vars
  BY <1>25, <1>t DEF TypeOK, vars, indexVars, chainVars, orphanVars, callVars, treeVars, coinVars
<1> QED
  BY <1>1, <1>2, <1>3, <1>4, <1>5, <1>6, <1>7, <1>8, <1>9, <1>10, <1>11, <1>12, <1>13,
     <1>14, <1>15, <1>16, <1>17, <1>18, <1>19, <1>20, <1>21, <1>22, <1>23, <1>24, <1>25
     DEF Next, NodeStep, Environment

-----------------------------------------------------------------------------
(* Helpers about chains, the index and its versions *)

\* The chain below a block is valid and can be undone when the block's is.
LEMMA PrevFacts ==
    ASSUME NEW c \in Blocks, NEW t
    PROVE  /\ Valid(c) => Valid(Prev[c])
           /\ Recoverable(t, c) => Recoverable(t, Prev[c])
BY ChainFacts DEF Valid, Recoverable

\* Adding flags to an index never makes a chain unrecoverable.
LEMMA RecoverMono ==
    ASSUME NEW t, NEW u, NEW c \in Blocks \cup {NoBlock},
           \A b \in Blocks : t[b] \subseteq u[b], Recoverable(t, c)
    PROVE  Recoverable(u, c)
BY TreeAssumption DEF Recoverable

\* No coins, no requirement on the index.
LEMMA RecoverNone == ASSUME NEW t PROVE Recoverable(t, NoBlock) /\ Valid(NoBlock)
BY TreeAssumption DEF Recoverable, Valid

LEMMA AgreeRecover ==
    ASSUME NEW s, NEW t, NEW c \in Blocks \cup {NoBlock}, Agree(s, t), Recoverable(s, c)
    PROVE  Recoverable(t, c)
BY TreeAssumption DEF Recoverable, Agree

\* An index and its database hold the same blocks.
LEMMA AgreeIndex ==
    ASSUME NEW s \in Trees, NEW t \in Trees, Agree(s, t)
    PROVE  InIndex(s) = InIndex(t)
BY DEF Agree, InIndex, Trees

-----------------------------------------------------------------------------
(* The steps that leave the index, the chains and the coins alone *)

LEMMA FrameStep ==
    ASSUME IInv, ~Stopped, ~Stopped',
           UNCHANGED <<nStatus, setBlockIndexValid, chainActive, chainMostWork, pcoinsTip,
                       treeVars, coinVars, unsyncedFlush>>,
           fRequestShutdown => fRequestShutdown',
           pc' = "assertFailed" => pc = "assertFailed" \/ pcoinsTip # chainActive
    PROVE  StateInv'
BY DEF IInv, StateInv, CandidatesExact, ColdInv, DiskInv, MemoryInv, PowerLossSafe, CoinsFollowTip,
       mapBlockIndex, Failed, InIndex, FailedIn, treeVars, coinVars

-----------------------------------------------------------------------------
(* A new entry of the index *)

\* A fresh entry whose parent is indexed keeps an index well formed.
LEMMA FreshEntry ==
    ASSUME NEW t \in Trees, NEW b \in Blocks, t[b] = {}, WellFormed(t),
           Prev[b] \in InIndex(t) \cup {NoBlock}
    PROVE  /\ WellFormed([t EXCEPT ![b] = {"HAVE_DATA"}])
           /\ InIndex([t EXCEPT ![b] = {"HAVE_DATA"}]) = InIndex(t) \cup {b}
           /\ FailedIn([t EXCEPT ![b] = {"HAVE_DATA"}]) = FailedIn(t)
           /\ \A x \in Blocks : t[x] \subseteq [t EXCEPT ![b] = {"HAVE_DATA"}][x]
<1> DEFINE u == [t EXCEPT ![b] = {"HAVE_DATA"}]
<1>1. \A x \in Blocks : u[x] = IF x = b THEN {"HAVE_DATA"} ELSE t[x]
  BY DEF Trees
<1> HIDE DEF u
<1>2. InIndex(u) = InIndex(t) \cup {b} /\ \A x \in Blocks : t[x] \subseteq u[x]
  BY <1>1 DEF InIndex
<1>3. FailedIn(u) = FailedIn(t)
  BY <1>1 DEF FailedIn, BLOCK_FAILED_MASK
<1>4. Ancestors[b] \subseteq InIndex(u)
  BY <1>2, ChainFacts, TreeAssumption DEF WellFormed
<1>5. WellFormed(u)
  BY <1>1, <1>2, <1>3, <1>4 DEF WellFormed
<1> QED
  BY <1>2, <1>3, <1>5 DEF u

\* AddToBlockIndex adds the block to memory, database and candidates alike.
LEMMA AddEntry ==
    ASSUME TypeOK, CandidatesExact, Agree(nStatus, blockTree), WellFormed(nStatus),
           WellFormed(blockTree), NEW b \in Blocks, b \notin mapBlockIndex,
           Prev[b] \in mapBlockIndex \cup {NoBlock}, AddToBlockIndex(b)
    PROVE  /\ CandidatesExact'
           /\ WellFormed(nStatus') /\ WellFormed(blockTree')
           /\ Agree(nStatus', blockTree')
           /\ mapBlockIndex' = mapBlockIndex \cup {b}
           /\ blockTreeDisk' = blockTreeDisk \cup {blockTree'}
           /\ \A x \in Blocks : nStatus[x] \subseteq nStatus'[x] /\ blockTree[x] \subseteq blockTree'[x]
<1>1. nStatus \in Trees /\ blockTree \in Trees /\ setBlockIndexValid \subseteq Blocks
  BY DEF TypeOK
<1>2. nStatus[b] = {} /\ blockTree[b] = {}
  BY <1>1 DEF Agree, mapBlockIndex, InIndex
<1>3. InIndex(nStatus) = InIndex(blockTree)
  BY <1>1, AgreeIndex
<1>4. /\ nStatus' = [nStatus EXCEPT ![b] = {"HAVE_DATA"}]
      /\ blockTree' = [blockTree EXCEPT ![b] = {"HAVE_DATA"}]
      /\ blockTreeDisk' = blockTreeDisk \cup {blockTree'}
      /\ setBlockIndexValid' = setBlockIndexValid \cup {b}
  BY DEF AddToBlockIndex, WriteBlockIndex, Written
<1>5. /\ WellFormed(nStatus')
      /\ InIndex(nStatus') = InIndex(nStatus) \cup {b}
      /\ FailedIn(nStatus') = FailedIn(nStatus)
      /\ \A x \in Blocks : nStatus[x] \subseteq nStatus'[x]
  BY <1>1, <1>2, <1>4, FreshEntry DEF mapBlockIndex
<1>6. /\ WellFormed(blockTree')
      /\ \A x \in Blocks : blockTree[x] \subseteq blockTree'[x]
  BY <1>1, <1>2, <1>3, <1>4, FreshEntry DEF mapBlockIndex
<1>7. Agree(nStatus', blockTree')
  BY <1>1, <1>4 DEF Agree, Trees
<1>8. b \notin FailedIn(nStatus)
  BY <1>2 DEF FailedIn
<1>9. CandidatesExact'
  BY <1>4, <1>5, <1>8 DEF CandidatesExact, mapBlockIndex, Failed
<1> QED
  BY <1>4, <1>5, <1>6, <1>7, <1>9 DEF mapBlockIndex

\* AcceptBlock and the orphan loop, given that the parent is indexed.
LEMMA AcceptStep ==
    ASSUME IInv, ~Stopped, NEW b \in Blocks, b \notin mapBlockIndex, Prev[b] \in mapBlockIndex,
           AddToBlockIndex(b),
           UNCHANGED <<chainVars, fRequestShutdown, coinVars, unsyncedFlush>>
    PROVE  StateInv'
<1>1. /\ TypeOK /\ CandidatesExact /\ DiskInv /\ MemoryInv /\ PowerLossSafe /\ CoinsFollowTip
      /\ Agree(nStatus, blockTree) /\ WellFormed(nStatus) /\ WellFormed(blockTree)
  BY DEF IInv, StateInv, MemoryInv, DiskInv
<1>2. /\ CandidatesExact'
      /\ WellFormed(nStatus') /\ WellFormed(blockTree')
      /\ Agree(nStatus', blockTree')
      /\ mapBlockIndex' = mapBlockIndex \cup {b}
      /\ blockTreeDisk' = blockTreeDisk \cup {blockTree'}
      /\ \A x \in Blocks : nStatus[x] \subseteq nStatus'[x] /\ blockTree[x] \subseteq blockTree'[x]
  BY <1>1, AddEntry
<1>3. pc' = "start" /\ ~Stopped'
  BY DEF AddToBlockIndex, Stopped
<1>4. DiskInv'
  BY <1>1, <1>2 DEF DiskInv, coinVars
<1>5. /\ UNCHANGED <<chainActive, chainMostWork, pcoinsTip, coinsDB, coinsDisk, fRequestShutdown,
                     unsyncedFlush>>
      /\ chainActive \in Blocks \cup {NoBlock} /\ pcoinsTip \in Blocks \cup {NoBlock}
      /\ coinsDisk \subseteq Blocks \cup {NoBlock}
  BY <1>1 DEF chainVars, coinVars, TypeOK
<1>6. MemoryInv'
  <2>1. Recoverable(nStatus', chainActive)
    BY <1>1, <1>2, <1>5, RecoverMono DEF MemoryInv
  <2>2. ~unsyncedFlush => Recoverable(nStatus', pcoinsTip)
    BY <1>1, <1>2, <1>5, RecoverMono DEF MemoryInv
  <2> QED
    BY <1>1, <1>2, <1>5, <2>1, <2>2 DEF MemoryInv
<1>7. PowerLossSafe'
  <2>1. ASSUME ~unsyncedFlush, NEW c \in coinsDisk PROVE Recoverable(blockTree', c)
    BY <1>1, <1>2, <1>5, <2>1, RecoverMono DEF PowerLossSafe, DiskInv
  <2> QED
    BY <1>1, <1>2, <1>5, <2>1 DEF PowerLossSafe
<1>8. CoinsFollowTip' /\ ColdInv'
  BY <1>1, <1>3, <1>5 DEF CoinsFollowTip, ColdInv
<1> QED
  BY <1>2, <1>4, <1>6, <1>7, <1>8 DEF StateInv

\* The first start: an index that is still empty has no coins either, unless a
\* shutdown flushed coins that outlived their index.
LEMMA InitBlockIndexStep ==
    ASSUME IInv, InitBlockIndex
    PROVE  StateInv'
<1>1. /\ TypeOK /\ CandidatesExact /\ DiskInv /\ PowerLossSafe
      /\ WellFormed(nStatus) /\ WellFormed(blockTree)
  BY DEF IInv, StateInv, MemoryInv, DiskInv
<1>2. /\ AddToBlockIndex(Genesis) /\ InIndex(blockTree) = {}
      /\ UNCHANGED <<chainActive, chainMostWork, fRequestShutdown, coinsDB, coinsDisk, unsyncedFlush>>
      /\ pcoinsTip' = coinsDB
  BY DEF InitBlockIndex, coinVars
<1>3. /\ nStatus = EmptyTree /\ chainActive = NoBlock /\ chainMostWork = NoBlock
  BY DEF InitBlockIndex, IInv, StateInv, ColdInv, Stopped
<1>4. \A x \in Blocks : nStatus[x] = {} /\ blockTree[x] = {}
  BY <1>2, <1>3 DEF InIndex, EmptyTree
<1>5. Agree(nStatus, blockTree) /\ Genesis \in Blocks \ mapBlockIndex /\ Prev[Genesis] = NoBlock
  BY <1>4, BlocksAssumption DEF Agree, mapBlockIndex, InIndex
<1>6. /\ CandidatesExact'
      /\ WellFormed(nStatus') /\ WellFormed(blockTree')
      /\ Agree(nStatus', blockTree')
      /\ blockTreeDisk' = blockTreeDisk \cup {blockTree'}
      /\ \A x \in Blocks : nStatus[x] \subseteq nStatus'[x] /\ blockTree[x] \subseteq blockTree'[x]
  BY <1>1, <1>2, <1>5, AddEntry
<1>7. pc' = "start" /\ ~Stopped'
  BY <1>2 DEF AddToBlockIndex, Stopped
<1>8. coinsDB \in Blocks \cup {NoBlock} /\ coinsDisk \subseteq Blocks \cup {NoBlock} /\ coinsDB \in coinsDisk
  BY <1>1 DEF TypeOK, DiskInv
<1>9. ~unsyncedFlush => coinsDB = NoBlock
  <2>1. ~unsyncedFlush => Recoverable(blockTree, coinsDB)
    BY <1>1 DEF PowerLossSafe, DiskInv
  <2> QED
    BY <1>4, <1>8, <2>1, ChainFacts DEF Recoverable
<1>10. DiskInv'
  BY <1>1, <1>2, <1>6 DEF DiskInv
<1>11. MemoryInv'
  BY <1>1, <1>2, <1>3, <1>6, <1>8, <1>9, RecoverNone DEF MemoryInv, DiskInv
<1>12. PowerLossSafe'
  <2>1. ASSUME ~unsyncedFlush, NEW c \in coinsDisk PROVE Recoverable(blockTree', c)
    BY <1>1, <1>6, <1>8, <2>1, RecoverMono DEF PowerLossSafe, DiskInv
  <2> QED
    BY <1>1, <1>2, <1>6, <2>1 DEF PowerLossSafe
<1>13. CoinsFollowTip' /\ ColdInv'
  BY <1>2, <1>3, <1>7, <1>9 DEF CoinsFollowTip, ColdInv
<1> QED
  BY <1>6, <1>10, <1>11, <1>12, <1>13 DEF StateInv

-----------------------------------------------------------------------------
(* FindMostWorkChain *)

LEMMA PopInvalidStep ==
    ASSUME IInv, PopInvalid
    PROVE  StateInv'
<1>1. /\ TypeOK /\ CandidatesExact /\ DiskInv /\ MemoryInv /\ PowerLossSafe /\ CoinsFollowTip
      /\ ~Stopped
  BY DEF IInv, StateInv, PopInvalid, Stopped
<1>2. /\ UNCHANGED <<nStatus, chainActive, pcoinsTip, fRequestShutdown, treeVars, coinVars, unsyncedFlush>>
      /\ ~Stopped' /\ pc' # "assertFailed"
  BY DEF PopInvalid, Stopped
<1>3. setBlockIndexValid' = setBlockIndexValid
  BY <1>1 DEF PopInvalid, EraseCandidate, CandidatesExact
<1>4. chainMostWork' \in mapBlockIndex \cup {NoBlock}
  <2>1. CASE chainMostWork \in Failed
    <3>1. chainMostWork \in Blocks /\ chainMostWork' = Prev[chainMostWork]
      BY <2>1 DEF PopInvalid, Failed, FailedIn
    <3>2. Ancestors[chainMostWork] \subseteq mapBlockIndex
      BY <1>1, <3>1, BlocksAssumption DEF MemoryInv, WellFormed, mapBlockIndex
    <3>3. Prev[chainMostWork] \in Blocks \cup {NoBlock}
      BY <3>1, ChainFacts
    <3>4. Prev[chainMostWork] # NoBlock => Prev[chainMostWork] \in Ancestors[chainMostWork]
      BY <3>1, <3>3, ChainFacts
    <3> QED
      BY <3>1, <3>2, <3>3, <3>4
  <2>2. CASE chainMostWork \notin Failed
    BY <1>1, <2>2 DEF PopInvalid, MemoryInv
  <2> QED
    BY <2>1, <2>2
<1>5. CandidatesExact' /\ mapBlockIndex' = mapBlockIndex
  BY <1>1, <1>2, <1>3 DEF CandidatesExact, mapBlockIndex, Failed
<1>6. MemoryInv'
  BY <1>1, <1>2, <1>4, <1>5 DEF MemoryInv, treeVars
<1>7. DiskInv' /\ PowerLossSafe' /\ CoinsFollowTip' /\ ColdInv'
  BY <1>1, <1>2 DEF DiskInv, PowerLossSafe, CoinsFollowTip, ColdInv, treeVars, coinVars
<1> QED
  BY <1>5, <1>6, <1>7 DEF StateInv

\* Every descendant of the first invalid block of a candidate is marked, and
\* stops being a candidate.
LEMMA CandidateInvalidStep ==
    ASSUME IInv, CandidateInvalid
    PROVE  StateInv'
<1>1. /\ TypeOK /\ CandidatesExact /\ DiskInv /\ MemoryInv /\ PowerLossSafe /\ CoinsFollowTip
      /\ ~Stopped
  BY DEF IInv, StateInv, CandidateInvalid, Stopped
<1>2. /\ UNCHANGED <<chainActive, chainMostWork, pcoinsTip, fRequestShutdown, treeVars, coinVars,
                     unsyncedFlush, pc>>
      /\ ~Stopped' /\ pc' # "assertFailed"
  BY DEF CandidateInvalid, Stopped, chainVars, callVars
<1>3. PICK b \in setBlockIndexValid, f \in Blocks :
        /\ f \in Ancestors[b] /\ f \in Failed
        /\ nStatus' = [c \in Blocks |-> IF c \in Ancestors[b] \ Ancestors[f]
                                        THEN nStatus[c] \cup {"FAILED_CHILD"} ELSE nStatus[c]]
        /\ setBlockIndexValid' = setBlockIndexValid \ (Ancestors[b] \ Ancestors[f])
  BY DEF CandidateInvalid, InvalidAncestors
<1> DEFINE children == Ancestors[b] \ Ancestors[f]
<1>4. b \in Blocks /\ Ancestors[b] \subseteq mapBlockIndex /\ Ancestors[b] \subseteq Blocks
  BY <1>1, ChainFacts DEF TypeOK, CandidatesExact, MemoryInv, WellFormed, mapBlockIndex
<1>5. \A c \in children : Ancestors[c] \cap BadConnect # {}
  BY <1>1, <1>3, <1>4, AboveFacts DEF MemoryInv, WellFormed, Failed
<1>6. \A c \in Blocks : nStatus'[c] = IF c \in children THEN nStatus[c] \cup {"FAILED_CHILD"} ELSE nStatus[c]
  BY <1>3
<1> HIDE DEF children
<1>7. InIndex(nStatus') = InIndex(nStatus) /\ FailedIn(nStatus') = FailedIn(nStatus) \cup children
  BY <1>4, <1>6 DEF InIndex, FailedIn, BLOCK_FAILED_MASK, mapBlockIndex, children
<1>8. CandidatesExact' /\ mapBlockIndex' = mapBlockIndex
  BY <1>1, <1>3, <1>7 DEF CandidatesExact, mapBlockIndex, Failed, children
<1>9. WellFormed(nStatus')
  <2>1. WellFormed(nStatus)
    BY <1>1 DEF MemoryInv
  <2>2. \A x \in Blocks : "HAVE_UNDO" \in nStatus'[x] => "VALID_SCRIPTS" \in nStatus'[x]
    <3> SUFFICES ASSUME NEW x \in Blocks, "HAVE_UNDO" \in nStatus'[x]
                 PROVE  "VALID_SCRIPTS" \in nStatus'[x]
      OBVIOUS
    <3>1. nStatus[x] \subseteq nStatus'[x] /\ nStatus'[x] \subseteq nStatus[x] \cup {"FAILED_CHILD"}
      BY <1>6
    <3> QED
      BY <3>1, <2>1 DEF WellFormed
  <2>3. \A x \in FailedIn(nStatus') : Ancestors[x] \cap BadConnect # {}
    BY <2>1, <1>5, <1>7 DEF WellFormed
  <2>4. \A x \in InIndex(nStatus') : Ancestors[x] \subseteq InIndex(nStatus')
    BY <2>1, <1>7 DEF WellFormed
  <2> QED
    BY <2>2, <2>3, <2>4 DEF WellFormed
<1>10. Agree(nStatus', blockTree')
  BY <1>1, <1>2, <1>6 DEF MemoryInv, Agree, treeVars
<1>11. MemoryInv'
  <2>1. \A x \in Blocks : nStatus[x] \subseteq nStatus'[x]
    BY <1>6
  <2>2. chainActive \in Blocks \cup {NoBlock} /\ pcoinsTip \in Blocks \cup {NoBlock}
    BY <1>1 DEF TypeOK
  <2>3. Recoverable(nStatus', chainActive) /\ (~unsyncedFlush => Recoverable(nStatus', pcoinsTip))
    BY <1>1, <2>1, <2>2, RecoverMono DEF MemoryInv
  <2> QED
    BY <1>1, <1>2, <1>8, <1>9, <1>10, <2>3 DEF MemoryInv
<1>12. DiskInv' /\ PowerLossSafe' /\ CoinsFollowTip' /\ ColdInv'
  BY <1>1, <1>2 DEF DiskInv, PowerLossSafe, CoinsFollowTip, ColdInv, treeVars, coinVars
<1> QED
  BY <1>8, <1>11, <1>12 DEF StateInv

LEMMA CandidateFoundStep ==
    ASSUME IInv, CandidateFound
    PROVE  StateInv'
<1>1. /\ CandidatesExact /\ DiskInv /\ MemoryInv /\ PowerLossSafe /\ CoinsFollowTip /\ ~Stopped
  BY DEF IInv, StateInv, CandidateFound, Stopped
<1>2. /\ UNCHANGED <<nStatus, setBlockIndexValid, chainActive, pcoinsTip, fRequestShutdown, treeVars,
                     coinVars, unsyncedFlush>>
      /\ ~Stopped' /\ pc' # "assertFailed"
  BY DEF CandidateFound, Stopped, indexVars
<1>3. chainMostWork' \in setBlockIndexValid \cup {chainMostWork}
  BY DEF CandidateFound
<1>4. CandidatesExact' /\ mapBlockIndex' = mapBlockIndex
  BY <1>1, <1>2 DEF CandidatesExact, mapBlockIndex, Failed
<1>5. chainMostWork' \in mapBlockIndex \cup {NoBlock}
  BY <1>1, <1>3 DEF CandidatesExact, MemoryInv
<1>6. MemoryInv'
  BY <1>1, <1>2, <1>4, <1>5 DEF MemoryInv, treeVars
<1>7. DiskInv' /\ PowerLossSafe' /\ CoinsFollowTip' /\ ColdInv'
  BY <1>1, <1>2 DEF DiskInv, PowerLossSafe, CoinsFollowTip, ColdInv, treeVars, coinVars
<1> QED
  BY <1>4, <1>6, <1>7 DEF StateInv

-----------------------------------------------------------------------------
(* Connecting and disconnecting *)

LEMMA ReturnRuns ==
    ASSUME NEW ok \in BOOLEAN, Return(ok)
    PROVE  ~Stopped' /\ pc' # "assertFailed"
BY DEF Return, Stopped

\* WriteChainState: the index reaches the disk before coins that depend on it.
LEMMA WriteStep ==
    ASSUME IInv, NEW tree \in Trees, NEW best \in Blocks \cup {NoBlock},
           WellFormed(tree), \A x \in Blocks : blockTree[x] \subseteq tree[x],
           Valid(best), Recoverable(tree, best), UNCHANGED unsyncedFlush,
           WriteChainState(tree, best) \/ WriteChainStateDiskFull(tree)
    PROVE  DiskInv' /\ PowerLossSafe' /\ blockTree' = tree
<1>1. DiskInv /\ PowerLossSafe /\ coinsDisk \subseteq Blocks \cup {NoBlock}
  BY DEF IInv, StateInv, TypeOK
<1>2. \A c \in coinsDisk : ~unsyncedFlush => Recoverable(tree, c)
  <2> SUFFICES ASSUME NEW c \in coinsDisk, ~unsyncedFlush PROVE Recoverable(tree, c)
    OBVIOUS
  <2>1. Recoverable(blockTree, c) /\ c \in Blocks \cup {NoBlock}
    BY <1>1 DEF PowerLossSafe, DiskInv
  <2> QED
    BY <2>1, RecoverMono
<1>3. /\ blockTree' = tree
      /\ \/ /\ blockTreeDisk' = {tree}
            /\ coinsDB' = best /\ coinsDisk' = coinsDisk \cup {best}
         \/ /\ blockTreeDisk' = blockTreeDisk \cup {tree}
            /\ coinsDB' = coinsDB /\ coinsDisk' = coinsDisk
  BY DEF WriteChainState, WriteChainStateDiskFull, Synced, coinVars
<1>4. DiskInv'
  BY <1>1, <1>3 DEF DiskInv
<1>5. PowerLossSafe'
  BY <1>1, <1>2, <1>3 DEF PowerLossSafe
<1> QED
  BY <1>3, <1>4, <1>5

LEMMA DisconnectStep ==
    ASSUME IInv, DisconnectTip
    PROVE  StateInv'
<1> DEFINE p == Prev[chainActive]
<1>1. /\ TypeOK /\ CandidatesExact /\ DiskInv /\ MemoryInv /\ CoinsFollowTip /\ ~Stopped
  BY DEF IInv, StateInv, DisconnectTip, Stopped
<1>2. chainActive \in Blocks /\ p \in Blocks \cup {NoBlock}
  BY <1>1, ChainFacts DEF DisconnectTip, MustDisconnect, TypeOK
<1>3. Valid(p) /\ Recoverable(nStatus, p)
  BY <1>1, <1>2, PrevFacts DEF MemoryInv
<1> HIDE DEF p
<1>4. blockTree \in Trees /\ WellFormed(blockTree) /\ Recoverable(blockTree, p)
  BY <1>1, <1>2, <1>3, AgreeRecover DEF TypeOK, DiskInv, MemoryInv
<1>5. /\ UNCHANGED <<nStatus, setBlockIndexValid, chainMostWork, unsyncedFlush>>
      /\ pcoinsTip' = p
      /\ WriteChainState(blockTree, p) \/ WriteChainStateDiskFull(blockTree)
  BY DEF DisconnectTip, indexVars, p
<1>6. DiskInv' /\ PowerLossSafe' /\ blockTree' = blockTree
  BY <1>2, <1>3, <1>4, <1>5, WriteStep
<1>7. /\ \/ chainActive' = p /\ pc' = pc /\ fRequestShutdown' = fRequestShutdown
         \/ chainActive' = chainActive /\ Return(FALSE) /\ fRequestShutdown'
  BY DEF DisconnectTip, WriteChainStateDiskFull, callVars, p
<1>8. ~Stopped' /\ pc' # "assertFailed"
  BY <1>7, ReturnRuns DEF DisconnectTip, Stopped
<1>9. CandidatesExact' /\ mapBlockIndex' = mapBlockIndex
  BY <1>1, <1>5 DEF CandidatesExact, mapBlockIndex, Failed
<1>10. MemoryInv'
  BY <1>1, <1>3, <1>5, <1>6, <1>7, <1>9 DEF MemoryInv
<1>11. CoinsFollowTip' /\ ColdInv'
  BY <1>5, <1>7, <1>8 DEF CoinsFollowTip, ColdInv
<1> QED
  BY <1>6, <1>9, <1>10, <1>11 DEF StateInv

\* The block ActivateBestChain looks at next is indexed.
LEMMA NextIndexed ==
    ASSUME IInv, NEW b \in Blocks, IsNext(b)
    PROVE  b \in InIndex(nStatus) /\ ~Stopped /\ Prev[b] = chainActive
<1>1. chainMostWork \in mapBlockIndex
  BY TreeAssumption DEF IsNext, IInv, StateInv, MemoryInv
<1> QED
  BY <1>1 DEF IsNext, Stopped, IInv, StateInv, MemoryInv, WellFormed, mapBlockIndex

\* Recording undo data and checked scripts keeps an index well formed, whether
\* or not the entry also gets the flags memory has and the database lacks.
LEMMA ConnectedEntry ==
    ASSUME NEW t \in Trees, NEW b \in InIndex(t), NEW s \in SUBSET Flags,
           WellFormed(t), t[b] \subseteq s,
           s \cap BLOCK_FAILED_MASK # {} => Ancestors[b] \cap BadConnect # {},
           "HAVE_UNDO" \in s => "VALID_SCRIPTS" \in s
    PROVE  /\ WellFormed([t EXCEPT ![b] = s])
           /\ InIndex([t EXCEPT ![b] = s]) = InIndex(t)
           /\ \A x \in Blocks : t[x] \subseteq [t EXCEPT ![b] = s][x]
<1> DEFINE u == [t EXCEPT ![b] = s]
<1>1. b \in Blocks /\ \A x \in Blocks : u[x] = IF x = b THEN s ELSE t[x]
  BY DEF Trees, InIndex
<1> HIDE DEF u
<1>2. InIndex(u) = InIndex(t) /\ \A x \in Blocks : t[x] \subseteq u[x]
  BY <1>1 DEF InIndex
<1>3. \A x \in FailedIn(u) : Ancestors[x] \cap BadConnect # {}
  BY <1>1 DEF FailedIn, WellFormed
<1>4. \A x \in Blocks : "HAVE_UNDO" \in u[x] => "VALID_SCRIPTS" \in u[x]
  BY <1>1 DEF WellFormed
<1>5. WellFormed(u)
  BY <1>2, <1>3, <1>4 DEF WellFormed
<1> QED
  BY <1>2, <1>5 DEF u

LEMMA ConnectStep ==
    ASSUME IInv, NEW b \in Blocks, ConnectTip(b)
    PROVE  StateInv'
<1> DEFINE status == ConnectedStatus(b)
           tree   == IF status = nStatus[b] THEN blockTree ELSE Written(b, status)
<1>1. /\ TypeOK /\ CandidatesExact /\ DiskInv /\ MemoryInv /\ CoinsFollowTip
      /\ IsNext(b) /\ b \notin BadConnect
  BY DEF IInv, StateInv, ConnectTip
<1>2. b \in InIndex(nStatus) /\ ~Stopped /\ Prev[b] = chainActive
  BY <1>1, NextIndexed
<1>3. /\ nStatus \in Trees /\ blockTree \in Trees /\ WellFormed(nStatus) /\ WellFormed(blockTree)
      /\ Agree(nStatus, blockTree) /\ b \in InIndex(blockTree)
  BY <1>1, <1>2, AgreeIndex DEF TypeOK, MemoryInv, DiskInv
<1>4. /\ nStatus' = [nStatus EXCEPT ![b] = status] /\ pcoinsTip' = b
      /\ UNCHANGED <<setBlockIndexValid, chainMostWork, unsyncedFlush>>
      /\ WriteChainState(tree, b) \/ WriteChainStateDiskFull(tree)
  BY DEF ConnectTip
<1>5. \/ chainActive' = b /\ pc' = pc /\ fRequestShutdown' = fRequestShutdown
      \/ chainActive' = chainActive /\ Return(FALSE) /\ fRequestShutdown'
  BY DEF ConnectTip, WriteChainStateDiskFull, callVars
<1>6. ~Stopped' /\ pc' # "assertFailed"
  BY <1>5, <1>1, ReturnRuns DEF IsNext, Stopped
<1>7. /\ status \in SUBSET Flags /\ nStatus[b] \subseteq status /\ "HAVE_DATA" \in status
      /\ b # Genesis => "HAVE_UNDO" \in status
      /\ "HAVE_UNDO" \in status => "VALID_SCRIPTS" \in status
      /\ status \cap BLOCK_FAILED_MASK = nStatus[b] \cap BLOCK_FAILED_MASK
  <2>1. nStatus[b] \in SUBSET Flags /\ "HAVE_DATA" \in nStatus[b]
    BY <1>2, <1>3 DEF Trees, InIndex
  <2>2. "HAVE_UNDO" \in nStatus[b] => "VALID_SCRIPTS" \in nStatus[b]
    BY <1>3 DEF WellFormed
  <2> QED
    BY <2>1, <2>2 DEF ConnectedStatus, Flags, BLOCK_FAILED_MASK
<1>8. status \cap BLOCK_FAILED_MASK # {} => Ancestors[b] \cap BadConnect # {}
  BY <1>3, <1>7 DEF WellFormed, FailedIn
<1>9. Written(b, status) = [blockTree EXCEPT ![b] = status] /\ blockTree[b] \subseteq status
  BY <1>3, <1>7 DEF Written, Agree
<1>10. Written(b, status) \in Trees
  BY <1>3, <1>7, <1>9 DEF Trees
<1> HIDE DEF status
<1>11. /\ WellFormed(nStatus') /\ InIndex(nStatus') = InIndex(nStatus)
       /\ \A x \in Blocks : nStatus[x] \subseteq nStatus'[x]
  BY <1>2, <1>3, <1>4, <1>7, <1>8, ConnectedEntry
<1>12. /\ WellFormed(tree) /\ tree \in Trees
       /\ \A x \in Blocks : blockTree[x] \subseteq tree[x]
  <2>1. /\ WellFormed(Written(b, status))
        /\ \A x \in Blocks : blockTree[x] \subseteq Written(b, status)[x]
    <3>1. /\ WellFormed([blockTree EXCEPT ![b] = status])
          /\ \A x \in Blocks : blockTree[x] \subseteq [blockTree EXCEPT ![b] = status][x]
      <4>1. blockTree[b] \subseteq status
        BY <1>9
      <4> QED
        BY <1>3, <1>7, <1>8, <4>1, ConnectedEntry
    <3> QED
      BY <3>1, <1>9
  <2>2. CASE status = nStatus[b]
    BY <1>3, <2>2
  <2>3. CASE status # nStatus[b]
    BY <1>10, <2>1, <2>3
  <2> QED
    BY <2>2, <2>3
<1>13. Agree(nStatus', tree)
  <2>1. \A x \in Blocks : nStatus'[x] = IF x = b THEN status ELSE nStatus[x]
    BY <1>3, <1>4 DEF Trees
  <2>2. \A x \in Blocks : Written(b, status)[x] = IF x = b THEN status ELSE blockTree[x]
    BY <1>3, <1>9 DEF Trees
  <2> QED
    BY <1>3, <2>1, <2>2 DEF Agree
<1> HIDE DEF tree
<1>14. Valid(b)
  BY <1>1, <1>2, ChainFacts DEF Valid, MemoryInv
<1>15. Recoverable(nStatus', b)
  <2>1. Recoverable(nStatus', chainActive)
    BY <1>1, <1>11, RecoverMono DEF TypeOK, MemoryInv
  <2>2. nStatus'[b] = status
    BY <1>3, <1>4 DEF Trees
  <2> QED
    BY <1>2, <1>7, <2>1, <2>2, ChainFacts DEF Recoverable
<1>16. Recoverable(tree, b)
  BY <1>13, <1>15, AgreeRecover
<1>17. DiskInv' /\ PowerLossSafe' /\ blockTree' = tree
  BY <1>4, <1>12, <1>14, <1>16, WriteStep
<1>18. CandidatesExact' /\ mapBlockIndex' = mapBlockIndex
  <2>1. FailedIn(nStatus') = FailedIn(nStatus)
    BY <1>3, <1>4, <1>7 DEF FailedIn, Trees
  <2> QED
    BY <1>1, <1>4, <1>11, <2>1 DEF CandidatesExact, mapBlockIndex, Failed
<1>19. MemoryInv'
  <2>1. Recoverable(nStatus', chainActive) /\ Valid(chainActive)
    BY <1>1, <1>11, RecoverMono DEF TypeOK, MemoryInv
  <2>2. /\ Valid(chainActive') /\ Valid(pcoinsTip')
        /\ Recoverable(nStatus', chainActive') /\ Recoverable(nStatus', pcoinsTip')
    BY <1>4, <1>5, <1>14, <1>15, <2>1
  <2>3. chainMostWork' \in mapBlockIndex' \cup {NoBlock}
    BY <1>1, <1>4, <1>18 DEF MemoryInv
  <2>4. Agree(nStatus', blockTree')
    BY <1>13, <1>17
  <2> QED
    BY <1>11, <2>2, <2>3, <2>4 DEF MemoryInv
<1>20. CoinsFollowTip' /\ ColdInv'
  BY <1>4, <1>5, <1>6 DEF CoinsFollowTip, ColdInv
<1> QED
  BY <1>17, <1>18, <1>19, <1>20 DEF StateInv

\* InvalidBlockFound: only a block that breaks a rule is ever marked.
LEMMA ConnectInvalidStep ==
    ASSUME IInv, NEW b \in Blocks, ConnectInvalid(b)
    PROVE  StateInv'
<1> DEFINE status == nStatus[b] \cup {"FAILED_VALID"}
<1>1. /\ TypeOK /\ CandidatesExact /\ DiskInv /\ MemoryInv /\ PowerLossSafe /\ CoinsFollowTip
      /\ IsNext(b) /\ b \in BadConnect
  BY DEF IInv, StateInv, ConnectInvalid
<1>2. b \in InIndex(nStatus) /\ ~Stopped
  BY <1>1, NextIndexed
<1>3. /\ nStatus \in Trees /\ blockTree \in Trees /\ WellFormed(nStatus) /\ WellFormed(blockTree)
      /\ Agree(nStatus, blockTree) /\ b \in InIndex(blockTree)
  BY <1>1, <1>2, AgreeIndex DEF TypeOK, MemoryInv, DiskInv
<1>4. /\ nStatus' = [nStatus EXCEPT ![b] = status]
      /\ blockTree' = [blockTree EXCEPT ![b] = status]
      /\ blockTreeDisk' = blockTreeDisk \cup {blockTree'}
      /\ setBlockIndexValid' = setBlockIndexValid \ {b}
      /\ UNCHANGED <<chainActive, chainMostWork, pcoinsTip, fRequestShutdown, coinsDB, coinsDisk,
                     unsyncedFlush>>
      /\ pc' = "popInvalid"
  BY DEF ConnectInvalid, WriteBlockIndex, Written, EraseCandidate, chainVars, coinVars
<1>5. /\ status \in SUBSET Flags /\ nStatus[b] \subseteq status
      /\ status \cap BLOCK_FAILED_MASK # {}
      /\ "HAVE_UNDO" \in status => "VALID_SCRIPTS" \in status
  <2>1. nStatus[b] \in SUBSET Flags
    BY <1>2, <1>3 DEF Trees, InIndex
  <2>2. "HAVE_UNDO" \in nStatus[b] => "VALID_SCRIPTS" \in nStatus[b]
    BY <1>3 DEF WellFormed
  <2> QED
    BY <2>1, <2>2 DEF Flags, BLOCK_FAILED_MASK
<1>6. Ancestors[b] \cap BadConnect # {} /\ blockTree[b] \subseteq status
  BY <1>1, <1>3, <1>5, ChainFacts DEF Agree
<1> HIDE DEF status
<1>7. /\ WellFormed(nStatus') /\ InIndex(nStatus') = InIndex(nStatus)
      /\ \A x \in Blocks : nStatus[x] \subseteq nStatus'[x]
  BY <1>2, <1>3, <1>4, <1>5, <1>6, ConnectedEntry
<1>8. WellFormed(blockTree') /\ \A x \in Blocks : blockTree[x] \subseteq blockTree'[x]
  BY <1>3, <1>4, <1>5, <1>6, ConnectedEntry
<1>9. Agree(nStatus', blockTree')
  BY <1>3, <1>4 DEF Agree, Trees
<1>10. FailedIn(nStatus') = FailedIn(nStatus) \cup {b}
  BY <1>3, <1>4, <1>5 DEF FailedIn, Trees
<1>11. CandidatesExact' /\ mapBlockIndex' = mapBlockIndex
  BY <1>1, <1>4, <1>7, <1>10 DEF CandidatesExact, mapBlockIndex, Failed
<1>12. ~Stopped' /\ pc' # "assertFailed"
  BY <1>4 DEF Stopped
<1>13. MemoryInv'
  <2>1. Recoverable(nStatus', chainActive) /\ (~unsyncedFlush => Recoverable(nStatus', pcoinsTip))
    BY <1>1, <1>7, RecoverMono DEF TypeOK, MemoryInv
  <2> QED
    BY <1>1, <1>4, <1>7, <1>9, <1>11, <2>1 DEF MemoryInv
<1>14. DiskInv'
  BY <1>1, <1>4, <1>8 DEF DiskInv
<1>15. PowerLossSafe'
  <2>1. ASSUME ~unsyncedFlush, NEW c \in coinsDisk PROVE Recoverable(blockTree', c)
    BY <1>1, <1>8, <2>1, RecoverMono DEF PowerLossSafe, DiskInv, TypeOK
  <2> QED
    BY <1>1, <1>4, <2>1 DEF PowerLossSafe
<1>16. CoinsFollowTip' /\ ColdInv'
  BY <1>1, <1>4, <1>12 DEF CoinsFollowTip, ColdInv
<1> QED
  BY <1>11, <1>13, <1>14, <1>15, <1>16 DEF StateInv

-----------------------------------------------------------------------------
(* Start, stop and crash *)

LEMMA LoadStep ==
    ASSUME IInv, LoadBlockIndex
    PROVE  StateInv'
<1>1. TypeOK /\ DiskInv /\ PowerLossSafe /\ chainMostWork = NoBlock
  BY DEF IInv, StateInv, ColdInv, Stopped, LoadBlockIndex
<1>2. /\ nStatus' = blockTree /\ chainActive' = coinsDB /\ pcoinsTip' = coinsDB /\ pc' = "start"
      /\ setBlockIndexValid' = InIndex(blockTree) \ FailedIn(blockTree)
      /\ UNCHANGED <<chainMostWork, blockTree, blockTreeDisk, coinsDB, coinsDisk, unsyncedFlush>>
      /\ Recoverable(blockTree, coinsDB)
  BY DEF LoadBlockIndex, Loadable, LoadedTip, treeVars, coinVars
<1>3. CandidatesExact'
  BY <1>2 DEF CandidatesExact, mapBlockIndex, Failed
<1>4. Agree(blockTree, blockTree)
  BY DEF Agree
<1>5. MemoryInv'
  BY <1>1, <1>2, <1>4 DEF MemoryInv, DiskInv
<1>6. DiskInv' /\ PowerLossSafe' /\ CoinsFollowTip' /\ ColdInv'
  BY <1>1, <1>2 DEF DiskInv, PowerLossSafe, CoinsFollowTip, ColdInv, Stopped
<1> QED
  BY <1>3, <1>5, <1>6 DEF StateInv

\* An empty index, in memory or in a wiped database.
LEMMA EmptyFacts ==
    /\ InIndex(EmptyTree) = {} /\ FailedIn(EmptyTree) = {}
    /\ WellFormed(EmptyTree)
BY DEF EmptyTree, InIndex, FailedIn, WellFormed

\* A stopped process satisfies every invariant of the memory.
LEMMA StoppedStep ==
    ASSUME Stopped', ColdInv', DiskInv', PowerLossSafe', pc' # "assertFailed"
    PROVE  StateInv'
<1>1. /\ nStatus' = EmptyTree /\ setBlockIndexValid' = {} /\ chainActive' = NoBlock
      /\ chainMostWork' = NoBlock /\ pcoinsTip' = NoBlock
  BY DEF ColdInv
<1>2. CandidatesExact'
  BY <1>1, EmptyFacts DEF CandidatesExact, mapBlockIndex, Failed
<1>3. Recoverable(EmptyTree, NoBlock) /\ Valid(NoBlock)
  BY RecoverNone
<1>4. MemoryInv'
  BY <1>1, <1>3, EmptyFacts DEF MemoryInv
<1>5. CoinsFollowTip'
  BY <1>1 DEF CoinsFollowTip
<1> QED
  BY <1>2, <1>4, <1>5 DEF StateInv

LEMMA LoadFailsStep ==
    ASSUME IInv, LoadFails
    PROVE  StateInv'
<1>1. Stopped' /\ pc' # "assertFailed" /\ Stopped
  BY DEF LoadFails, Stopped
<1>2. ColdInv' /\ DiskInv' /\ PowerLossSafe'
  BY <1>1 DEF LoadFails, IInv, StateInv, ColdInv, DiskInv, PowerLossSafe,
              indexVars, chainVars, treeVars, coinVars
<1> QED
  BY <1>1, <1>2, StoppedStep

LEMMA ReindexStep ==
    ASSUME IInv, Reindex
    PROVE  StateInv'
<1>1. Stopped' /\ pc' # "assertFailed" /\ Stopped
  BY DEF Reindex, Stopped
<1>2. ColdInv'
  BY <1>1 DEF Reindex, IInv, StateInv, ColdInv, indexVars, chainVars
<1>3. DiskInv' /\ PowerLossSafe'
  BY EmptyFacts, RecoverNone DEF Reindex, DiskInv, PowerLossSafe
<1> QED
  BY <1>1, <1>2, <1>3, StoppedStep

\* Kill, PowerLoss and Shutdown leave a cold process.
LEMMA ColdStep ==
    ASSUME pc' = "down", Cold, DiskInv', PowerLossSafe'
    PROVE  StateInv'
<1>1. Stopped' /\ pc' # "assertFailed"
  BY DEF Stopped
<1>2. ColdInv'
  BY DEF Cold, ColdInv
<1> QED
  BY <1>1, <1>2, StoppedStep

\* Shutdown flushes the coins: safe if the index is on disk, and noted if not.
LEMMA ShutdownStep ==
    ASSUME IInv, Shutdown
    PROVE  StateInv'
<1>1. TypeOK /\ DiskInv /\ MemoryInv /\ PowerLossSafe /\ ~Stopped
  BY DEF IInv, StateInv, Shutdown, Stopped
<1>2. /\ pc' = "down" /\ Cold
      /\ UNCHANGED <<blockTree, blockTreeDisk>>
      /\ coinsDB' = pcoinsTip /\ coinsDisk' = coinsDisk \cup {pcoinsTip}
      /\ unsyncedFlush' = (unsyncedFlush \/ blockTreeDisk # {blockTree})
  BY DEF Shutdown, treeVars
<1>3. DiskInv'
  BY <1>1, <1>2 DEF DiskInv, MemoryInv
<1>4. PowerLossSafe'
  <2> SUFFICES ASSUME ~unsyncedFlush'
               PROVE  \A t \in blockTreeDisk', c \in coinsDisk' : Recoverable(t, c)
    BY DEF PowerLossSafe
  <2>1. ~unsyncedFlush /\ blockTreeDisk = {blockTree}
    BY <1>2
  <2>2. Recoverable(blockTree, pcoinsTip)
    BY <1>1, <2>1, AgreeRecover DEF TypeOK, MemoryInv
  <2> QED
    BY <1>1, <1>2, <2>1, <2>2 DEF PowerLossSafe
<1> QED
  BY <1>2, <1>3, <1>4, ColdStep

LEMMA KillStep ==
    ASSUME IInv, Kill
    PROVE  StateInv'
<1>1. pc' = "down" /\ Cold /\ DiskInv' /\ PowerLossSafe'
  BY DEF Kill, IInv, StateInv, DiskInv, PowerLossSafe, treeVars, coinVars
<1> QED
  BY <1>1, ColdStep

LEMMA PowerLossStep ==
    ASSUME IInv, PowerLoss
    PROVE  StateInv'
<1>1. /\ pc' = "down" /\ Cold /\ unsyncedFlush' = unsyncedFlush
      /\ blockTree' \in blockTreeDisk /\ blockTreeDisk' = {blockTree'}
      /\ coinsDB' \in coinsDisk /\ coinsDisk' = {coinsDB'}
  BY DEF PowerLoss
<1>2. DiskInv /\ PowerLossSafe
  BY DEF IInv, StateInv
<1>3. DiskInv'
  BY <1>1, <1>2 DEF DiskInv
<1>4. PowerLossSafe'
  BY <1>1, <1>2 DEF PowerLossSafe
<1> QED
  BY <1>1, <1>3, <1>4, ColdStep

-----------------------------------------------------------------------------
(* ProcessBlock's locals *)

LEMMA IndexGrows ==
    ASSUME \A x \in Blocks : nStatus[x] \subseteq nStatus'[x]
    PROVE  mapBlockIndex \subseteq mapBlockIndex'
BY DEF mapBlockIndex, InIndex

LEMMA CallFrame ==
    ASSUME IInv, mapBlockIndex \subseteq mapBlockIndex', UNCHANGED <<accepting, vWorkQueue>>
    PROVE  CallInv'
BY DEF IInv, CallInv

\* Return queues only the block that was just accepted.
LEMMA CallReturn ==
    ASSUME IInv, mapBlockIndex \subseteq mapBlockIndex', NEW ok \in BOOLEAN, Return(ok)
    PROVE  CallInv'
<1>1. accepting' = accepting \/ accepting' = NoBlock
  BY DEF Return
<1>2. \/ vWorkQueue' = vWorkQueue
      \/ vWorkQueue' = <<>>
      \/ accepting # NoBlock /\ vWorkQueue' = <<accepting>>
      \/ accepting # NoBlock /\ vWorkQueue' = Append(vWorkQueue, accepting)
  BY BlocksAssumption DEF Return, Push, IInv, TypeOK
<1>3. vWorkQueue \in Seq(Blocks) /\ (accepting # NoBlock => accepting \in Blocks) /\ CallInv
  BY DEF IInv, TypeOK
<1>4. \A i \in 1..Len(vWorkQueue') : vWorkQueue'[i] \in mapBlockIndex'
  <2>1. CASE vWorkQueue' = vWorkQueue
    BY <1>3, <2>1 DEF CallInv
  <2>2. CASE vWorkQueue' = <<>>
    BY <2>2
  <2>3. CASE accepting # NoBlock /\ vWorkQueue' = <<accepting>>
    BY <1>3, <2>3 DEF CallInv
  <2>4. CASE accepting # NoBlock /\ vWorkQueue' = Append(vWorkQueue, accepting)
    BY <1>3, <2>4 DEF CallInv
  <2> QED
    BY <1>2, <2>1, <2>2, <2>3, <2>4
<1> QED
  BY <1>1, <1>3, <1>4 DEF CallInv

LEMMA CallStep == IInv /\ [Next]_vars => CallInv'
<1> SUFFICES ASSUME IInv, [Next]_vars PROVE CallInv'
  OBVIOUS
<1>1. nStatus \in Trees /\ CallInv
  BY DEF IInv, TypeOK
<1>2. ASSUME UNCHANGED nStatus PROVE mapBlockIndex \subseteq mapBlockIndex'
  BY <1>2 DEF mapBlockIndex, InIndex
<1>3. ASSUME NEW b \in Blocks, AddToBlockIndex(b), UNCHANGED vWorkQueue PROVE CallInv'
  <2>1. nStatus' = [nStatus EXCEPT ![b] = {"HAVE_DATA"}] /\ accepting' = b
    BY <1>3 DEF AddToBlockIndex
  <2>2. mapBlockIndex \cup {b} \subseteq mapBlockIndex'
    BY <1>1, <2>1 DEF mapBlockIndex, InIndex, Trees
  <2> QED
    BY <1>1, <1>3, <2>1, <2>2 DEF CallInv
<1>4. ASSUME Cold PROVE CallInv'
  BY <1>4 DEF Cold, CallInv
<1>5. ASSUME NEW b \in Blocks, ProcessOrphan(b) \/ ProcessReject(b) \/ ProcessDiskFull(b) PROVE CallInv'
  BY <1>2, <1>5, CallFrame DEF ProcessOrphan, ProcessReject, ProcessDiskFull, vars, indexVars, callVars
<1>6. ASSUME NEW b \in Blocks, ProcessAccept(b) \/ OrphanAccept(b) PROVE CallInv'
  BY <1>3, <1>6 DEF ProcessAccept, OrphanAccept
<1>7. ASSUME NEW o \in Blocks, OrphanReject(o) PROVE CallInv'
  BY <1>2, <1>7, CallFrame DEF OrphanReject, indexVars
<1>8. CASE OrphanNext
  <2>1. UNCHANGED <<nStatus, accepting>>
    BY <1>8 DEF OrphanNext, indexVars
  <2>2. vWorkQueue' = vWorkQueue \/ (vWorkQueue # <<>> /\ vWorkQueue' = Tail(vWorkQueue))
    BY <1>8 DEF OrphanNext
  <2>3. vWorkQueue \in Seq(Blocks)
    BY DEF IInv, TypeOK
  <2>4. \A i \in 1..Len(vWorkQueue') : vWorkQueue'[i] \in mapBlockIndex
    <3>1. CASE vWorkQueue' = vWorkQueue
      BY <1>1, <3>1 DEF CallInv
    <3>2. CASE vWorkQueue # <<>> /\ vWorkQueue' = Tail(vWorkQueue)
      BY <1>1, <2>3, <3>2 DEF CallInv
    <3> QED
      BY <2>2, <3>1, <3>2
  <2> QED
    BY <1>1, <1>2, <2>1, <2>4 DEF CallInv
<1>9. CASE ActivateStart \/ PopInvalid \/ CandidateFound \/ AssertionFails
  BY <1>2, <1>9, CallFrame DEF ActivateStart, PopInvalid, CandidateFound, AssertionFails, indexVars
<1>10. CASE CandidateInvalid
  <2>1. \A x \in Blocks : nStatus[x] \subseteq nStatus'[x]
    BY <1>10 DEF CandidateInvalid
  <2>2. UNCHANGED <<accepting, vWorkQueue>>
    BY <1>10 DEF CandidateInvalid, callVars
  <2> QED
    BY <2>1, <2>2, IndexGrows, CallFrame
<1>11. CASE DisconnectTip
  <2>1. UNCHANGED nStatus /\ (UNCHANGED <<accepting, vWorkQueue>> \/ Return(FALSE))
    BY <1>11 DEF DisconnectTip, indexVars, callVars
  <2> QED
    BY <1>2, <2>1, CallFrame, CallReturn
<1>12. ASSUME NEW b \in Blocks, ConnectTip(b) PROVE CallInv'
  <2>1. nStatus' = [nStatus EXCEPT ![b] = ConnectedStatus(b)] /\ nStatus[b] \subseteq ConnectedStatus(b)
    BY <1>12 DEF ConnectTip, ConnectedStatus
  <2>2. \A x \in Blocks : nStatus[x] \subseteq nStatus'[x]
    BY <1>1, <2>1 DEF Trees
  <2>3. UNCHANGED <<accepting, vWorkQueue>> \/ Return(FALSE)
    BY <1>12 DEF ConnectTip, callVars
  <2> QED
    BY <2>2, <2>3, IndexGrows, CallFrame, CallReturn
<1>13. ASSUME NEW b \in Blocks, ConnectUndoDiskFull(b) PROVE CallInv'
  BY <1>2, <1>13, CallReturn DEF ConnectUndoDiskFull, indexVars
<1>14. ASSUME NEW b \in Blocks, ConnectInvalid(b) PROVE CallInv'
  <2>1. \A x \in Blocks : nStatus[x] \subseteq nStatus'[x]
    BY <1>1, <1>14 DEF ConnectInvalid, Trees
  <2>2. UNCHANGED <<accepting, vWorkQueue>>
    BY <1>14 DEF ConnectInvalid
  <2> QED
    BY <2>1, <2>2, IndexGrows, CallFrame
<1>15. CASE ActivateDone
  BY <1>2, <1>15, CallReturn DEF ActivateDone, indexVars
<1>16. CASE LoadBlockIndex
  <2>1. accepting' = NoBlock /\ vWorkQueue' = <<>>
    BY <1>16 DEF LoadBlockIndex, IInv, StateInv, ColdInv, Stopped
  <2> QED
    BY <2>1 DEF CallInv
<1>17. CASE InitBlockIndex
  BY <1>3, <1>17, BlocksAssumption DEF InitBlockIndex
<1>18. CASE LoadFails \/ Reindex
  BY <1>2, <1>18, CallFrame DEF LoadFails, Reindex, indexVars
<1>19. CASE Shutdown \/ Kill \/ PowerLoss
  BY <1>4, <1>19 DEF Shutdown, Kill, PowerLoss
<1>20. CASE UNCHANGED vars
  BY <1>2, <1>20, CallFrame DEF vars, indexVars, callVars
<1> QED
  BY <1>5, <1>6, <1>7, <1>8, <1>9, <1>10, <1>11, <1>12, <1>13, <1>14, <1>15, <1>16, <1>17, <1>18,
     <1>19, <1>20 DEF Next, NodeStep, Environment

-----------------------------------------------------------------------------
(* The inductive invariant *)

LEMMA InitInv == Init => IInv
<1> SUFFICES ASSUME Init PROVE IInv
  OBVIOUS
<1>1. TypeOK
  BY InitType
<1>2. CallInv /\ ColdInv
  BY DEF Init, CallInv, ColdInv
<1>3. DiskInv /\ PowerLossSafe /\ CoinsFollowTip
  BY EmptyFacts, RecoverNone DEF Init, DiskInv, PowerLossSafe, CoinsFollowTip
<1>4. CandidatesExact
  BY EmptyFacts DEF Init, CandidatesExact, mapBlockIndex, Failed
<1>5. MemoryInv
  BY EmptyFacts, RecoverNone DEF Init, MemoryInv, Stopped
<1> QED
  BY <1>1, <1>2, <1>3, <1>4, <1>5 DEF IInv, StateInv

\* The parent of an orphan that is taken from the queue is indexed.
LEMMA OrphanParent ==
    ASSUME IInv, NEW o \in Blocks, OrphanAccept(o)
    PROVE  Prev[o] \in mapBlockIndex /\ o \notin mapBlockIndex
<1>1. vWorkQueue \in Seq(Blocks) /\ vWorkQueue # <<>> /\ Prev[o] = Head(vWorkQueue)
  BY DEF OrphanAccept, Dependents, IInv, TypeOK
<1>2. Head(vWorkQueue) = vWorkQueue[1] /\ 1 \in 1..Len(vWorkQueue)
  BY <1>1
<1> QED
  BY <1>1, <1>2 DEF OrphanAccept, IInv, CallInv

LEMMA StateStep == IInv /\ [Next]_vars => StateInv'
<1> SUFFICES ASSUME IInv, [Next]_vars PROVE StateInv'
  OBVIOUS
<1>1. ASSUME NEW b \in Blocks, ProcessOrphan(b) PROVE StateInv'
  <2>1. ~Stopped /\ UNCHANGED <<pc, fRequestShutdown>>
    BY <1>1 DEF ProcessOrphan, callVars, Stopped
  <2> QED
    BY <1>1, <2>1, FrameStep DEF ProcessOrphan, indexVars, chainVars, Stopped
<1>2. ASSUME NEW b \in Blocks, ProcessAccept(b) PROVE StateInv'
  <2>1. /\ ~Stopped /\ b \notin mapBlockIndex /\ Prev[b] \in mapBlockIndex /\ AddToBlockIndex(b)
        /\ UNCHANGED <<chainVars, fRequestShutdown, coinVars, unsyncedFlush>>
    BY <1>2 DEF ProcessAccept, NewBlock, HavePrev, Stopped
  <2> QED
    BY <2>1, AcceptStep
<1>3. ASSUME NEW b \in Blocks, ProcessDiskFull(b) PROVE StateInv'
  BY <1>3, FrameStep DEF ProcessDiskFull, indexVars, chainVars, Stopped
<1>4. ASSUME NEW o \in Blocks, OrphanAccept(o) PROVE StateInv'
  <2>1. /\ ~Stopped /\ AddToBlockIndex(o)
        /\ UNCHANGED <<chainVars, fRequestShutdown, coinVars, unsyncedFlush>>
    BY <1>4 DEF OrphanAccept, Stopped
  <2> QED
    BY <1>4, <2>1, OrphanParent, AcceptStep
<1>5. ASSUME NEW o \in Blocks, OrphanReject(o) PROVE StateInv'
  BY <1>5, FrameStep DEF OrphanReject, indexVars, chainVars, Stopped
<1>6. CASE OrphanNext
  BY <1>6, FrameStep DEF OrphanNext, indexVars, chainVars, Stopped
<1>7. CASE ActivateStart
  BY <1>7, FrameStep DEF ActivateStart, indexVars, chainVars, Stopped
<1>8. ASSUME NEW b \in Blocks, ConnectUndoDiskFull(b) PROVE StateInv'
  <2>1. Return(FALSE) /\ ~Stopped
    BY <1>8 DEF ConnectUndoDiskFull, IsNext, Stopped
  <2>2. ~Stopped' /\ pc' # "assertFailed"
    BY <2>1, ReturnRuns
  <2> QED
    BY <1>8, <2>1, <2>2, FrameStep DEF ConnectUndoDiskFull, indexVars, chainVars
<1>9. CASE AssertionFails
  BY <1>9, FrameStep DEF AssertionFails, indexVars, chainVars, Stopped
<1>10. CASE ActivateDone
  <2>1. Return(TRUE) /\ ~Stopped
    BY <1>10 DEF ActivateDone, Stopped
  <2>2. ~Stopped' /\ pc' # "assertFailed"
    BY <2>1, ReturnRuns
  <2> QED
    BY <1>10, <2>1, <2>2, FrameStep DEF ActivateDone, indexVars, chainVars
<1>11. CASE UNCHANGED vars
  BY <1>11 DEF IInv, StateInv, CandidatesExact, ColdInv, DiskInv, MemoryInv, PowerLossSafe, CoinsFollowTip,
       mapBlockIndex, Failed, Stopped, vars, indexVars, chainVars, callVars, treeVars, coinVars
<1>12. ASSUME NEW b \in Blocks, ProcessReject(b) PROVE StateInv'
  BY <1>11, <1>12 DEF ProcessReject
<1> QED
  BY <1>1, <1>2, <1>3, <1>4, <1>5, <1>6, <1>7, <1>8, <1>9, <1>10, <1>11, <1>12,
     PopInvalidStep, CandidateInvalidStep, CandidateFoundStep, DisconnectStep, ConnectStep,
     ConnectInvalidStep, LoadStep, InitBlockIndexStep, LoadFailsStep, ReindexStep, ShutdownStep,
     KillStep, PowerLossStep
     DEF Next, NodeStep, Environment

LEMMA Invariance == Spec => []IInv
<1>1. IInv /\ [Next]_vars => IInv'
  BY TypeStep, CallStep, StateStep DEF IInv
<1> QED
  BY <1>1, InitInv, PTL DEF Spec

-----------------------------------------------------------------------------
(* The results *)

\* Every variable keeps its type; a flag is only ever set on an indexed block.
THEOREM TypeCorrect == Spec => []TypeOK
<1>1. IInv => TypeOK
  BY DEF IInv
<1> QED
  BY <1>1, Invariance, PTL

\* setBlockIndexValid always holds exactly the indexed blocks that are not known
\* to be invalid, through reorganisations, invalid forks, crashes and restarts.
THEOREM CandidatesCorrect == Spec => []CandidatesExact
<1>1. IInv => CandidatesExact
  BY DEF IInv, StateInv
<1> QED
  BY <1>1, Invariance, PTL

\* Every block of the active chain was connected, has undo data and is valid.
THEOREM ActiveChainCorrect == Spec => []ActiveChainValid
<1>1. IInv => ActiveChainValid
  <2> SUFFICES ASSUME IInv, NEW a \in Ancestors[chainActive]
               PROVE  /\ a \notin Failed \cup BadConnect
                      /\ a # Genesis => {"HAVE_UNDO", "VALID_SCRIPTS"} \subseteq nStatus[a]
    BY DEF ActiveChainValid
  <2>1. chainActive \in Blocks /\ a \in Blocks /\ Ancestors[a] \subseteq Ancestors[chainActive]
    BY TreeAssumption DEF IInv, TypeOK
  <2>2. Valid(chainActive) /\ Recoverable(nStatus, chainActive) /\ WellFormed(nStatus)
    BY DEF IInv, StateInv, MemoryInv
  <2>3. a \notin BadConnect /\ Ancestors[a] \cap BadConnect = {}
    BY <2>1, <2>2 DEF Valid
  <2>4. a \notin Failed
    BY <2>2, <2>3 DEF WellFormed, Failed
  <2>5. a # Genesis => {"HAVE_UNDO", "VALID_SCRIPTS"} \subseteq nStatus[a]
    BY <2>1, <2>2 DEF Recoverable, WellFormed
  <2> QED
    BY <2>3, <2>4, <2>5
<1> QED
  BY <1>1, Invariance, PTL

\* Whatever a power loss leaves of the two databases, the index can read and undo
\* the whole chain of the coins, unless Shutdown flushed them out of order.
THEOREM PowerLossCorrect == Spec => []PowerLossSafe
<1>1. IInv => PowerLossSafe
  BY DEF IInv, StateInv
<1> QED
  BY <1>1, Invariance, PTL

\* A restart never finds an entry of the index without its parent.
THEOREM IndexCorrect == Spec => []IndexParentClosed
<1>1. IInv => IndexParentClosed
  <2> SUFFICES ASSUME IInv, NEW t \in blockTreeDisk, NEW b \in InIndex(t) \ {Genesis}
               PROVE  Prev[b] \in InIndex(t)
    BY DEF IndexParentClosed
  <2>1. WellFormed(t) /\ b \in Blocks
    BY DEF IInv, StateInv, DiskInv, InIndex
  <2>2. Prev[b] \in Blocks
    BY <2>1, BlocksAssumption
  <2>3. Prev[b] \in Ancestors[b]
    BY <2>1, <2>2, ChainFacts
  <2> QED
    BY <2>1, <2>3 DEF WellFormed
<1> QED
  BY <1>1, Invariance, PTL

\* The coins belong to the active tip, and so the assertions of ConnectBlock and
\* DisconnectBlock hold, except after a full disk or an unsynced shutdown.
THEOREM CoinsCorrect == Spec => []CoinsFollowTip
<1>1. IInv => CoinsFollowTip
  BY DEF IInv, StateInv
<1> QED
  BY <1>1, Invariance, PTL

-----------------------------------------------------------------------------
(***************************************************************************)
(* Which chain is chosen, and what happens to orphans.                     *)
(*                                                                         *)
(* The chain is the best one because FindMostWorkChain compares with all   *)
(* candidates, and these are all blocks not known to be invalid; whatever  *)
(* happens after that, chainMostWork is left either for the comparison to  *)
(* be made again, or when it has been reached (Chosen).  No orphan is      *)
(* stranded because a block whose orphans have not been looked at is being *)
(* accepted, or in the work queue (Waiting).                               *)
(***************************************************************************)

\* b has at least the work of every indexed chain that would connect.
MostWork(b) ==
    /\ b \in Blocks
    /\ \A c \in mapBlockIndex : Valid(c) => ChainWork[c] <= ChainWork[b]

\* b sorts no lower than a, but for addresses.
NoBetter(a, b) ==
    \/ ChainWork[a] < ChainWork[b]
    \/ ChainWork[a] = ChainWork[b] /\ nSequenceId[b] <= nSequenceId[a]

Chosen ==
    /\ pc = "reorg" => /\ MostWork(chainMostWork)
                       /\ MustDisconnect => NoBetter(chainActive, chainMostWork)
    /\ pc \in {"idle", "orphans"} /\ ~fRequestShutdown => MostWork(chainActive)

SelectionInv == IInv /\ Chosen

-----------------------------------------------------------------------------
(* The choice of a chain *)

\* Two chains that contain each other's tip are the same.
LEMMA SameTip ==
  ASSUME NEW a \in Blocks, NEW b \in Blocks, a \in Ancestors[b], b \in Ancestors[a]
  PROVE  a = b
<1> SUFFICES ASSUME a # b PROVE FALSE
  OBVIOUS
<1>1. a \in Ancestors[Prev[b]] /\ Prev[b] \in Blocks \cup {NoBlock} /\ b \notin Ancestors[Prev[b]]
  BY ChainFacts
<1>2. Prev[b] \in Blocks
  BY <1>1, TreeAssumption
<1> QED
  BY <1>1, <1>2, TreeAssumption

\* The steps that leave alone what is compared.
LEMMA ChosenFrame ==
  ASSUME SelectionInv, UNCHANGED <<mapBlockIndex, nSequenceId, chainActive, chainMostWork>>,
         pc' = "reorg" => pc = "reorg",
         pc' \in {"idle", "orphans"} /\ ~fRequestShutdown' => pc \in {"idle", "orphans"} /\ ~fRequestShutdown
  PROVE  Chosen'
  BY DEF SelectionInv, Chosen, MostWork, NoBetter, MustDisconnect

\* No claim is made while the comparison is still to be made.
LEMMA ChosenLater ==
  ASSUME pc' \notin {"reorg", "idle", "orphans"}
  PROVE  Chosen'
  BY DEF Chosen

\* After a system error there is none either.
LEMMA ChosenError ==
  ASSUME pc' # "reorg", fRequestShutdown'
  PROVE  Chosen'
  BY DEF Chosen

\* The tip is a candidate.
LEMMA TipIsCandidate ==
  ASSUME IInv, chainActive # NoBlock
  PROVE  chainActive \in setBlockIndexValid
<1>1. chainActive \in Blocks /\ chainActive \in Ancestors[chainActive]
  BY ChainFacts DEF IInv, TypeOK
<1>2. WellFormed(nStatus) /\ Valid(chainActive) /\ Recoverable(nStatus, chainActive) /\ CandidatesExact
  BY DEF IInv, StateInv, MemoryInv
<1>3. chainActive \in mapBlockIndex
  BY <1>1, <1>2 DEF Recoverable, mapBlockIndex, InIndex
<1>4. chainActive \notin Failed
  BY <1>1, <1>2 DEF WellFormed, Failed, Valid
<1> QED
  BY <1>2, <1>3, <1>4 DEF CandidatesExact

\* The comparison.
LEMMA CandidateChosen ==
  ASSUME SelectionInv, CandidateFound
  PROVE  Chosen'
<1>1. PICK b \in setBlockIndexValid :
          /\ IsBestCandidate(b)
          /\ chainMostWork' = IF chainMostWork # NoBlock /\ ~WorkLess(chainMostWork, b)
                              THEN chainMostWork ELSE b
  BY DEF CandidateFound
<1>2. /\ UNCHANGED <<mapBlockIndex, nSequenceId, chainActive>> /\ pc' = "reorg"
      /\ b \in Blocks /\ chainMostWork \in Blocks \cup {NoBlock} /\ chainActive \in Blocks \cup {NoBlock}
      /\ setBlockIndexValid \subseteq Blocks /\ nSequenceId \in [Blocks -> Nat] /\ addr \in [Blocks -> Nat]
  BY EnvAssumption DEF CandidateFound, indexVars, SelectionInv, IInv, TypeOK, mapBlockIndex, InIndex
<1>3. \A x \in Blocks : ChainWork[x] \in Nat /\ nSequenceId[x] \in Nat /\ addr[x] \in Nat
  BY <1>2, WorkAssumption
<1>4. chainMostWork' \in Blocks /\ NoBetter(b, chainMostWork')
  BY <1>1, <1>2, <1>3 DEF NoBetter, WorkLess
<1>5. ASSUME NEW c \in setBlockIndexValid PROVE NoBetter(c, chainMostWork')
  <2>1. c = b \/ WorkLess(c, b)
    BY <1>1, <1>5 DEF IsBestCandidate
  <2>2. NoBetter(c, b)
    BY <1>2, <1>3, <2>1 DEF NoBetter, WorkLess
  <2> QED
    BY <1>2, <1>3, <1>4, <2>2 DEF NoBetter
<1>6. ASSUME NEW c \in mapBlockIndex, Valid(c) PROVE c \in setBlockIndexValid
  BY <1>6 DEF SelectionInv, IInv, StateInv, CandidatesExact, MemoryInv, WellFormed, Failed, Valid
<1>7. MostWork(chainMostWork)'
  BY <1>2, <1>3, <1>4, <1>5, <1>6 DEF MostWork, NoBetter
<1>8. MustDisconnect' => NoBetter(chainActive, chainMostWork')
  BY <1>2, <1>5, TipIsCandidate DEF MustDisconnect, SelectionInv
<1> QED
  BY <1>2, <1>7, <1>8 DEF Chosen, NoBetter

\* Going back one block: the chain to be left has less work than before.
LEMMA DisconnectChosen ==
  ASSUME SelectionInv, DisconnectTip
  PROVE  Chosen'
<1>1. UNCHANGED <<mapBlockIndex, nSequenceId, chainMostWork>> /\ pc = "reorg" /\ MustDisconnect
  BY DEF DisconnectTip, indexVars, mapBlockIndex, InIndex
<1>2. chainActive \in Blocks /\ chainMostWork \in Blocks /\ MostWork(chainMostWork)
      /\ NoBetter(chainActive, chainMostWork)
  BY <1>1 DEF SelectionInv, IInv, TypeOK, MustDisconnect, Chosen
<1>3. CASE chainActive' = Prev[chainActive] /\ UNCHANGED callVars
  <2>1. chainActive' \in Blocks \cup {NoBlock} /\ ChainWork[chainActive'] < ChainWork[chainActive]
    BY <1>2, <1>3, BlocksAssumption, WorkAssumption
  <2>2. ChainWork[chainActive'] \in Nat /\ ChainWork[chainActive] \in Nat /\ ChainWork[chainMostWork] \in Nat
    BY <1>2, <2>1, WorkAssumption
  <2>3. NoBetter(chainActive, chainMostWork)'
    BY <1>1, <1>2, <2>1, <2>2 DEF NoBetter
  <2> QED
    BY <1>1, <1>2, <1>3, <2>3 DEF Chosen, MostWork, callVars
<1>4. CASE fRequestShutdown' /\ Return(FALSE)
  BY <1>4, ChosenError DEF Return
<1> QED
  BY <1>3, <1>4 DEF DisconnectTip, WriteChainStateDiskFull

\* Connecting a block of the chosen chain: nothing has to be disconnected now.
LEMMA ConnectChosen ==
  ASSUME SelectionInv, NEW b \in Blocks, ConnectTip(b)
  PROVE  Chosen'
<1>1. nStatus \in Trees /\ pc = "reorg" /\ b \in Ancestors[chainMostWork] /\ UNCHANGED <<nSequenceId, chainMostWork>>
  BY DEF SelectionInv, IInv, TypeOK, ConnectTip, IsNext
<1>2. CASE chainActive' = b /\ UNCHANGED callVars
  <2>1. nStatus[b] # {}
    BY <1>1, NextIndexed DEF SelectionInv, ConnectTip, mapBlockIndex, InIndex
  <2>2. nStatus' = [nStatus EXCEPT ![b] = ConnectedStatus(b)] /\ nStatus[b] \subseteq ConnectedStatus(b)
    BY DEF ConnectTip, ConnectedStatus
  <2>3. mapBlockIndex' = mapBlockIndex
    BY <1>1, <2>1, <2>2 DEF mapBlockIndex, InIndex, Trees
  <2>4. ~MustDisconnect'
    BY <1>1, <1>2 DEF MustDisconnect
  <2> QED
    BY <1>1, <1>2, <2>3, <2>4 DEF SelectionInv, Chosen, MostWork, callVars
<1>3. CASE fRequestShutdown' /\ Return(FALSE)
  BY <1>3, ChosenError DEF Return
<1> QED
  BY <1>2, <1>3 DEF ConnectTip, WriteChainStateDiskFull

\* The end: the chosen chain is the active one.
LEMMA DoneChosen ==
  ASSUME SelectionInv, ActivateDone
  PROVE  Chosen'
<1>1. MostWork(chainMostWork) /\ chainMostWork \in Ancestors[chainActive] \cup {NoBlock} /\ ~MustDisconnect
      /\ pc = "reorg" /\ chainActive \in Blocks \cup {NoBlock}
  BY DEF SelectionInv, Chosen, ActivateDone, IInv, TypeOK
<1>2. chainActive = chainMostWork
  BY <1>1, SameTip, BlocksAssumption, TreeAssumption DEF MostWork, MustDisconnect
<1>3. UNCHANGED <<mapBlockIndex, chainActive>> /\ pc' # "reorg"
  BY DEF ActivateDone, indexVars, chainVars, Return, mapBlockIndex, InIndex
<1> QED
  BY <1>1, <1>2, <1>3 DEF Chosen, MostWork

\* The index stays as it is.
LEMMA SameIndex == UNCHANGED nStatus => UNCHANGED mapBlockIndex
  BY DEF mapBlockIndex, InIndex

LEMMA ChosenStep == SelectionInv /\ [Next]_vars => Chosen'
<1> SUFFICES ASSUME SelectionInv, [Next]_vars PROVE Chosen'
  OBVIOUS
<1>1. ASSUME NEW b \in Blocks, ProcessOrphan(b) \/ ProcessDiskFull(b) PROVE Chosen'
  BY <1>1, SameIndex, ChosenFrame DEF ProcessOrphan, ProcessDiskFull, indexVars, chainVars, callVars
<1>2. ASSUME NEW b \in Blocks, ProcessAccept(b) \/ OrphanAccept(b) PROVE Chosen'
  BY <1>2, ChosenLater DEF ProcessAccept, OrphanAccept, AddToBlockIndex
<1>3. ASSUME NEW o \in Blocks, OrphanReject(o) PROVE Chosen'
  BY <1>3, SameIndex, ChosenFrame, ChosenError DEF OrphanReject, indexVars, chainVars
<1>4. CASE OrphanNext
  BY <1>4, SameIndex, ChosenFrame DEF OrphanNext, indexVars, chainVars
<1>5. CASE ActivateStart \/ PopInvalid \/ CandidateInvalid \/ AssertionFails
  BY <1>5, ChosenLater DEF ActivateStart, PopInvalid, CandidateInvalid, AssertionFails, callVars
<1>6. ASSUME NEW b \in Blocks, ConnectUndoDiskFull(b) PROVE Chosen'
  BY <1>6, ChosenError DEF ConnectUndoDiskFull, Return
<1>7. ASSUME NEW b \in Blocks, ConnectInvalid(b) PROVE Chosen'
  BY <1>7, ChosenLater DEF ConnectInvalid
<1>8. CASE LoadBlockIndex \/ InitBlockIndex \/ LoadFails \/ Reindex \/ Shutdown \/ Kill \/ PowerLoss
  BY <1>8, ChosenLater DEF LoadBlockIndex, InitBlockIndex, AddToBlockIndex, LoadFails, Reindex,
     Shutdown, Kill, PowerLoss
<1>9. ASSUME UNCHANGED vars PROVE Chosen'
  BY <1>9, SameIndex, ChosenFrame DEF vars, indexVars, chainVars, callVars
<1>10. ASSUME NEW b \in Blocks, ProcessReject(b) PROVE Chosen'
  BY <1>9, <1>10 DEF ProcessReject
<1> QED
  BY <1>1, <1>2, <1>3, <1>4, <1>5, <1>6, <1>7, <1>8, <1>9, <1>10,
     CandidateChosen, DisconnectChosen, ConnectChosen, DoneChosen DEF Next, NodeStep, Environment

LEMMA AlwaysChosen == Spec => []SelectionInv
<1>1. Init => Chosen
  BY DEF Init, Chosen
<1>2. SelectionInv /\ IInv' /\ [Next]_vars => SelectionInv'
  BY ChosenStep DEF SelectionInv
<1> QED
  BY <1>1, <1>2, InitInv, Invariance, PTL DEF Spec, SelectionInv

\* After ProcessBlock no indexed chain that would connect has more work than the active
\* one, for every block tree, order of arrival and history of invalid forks and crashes.
THEOREM BestChainCorrect == Spec => []BestChainActive
<1>1. SelectionInv => BestChainActive
  BY BlocksAssumption DEF SelectionInv, Chosen, MostWork, Valid, BestChainActive
<1> QED
  BY <1>1, AlwaysChosen, PTL

\* ActivateBestChain gives up a block only for a chain with more work, or with as much
\* and received no later.
THEOREM ReorgCorrect == Spec => ReorgOnlyToBetter
<1>1. SelectionInv /\ [Next]_vars =>
        [DisconnectTip =>
          \/ ChainWork[chainActive] < ChainWork[chainMostWork]
          \/ /\ ChainWork[chainActive] = ChainWork[chainMostWork]
             /\ nSequenceId[chainMostWork] <= nSequenceId[chainActive]]_vars
  BY DEF SelectionInv, Chosen, NoBetter, DisconnectTip
<1> QED
  BY <1>1, AlwaysChosen, PTL DEF Spec, ReorgOnlyToBetter

-----------------------------------------------------------------------------
(* Orphans *)

Activating == pc \in {"start", "popInvalid", "candidate", "reorg"}

\* The orphans of b will be looked at.
WillBeTaken(b) == b = accepting \/ \E i \in 1..Len(vWorkQueue) : vWorkQueue[i] = b

\* The two maps; an orphan is only in the second while its group is worked on.
MapsInv ==
    /\ mapOrphanBlocks \subseteq mapOrphanBlocksByPrev
    /\ IsFiniteSet(mapOrphanBlocksByPrev)
    /\ Cardinality(mapOrphanBlocksByPrev) <= MaxOrphans + 1
    /\ \A o \in mapOrphanBlocksByPrev \ mapOrphanBlocks : vWorkQueue # <<>> /\ Prev[o] = Head(vWorkQueue)

\* Where a start, ProcessBlock and its loop over orphans are.
QueueInv ==
    /\ Stopped => mapOrphanBlocksByPrev = {}
    /\ pc \in {"idle", "orphans"} => accepting = NoBlock
    /\ pc # "orphans" /\ accepting \notin mapOrphanBlocks => vWorkQueue = <<>>
    /\ Activating /\ accepting \in {NoBlock, Genesis} => mapOrphanBlocksByPrev = {}
    /\ accepting \in mapOrphanBlocks => vWorkQueue # <<>> /\ Prev[accepting] = Head(vWorkQueue)

Waiting ==
    ~fRequestShutdown =>
        \A o \in mapOrphanBlocks : Prev[o] \in mapBlockIndex => o = accepting \/ WillBeTaken(Prev[o])

OrphanInv == MapsInv /\ QueueInv /\ Waiting

\* What the lemmas below need of the types.
LEMMA OrphanTypes ==
  ASSUME IInv, OrphanInv
  PROVE  /\ vWorkQueue \in Seq(Blocks) /\ accepting \in Blocks \cup {NoBlock} /\ NoBlock \notin Blocks
         /\ mapOrphanBlocks \subseteq Blocks /\ mapOrphanBlocksByPrev \subseteq Blocks
         /\ mapBlockIndex \subseteq Blocks /\ NoBlock \notin mapOrphanBlocks
         /\ Cardinality(mapOrphanBlocksByPrev) \in Nat
         /\ Genesis \in Blocks /\ Prev[Genesis] = NoBlock
  BY BlocksAssumption, FS_CardinalityType DEF IInv, TypeOK, mapBlockIndex, InIndex, OrphanInv, MapsInv

\* Fewer entries are no more.
LEMMA FewerOrphans ==
  ASSUME OrphanInv, mapOrphanBlocksByPrev' \subseteq mapOrphanBlocksByPrev
  PROVE  IsFiniteSet(mapOrphanBlocksByPrev') /\ Cardinality(mapOrphanBlocksByPrev') <= MaxOrphans + 1
<1>1. IsFiniteSet(mapOrphanBlocksByPrev') /\ Cardinality(mapOrphanBlocksByPrev') <= Cardinality(mapOrphanBlocksByPrev)
  BY FS_Subset DEF OrphanInv, MapsInv
<1> QED
  BY <1>1, FS_CardinalityType, EnvAssumption DEF OrphanInv, MapsInv

\* The steps that leave orphans, queue and index alone.
LEMMA OrphanFrame ==
  ASSUME OrphanInv, UNCHANGED <<mapBlockIndex, mapOrphanBlocks, mapOrphanBlocksByPrev, accepting, vWorkQueue>>,
         \/ pc' = pc
         \/ Activating /\ pc' \in {"start", "popInvalid", "candidate", "reorg", "assertFailed"}
         \/ Stopped /\ Stopped',
         fRequestShutdown => fRequestShutdown'
  PROVE  OrphanInv'
  BY DEF OrphanInv, MapsInv, QueueInv, Waiting, WillBeTaken, Activating, Stopped

\* Return hands over the block whose orphans are to be looked at.
LEMMA OrphanReturn ==
  ASSUME IInv, OrphanInv, Activating, NEW ok \in BOOLEAN, Return(ok), ~ok => fRequestShutdown',
         fRequestShutdown => fRequestShutdown', UNCHANGED mapBlockIndex
  PROVE  OrphanInv'
<1>1. mapOrphanBlocksByPrev' = mapOrphanBlocksByPrev
  BY DEF Return
<1>2. CASE accepting \in {NoBlock, Genesis}
  <2>1. mapOrphanBlocksByPrev = {} /\ mapOrphanBlocks = {} /\ vWorkQueue = <<>>
    BY <1>2 DEF OrphanInv, QueueInv, MapsInv, Activating
  <2>2. mapOrphanBlocks' = {} /\ vWorkQueue' = <<>> /\ accepting' = NoBlock
        /\ pc' \in {"idle", "exiting", "start"}
    BY <1>2, <2>1, BlocksAssumption DEF Return
  <2> QED
    BY <1>1, <2>1, <2>2, FewerOrphans DEF OrphanInv, MapsInv, QueueInv, Waiting, Stopped
<1>3. CASE accepting \in mapOrphanBlocks /\ accepting # Genesis
  <2>1. /\ pc' = "orphans" /\ accepting' = NoBlock /\ mapOrphanBlocks' = mapOrphanBlocks \ {accepting}
        /\ vWorkQueue' = IF ok THEN Append(vWorkQueue, accepting) ELSE vWorkQueue
    BY <1>3, OrphanTypes DEF Return, Push
  <2>2. vWorkQueue \in Seq(Blocks) /\ vWorkQueue # <<>> /\ Prev[accepting] = Head(vWorkQueue) /\ accepting \in Blocks
    BY <1>3, OrphanTypes DEF OrphanInv, QueueInv
  <2>3. vWorkQueue' # <<>> /\ Head(vWorkQueue') = Head(vWorkQueue)
    BY <2>1, <2>2
  <2>4. MapsInv'
    BY <1>1, <2>1, <2>2, <2>3, FewerOrphans DEF OrphanInv, MapsInv
  <2>5. ASSUME ok, NEW b, WillBeTaken(b) PROVE WillBeTaken(b)'
    <3>1. CASE b = accepting
      BY <2>1, <2>2, <2>5, <3>1 DEF WillBeTaken
    <3>2. CASE \E i \in 1..Len(vWorkQueue) : vWorkQueue[i] = b
      BY <2>1, <2>2, <2>5, <3>2 DEF WillBeTaken
    <3> QED
      BY <2>5, <3>1, <3>2 DEF WillBeTaken
  <2>6. Waiting'
    BY <2>1, <2>5 DEF OrphanInv, Waiting
  <2>7. QueueInv'
    BY <2>1, OrphanTypes DEF QueueInv, Activating, Stopped
  <2> QED
    BY <2>4, <2>6, <2>7 DEF OrphanInv
<1>4. CASE accepting \notin mapOrphanBlocks \cup {NoBlock, Genesis}
  <2>1. /\ pc' = (IF ok THEN "orphans" ELSE "idle") /\ accepting' = NoBlock /\ mapOrphanBlocks' = mapOrphanBlocks
        /\ vWorkQueue' = IF ok THEN <<accepting>> ELSE <<>>
    BY <1>4 DEF Return
  <2>2. vWorkQueue = <<>>
    BY <1>4 DEF OrphanInv, QueueInv, Activating
  <2>3. MapsInv'
    BY <1>1, <2>1, <2>2 DEF OrphanInv, MapsInv
  <2>4. ASSUME ok, NEW b, WillBeTaken(b) PROVE WillBeTaken(b)'
    BY <2>1, <2>2, <2>4 DEF WillBeTaken
  <2>5. Waiting'
    BY <1>4, <2>1, <2>4 DEF OrphanInv, Waiting
  <2>6. QueueInv'
    BY <2>1, OrphanTypes DEF QueueInv, Activating, Stopped
  <2> QED
    BY <2>3, <2>5, <2>6 DEF OrphanInv
<1>5. Genesis \notin mapOrphanBlocks \/ accepting # Genesis
  BY OrphanTypes DEF OrphanInv, QueueInv, MapsInv, Activating
<1> QED
  BY <1>2, <1>3, <1>4, <1>5, OrphanTypes

\* A block becomes an orphan: one may have been thrown out before.
LEMMA OrphanAdded ==
  ASSUME IInv, OrphanInv, NEW b \in Blocks, ProcessOrphan(b)
  PROVE  OrphanInv'
<1>1. pc = "idle" /\ accepting = NoBlock /\ vWorkQueue = <<>> /\ mapOrphanBlocksByPrev = mapOrphanBlocks
  BY OrphanTypes DEF ProcessOrphan, OrphanInv, QueueInv, MapsInv
<1>2. UNCHANGED <<mapBlockIndex, pc, accepting, vWorkQueue, fRequestShutdown>>
  BY SameIndex DEF ProcessOrphan, indexVars, callVars
<1>3. PICK pruned \in Prunable : /\ mapOrphanBlocks' = (mapOrphanBlocks \ pruned) \cup {b}
                                 /\ mapOrphanBlocksByPrev' = (mapOrphanBlocksByPrev \ pruned) \cup {b}
  BY DEF ProcessOrphan
<1>4. b \notin mapOrphanBlocks /\ Prev[b] \notin mapBlockIndex
  BY DEF ProcessOrphan, NewBlock, HavePrev
<1> DEFINE M == mapOrphanBlocksByPrev
<1>5. IsFiniteSet(M) /\ Cardinality(M) \in Nat /\ Cardinality(M) <= MaxOrphans + 1 /\ MaxOrphans \in Nat
  BY OrphanTypes, EnvAssumption DEF OrphanInv, MapsInv
<1>6. IsFiniteSet(M \ pruned) /\ Cardinality(M \ pruned) \in Nat /\ Cardinality(M \ pruned) <= MaxOrphans
  <2>1. CASE Cardinality(M) <= MaxOrphans
    <3>1. pruned = {}
      BY <2>1 DEF Prunable
    <3>2. M \ pruned = M
      BY <3>1
    <3> QED
      BY <1>5, <2>1, <3>2
  <2>2. CASE ~(Cardinality(M) <= MaxOrphans)
    <3>1. PICK o \in M : pruned = {o}
      BY <2>2 DEF Prunable
    <3>2. IsFiniteSet(M \ pruned) /\ Cardinality(M \ pruned) = Cardinality(M) - 1
      BY <1>5, <3>1, FS_RemoveElement
    <3>3. Cardinality(M \ pruned) \in Nat
      BY <3>2, FS_CardinalityType
    <3> QED
      BY <1>5, <3>2, <3>3
  <2> QED
    BY <2>1, <2>2
<1>7. IsFiniteSet(M') /\ Cardinality(M') = Cardinality(M \ pruned) + 1
  <2>1. b \notin M \ pruned
    BY <1>1, <1>4
  <2>2. IsFiniteSet((M \ pruned) \cup {b}) /\ Cardinality((M \ pruned) \cup {b}) = Cardinality(M \ pruned) + 1
    BY <1>6, <2>1, FS_AddElement
  <2> QED
    BY <1>3, <2>2
<1>8. MapsInv'
  BY <1>1, <1>3, <1>5, <1>6, <1>7 DEF MapsInv
<1>9. Waiting'
  BY <1>1, <1>2, <1>3, <1>4 DEF OrphanInv, Waiting, WillBeTaken
<1>10. QueueInv'
  BY <1>1, <1>2, <1>3, OrphanTypes DEF OrphanInv, QueueInv, Activating, Stopped
<1> QED
  BY <1>8, <1>9, <1>10 DEF OrphanInv

\* A block goes into the index: whoever waits for it waits for what is being accepted.
LEMMA OrphanIndexed ==
  ASSUME IInv, OrphanInv, NEW b \in Blocks, AddToBlockIndex(b), ~Activating,
         UNCHANGED <<mapOrphanBlocks, mapOrphanBlocksByPrev, vWorkQueue, fRequestShutdown>>,
         accepting = NoBlock,
         b \in mapOrphanBlocks => vWorkQueue # <<>> /\ Prev[b] = Head(vWorkQueue),
         b \notin mapOrphanBlocks => vWorkQueue = <<>>,
         b = Genesis => mapOrphanBlocksByPrev = {}
  PROVE  OrphanInv'
<1>1. accepting' = b /\ pc' = "start" /\ nStatus' = [nStatus EXCEPT ![b] = {"HAVE_DATA"}]
  BY DEF AddToBlockIndex
<1>2. mapBlockIndex' \subseteq mapBlockIndex \cup {b}
  BY <1>1 DEF mapBlockIndex, InIndex, IInv, TypeOK, Trees
<1>3. Waiting'
  BY <1>1, <1>2, OrphanTypes DEF OrphanInv, Waiting, WillBeTaken
<1>4. QueueInv'
  BY <1>1, OrphanTypes DEF QueueInv, Activating, Stopped
<1>5. MapsInv'
  BY DEF OrphanInv, MapsInv
<1> QED
  BY <1>3, <1>4, <1>5 DEF OrphanInv

LEMMA OrphanAcceptStep ==
  ASSUME IInv, OrphanInv, NEW b \in Blocks, ProcessAccept(b) \/ OrphanAccept(b)
  PROVE  OrphanInv'
<1>1. CASE ProcessAccept(b)
  <2>1. pc = "idle" /\ accepting = NoBlock /\ vWorkQueue = <<>> /\ b \notin mapOrphanBlocks /\ b # Genesis
    BY <1>1, OrphanTypes DEF ProcessAccept, NewBlock, HavePrev, OrphanInv, QueueInv
  <2> QED
    BY <1>1, <2>1, OrphanIndexed DEF ProcessAccept, Activating, orphanVars
<1>2. CASE OrphanAccept(b)
  <2>1. pc = "orphans" /\ accepting = NoBlock /\ vWorkQueue # <<>> /\ b \in mapOrphanBlocks /\ Prev[b] = Head(vWorkQueue)
    BY <1>2 DEF OrphanAccept, Dependents, OrphanInv, QueueInv
  <2>2. Head(vWorkQueue) \in Blocks /\ b # Genesis
    BY <2>1, OrphanTypes
  <2> QED
    BY <1>2, <2>1, <2>2, OrphanIndexed DEF OrphanAccept, Activating, orphanVars
<1> QED
  BY <1>1, <1>2

\* The orphan is dropped.
LEMMA OrphanRejectStep ==
  ASSUME IInv, OrphanInv, NEW o \in Blocks, OrphanReject(o)
  PROVE  OrphanInv'
<1>1. /\ pc = "orphans" /\ accepting = NoBlock /\ vWorkQueue # <<>> /\ Prev[o] = Head(vWorkQueue)
      /\ mapOrphanBlocks' = mapOrphanBlocks \ {o}
      /\ UNCHANGED <<mapBlockIndex, mapOrphanBlocksByPrev, pc, accepting, vWorkQueue>>
      /\ fRequestShutdown => fRequestShutdown'
  BY SameIndex DEF OrphanReject, Dependents, OrphanInv, QueueInv, indexVars
<1>2. MapsInv'
  BY <1>1 DEF OrphanInv, MapsInv
<1>3. QueueInv'
  BY <1>1, OrphanTypes DEF OrphanInv, QueueInv, Activating, Stopped
<1>4. Waiting'
  BY <1>1 DEF OrphanInv, Waiting, WillBeTaken
<1> QED
  BY <1>2, <1>3, <1>4 DEF OrphanInv

\* A group is done; nobody in it is left.
LEMMA OrphanNextStep ==
  ASSUME IInv, OrphanInv, OrphanNext
  PROVE  OrphanInv'
<1>1. /\ pc = "orphans" /\ accepting = NoBlock
      /\ UNCHANGED <<mapBlockIndex, mapOrphanBlocks, accepting, fRequestShutdown>>
  BY SameIndex DEF OrphanNext, OrphanInv, QueueInv, indexVars
<1>2. CASE vWorkQueue = <<>> /\ pc' = "idle" /\ UNCHANGED <<vWorkQueue, mapOrphanBlocksByPrev>>
  BY <1>1, <1>2, OrphanTypes DEF OrphanInv, MapsInv, QueueInv, Waiting, WillBeTaken, Activating, Stopped
<1>3. CASE /\ vWorkQueue # <<>> /\ Dependents = {} /\ pc' = pc /\ vWorkQueue' = Tail(vWorkQueue)
           /\ mapOrphanBlocksByPrev' = {o \in mapOrphanBlocksByPrev : Prev[o] # Head(vWorkQueue)}
  <2>1. \A o \in mapOrphanBlocks : Prev[o] # Head(vWorkQueue)
    BY <1>3 DEF Dependents, OrphanInv, MapsInv
  <2>2. mapOrphanBlocksByPrev' = mapOrphanBlocks
    BY <1>3, <2>1 DEF OrphanInv, MapsInv
  <2>3. MapsInv'
    BY <1>1, <1>3, <2>2, FewerOrphans DEF MapsInv
  <2>4. QueueInv'
    BY <1>1, <1>3, OrphanTypes DEF QueueInv, Activating, Stopped
  <2>5. ASSUME NEW o \in mapOrphanBlocks, WillBeTaken(Prev[o]), Prev[o] \in mapBlockIndex
        PROVE  WillBeTaken(Prev[o])'
    <3>1. PICK i \in 1..Len(vWorkQueue) : vWorkQueue[i] = Prev[o]
      BY <1>1, <2>5, OrphanTypes DEF WillBeTaken
    <3>2. i # 1
      BY <1>3, <2>1, <3>1, OrphanTypes
    <3>3. i - 1 \in 1..Len(vWorkQueue') /\ vWorkQueue'[i - 1] = Prev[o]
      BY <1>3, <3>1, <3>2, OrphanTypes
    <3> QED
      BY <3>3 DEF WillBeTaken
  <2>6. Waiting'
    BY <1>1, <2>5, OrphanTypes DEF OrphanInv, Waiting
  <2> QED
    BY <2>3, <2>4, <2>6 DEF OrphanInv
<1> QED
  BY <1>2, <1>3 DEF OrphanNext

\* Marking blocks invalid does not put any into the index.
LEMMA InvalidIndex ==
  ASSUME IInv, CandidateInvalid
  PROVE  UNCHANGED mapBlockIndex
<1>1. PICK b \in setBlockIndexValid, f \in Blocks :
         nStatus' = [c \in Blocks |-> IF c \in Ancestors[b] \ Ancestors[f] THEN nStatus[c] \cup {"FAILED_CHILD"} ELSE nStatus[c]]
  BY DEF CandidateInvalid
<1>2. Ancestors[b] \subseteq mapBlockIndex
  BY DEF IInv, StateInv, CandidatesExact, MemoryInv, WellFormed, mapBlockIndex
<1> QED
  BY <1>1, <1>2 DEF mapBlockIndex, InIndex

\* Nor does connecting one.
LEMMA ConnectIndex ==
  ASSUME IInv, NEW b \in Blocks, IsNext(b), NEW s, s # {}, nStatus' = [nStatus EXCEPT ![b] = s]
  PROVE  UNCHANGED mapBlockIndex
<1>1. b \in mapBlockIndex
  BY NextIndexed DEF mapBlockIndex
<1> QED
  BY <1>1 DEF mapBlockIndex, InIndex, IInv, TypeOK, Trees

LEMMA OrphanStep == IInv /\ OrphanInv /\ [Next]_vars => OrphanInv'
<1> SUFFICES ASSUME IInv, OrphanInv, [Next]_vars PROVE OrphanInv'
  OBVIOUS
<1>1. ASSUME NEW b \in Blocks, ProcessDiskFull(b) PROVE OrphanInv'
  BY <1>1, SameIndex, OrphanFrame DEF ProcessDiskFull, indexVars, orphanVars
<1>2. CASE ActivateStart \/ PopInvalid \/ CandidateFound \/ AssertionFails
  BY <1>2, SameIndex, OrphanFrame DEF ActivateStart, PopInvalid, CandidateFound, AssertionFails, indexVars, orphanVars, Activating
<1>3. CASE CandidateInvalid
  BY <1>3, InvalidIndex, OrphanFrame DEF CandidateInvalid, orphanVars, callVars
<1>4. CASE DisconnectTip
  <2>1. UNCHANGED mapBlockIndex /\ pc = "reorg"
    BY <1>4, SameIndex DEF DisconnectTip, indexVars
  <2>2. CASE UNCHANGED <<orphanVars, callVars>>
    BY <2>1, <2>2, OrphanFrame DEF orphanVars, callVars
  <2>3. CASE fRequestShutdown' /\ Return(FALSE)
    BY <2>1, <2>3, OrphanReturn DEF Activating
  <2> QED
    BY <1>4, <2>2, <2>3 DEF DisconnectTip, WriteChainStateDiskFull
<1>5. ASSUME NEW b \in Blocks, ConnectTip(b) PROVE OrphanInv'
  <2>1. nStatus' = [nStatus EXCEPT ![b] = ConnectedStatus(b)] /\ IsNext(b) /\ pc = "reorg"
    BY <1>5 DEF ConnectTip, IsNext
  <2>2. nStatus[b] # {} /\ nStatus[b] \subseteq ConnectedStatus(b)
    BY <2>1, NextIndexed DEF ConnectedStatus, mapBlockIndex, InIndex
  <2>3. UNCHANGED mapBlockIndex
    BY <2>1, <2>2, ConnectIndex
  <2>4. CASE UNCHANGED <<orphanVars, callVars>>
    BY <2>3, <2>4, OrphanFrame DEF orphanVars, callVars
  <2>5. CASE fRequestShutdown' /\ Return(FALSE)
    BY <2>1, <2>3, <2>5, OrphanReturn DEF Activating
  <2> QED
    BY <1>5, <2>4, <2>5 DEF ConnectTip, WriteChainStateDiskFull
<1>6. ASSUME NEW b \in Blocks, ConnectUndoDiskFull(b) PROVE OrphanInv'
  BY <1>6, SameIndex, OrphanReturn DEF ConnectUndoDiskFull, IsNext, indexVars, Activating
<1>7. ASSUME NEW b \in Blocks, ConnectInvalid(b) PROVE OrphanInv'
  <2>1. nStatus' = [nStatus EXCEPT ![b] = nStatus[b] \cup {"FAILED_VALID"}] /\ IsNext(b) /\ pc = "reorg" /\ pc' = "popInvalid"
    BY <1>7 DEF ConnectInvalid, IsNext
  <2>2. UNCHANGED mapBlockIndex
    BY <2>1, ConnectIndex
  <2> QED
    BY <1>7, <2>1, <2>2, OrphanFrame DEF ConnectInvalid, orphanVars, Activating
<1>8. CASE ActivateDone
  BY <1>8, SameIndex, OrphanReturn DEF ActivateDone, indexVars, Activating
<1>9. CASE LoadBlockIndex
  <2>1. pc = "down" /\ pc' = "start" /\ UNCHANGED <<mapOrphanBlocks, mapOrphanBlocksByPrev, accepting, vWorkQueue>>
    BY <1>9 DEF LoadBlockIndex, orphanVars
  <2>2. mapOrphanBlocks = {} /\ mapOrphanBlocksByPrev = {} /\ accepting = NoBlock /\ vWorkQueue = <<>>
    BY <2>1 DEF OrphanInv, QueueInv, MapsInv, Stopped, IInv, StateInv, ColdInv
  <2> QED
    BY <2>1, <2>2 DEF OrphanInv, MapsInv, QueueInv, Waiting, Activating, Stopped
<1>10. CASE InitBlockIndex
  <2>1. pc = "down" /\ Genesis \in Blocks
    BY <1>10, BlocksAssumption DEF InitBlockIndex
  <2>2. mapOrphanBlocks = {} /\ mapOrphanBlocksByPrev = {} /\ accepting = NoBlock /\ vWorkQueue = <<>>
    BY <2>1 DEF OrphanInv, QueueInv, MapsInv, Stopped, IInv, StateInv, ColdInv
  <2> QED
    BY <1>10, <2>1, <2>2, OrphanIndexed DEF InitBlockIndex, orphanVars, Activating
<1>11. CASE LoadFails \/ Reindex
  BY <1>11, SameIndex, OrphanFrame DEF LoadFails, Reindex, indexVars, orphanVars, Stopped
<1>12. CASE Shutdown \/ Kill \/ PowerLoss
  <2>1. Cold /\ pc' = "down"
    BY <1>12 DEF Shutdown, Kill, PowerLoss
  <2> QED
    BY <2>1, FewerOrphans DEF Cold, OrphanInv, MapsInv, QueueInv, Waiting, Activating
<1>13. ASSUME UNCHANGED vars PROVE OrphanInv'
  BY <1>13, SameIndex, OrphanFrame DEF vars, indexVars, orphanVars, callVars
<1>14. ASSUME NEW b \in Blocks, ProcessReject(b) PROVE OrphanInv'
  BY <1>13, <1>14 DEF ProcessReject
<1> QED
  BY <1>1, <1>2, <1>3, <1>4, <1>5, <1>6, <1>7, <1>8, <1>9, <1>10, <1>11, <1>12, <1>13, <1>14,
     OrphanAdded, OrphanAcceptStep, OrphanRejectStep, OrphanNextStep DEF Next, NodeStep, Environment

\* Orphans never outnumber the limit by more than one, and none is left waiting for a
\* block that was accepted, however many arrive in whatever order.
THEOREM OrphansCorrect == Spec => []OrphansWait
<1>1. Init => OrphanInv
  BY FS_EmptySet, EnvAssumption DEF Init, OrphanInv, MapsInv, QueueInv, Waiting, Activating
<1>2. IInv /\ OrphanInv => OrphansWait
  <2> SUFFICES ASSUME IInv, OrphanInv PROVE OrphansWait
    OBVIOUS
  <2>1. Cardinality(mapOrphanBlocks) <= Cardinality(mapOrphanBlocksByPrev) /\ Cardinality(mapOrphanBlocks) \in Nat
    BY FS_Subset, FS_CardinalityType DEF OrphanInv, MapsInv
  <2>2. Cardinality(mapOrphanBlocks) <= MaxOrphans + 1
    BY <2>1, OrphanTypes, EnvAssumption DEF OrphanInv, MapsInv
  <2>3. pc = "idle" => accepting = NoBlock /\ vWorkQueue = <<>>
    BY OrphanTypes DEF OrphanInv, QueueInv
  <2>4. pc = "idle" => mapOrphanBlocks = mapOrphanBlocksByPrev
    BY <2>3 DEF OrphanInv, MapsInv
  <2>5. ASSUME pc = "idle", ~fRequestShutdown, NEW o \in mapOrphanBlocks PROVE Prev[o] \notin mapBlockIndex
    BY <2>3, <2>5, OrphanTypes DEF OrphanInv, Waiting, WillBeTaken
  <2> QED
    BY <2>2, <2>4, <2>5 DEF OrphansWait
<1> QED
  BY <1>1, <1>2, OrphanStep, Invariance, PTL DEF Spec

-----------------------------------------------------------------------------
(* The first seen of two equal chains *)

Regular == accepting \notin {NoBlock, Genesis}

\* A chain that would connect has more work than b.
Behind(b) == \E v \in mapBlockIndex : Valid(v) /\ ChainWork[b] < ChainWork[v]

\* No candidate of the same work sorts above b.
Preferred(b) ==
    /\ b \in mapBlockIndex /\ Valid(b)
    /\ \A c \in setBlockIndexValid : c # b /\ ChainWork[c] = ChainWork[b] => WorkLess(c, b)

Settled(b) == Behind(b) \/ Preferred(b)

\* After a full disk the coins may not be those of the tip, which then never moves again.
FirstSeen ==
    /\ \A x \in Blocks : nSequenceId[x] < nBlockSequenceId
    /\ (pc \in {"idle", "orphans"} \/ (pc = "start" /\ Regular)) /\ pcoinsTip = chainActive =>
          Settled(chainActive)
    /\ pc \in {"popInvalid", "candidate", "reorg"} /\ Regular =>
          Settled(pindexOldTip) \/ (pcoinsTip # chainActive /\ chainActive = pindexOldTip)
    /\ pc = "reorg" => \A c \in setBlockIndexValid : ~WorkLess(chainMostWork, c)

FirstSeenInv == SelectionInv /\ FirstSeen

LEMMA FirstSeenTypes ==
  ASSUME IInv
  PROVE  /\ nSequenceId \in [Blocks -> Nat] /\ nBlockSequenceId \in Nat
         /\ addr \in [Blocks -> Nat] /\ \A x, y \in Blocks : addr[x] = addr[y] => x = y
         /\ \A x \in Blocks : ChainWork[x] \in Nat /\ nSequenceId[x] \in Nat /\ addr[x] \in Nat
         /\ mapBlockIndex \subseteq Blocks /\ setBlockIndexValid \subseteq mapBlockIndex
         /\ chainActive \in Blocks \cup {NoBlock} /\ chainMostWork \in Blocks \cup {NoBlock}
  BY EnvAssumption, WorkAssumption DEF IInv, TypeOK, StateInv, CandidatesExact, mapBlockIndex, InIndex

\* A chain that would connect is a candidate.
LEMMA ValidIsCandidate ==
  ASSUME IInv, NEW c \in mapBlockIndex, Valid(c)
  PROVE  c \in setBlockIndexValid
  BY DEF IInv, StateInv, CandidatesExact, MemoryInv, WellFormed, Failed, Valid

\* Candidates may go, and the index stays.
LEMMA SettledFrame ==
  ASSUME UNCHANGED <<mapBlockIndex, nSequenceId, addr>>, setBlockIndexValid' \subseteq setBlockIndexValid,
         NEW b, Settled(b)
  PROVE  Settled(b)'
  BY DEF Settled, Behind, Preferred, WorkLess

\* Steps outside of ActivateBestChain, and those of it that do not move the tip.
LEMMA FirstSeenFrame ==
  ASSUME FirstSeen, UNCHANGED <<mapBlockIndex, nSequenceId, nBlockSequenceId, addr>>,
         UNCHANGED <<chainActive, pcoinsTip, accepting, pindexOldTip>>,
         setBlockIndexValid' \subseteq setBlockIndexValid,
         \/ pc' = pc /\ UNCHANGED chainMostWork
         \/ pc = "orphans" /\ pc' = "idle"
         \/ pc \in {"popInvalid", "candidate", "reorg"} /\ pc' \in {"popInvalid", "candidate", "assertFailed"}
         \/ pc' \in {"noGenesis", "down"}
  PROVE  FirstSeen'
<1>1. \A b : Settled(b) => Settled(b)'
  BY SettledFrame
<1> QED
  BY <1>1 DEF FirstSeen, Regular, WorkLess

\* A new block sorts below those of its work.
LEMMA FirstSeenAccept ==
  ASSUME FirstSeenInv, NEW b \in Blocks, b \notin mapBlockIndex, pc \in {"idle", "orphans"}, AddToBlockIndex(b),
         UNCHANGED <<chainActive, pcoinsTip, addr>>
  PROVE  FirstSeen'
<1>1. /\ nStatus' = [nStatus EXCEPT ![b] = {"HAVE_DATA"}] /\ pc' = "start"
      /\ nSequenceId' = [nSequenceId EXCEPT ![b] = nBlockSequenceId] /\ nBlockSequenceId' = nBlockSequenceId + 1
      /\ setBlockIndexValid' = setBlockIndexValid \cup {b}
  BY DEF AddToBlockIndex
<1>2. IInv /\ \A x \in Blocks : nSequenceId[x] < nBlockSequenceId
  BY DEF FirstSeenInv, SelectionInv, FirstSeen
<1>3. \A x \in Blocks : nSequenceId'[x] < nBlockSequenceId'
  BY <1>1, <1>2, FirstSeenTypes
<1>4. mapBlockIndex' = mapBlockIndex \cup {b}
  BY <1>1, <1>2 DEF mapBlockIndex, InIndex, IInv, TypeOK, Trees
<1>5. ASSUME Behind(chainActive) PROVE Behind(chainActive)'
  BY <1>4, <1>5 DEF Behind
<1>6. ASSUME Preferred(chainActive) PROVE Preferred(chainActive)'
  <2>1. chainActive \in Blocks /\ chainActive # b /\ chainActive \in mapBlockIndex' /\ Valid(chainActive)
    BY <1>2, <1>4, <1>6, FirstSeenTypes DEF Preferred
  <2>2. ASSUME NEW c \in setBlockIndexValid, c # chainActive, ChainWork[c] = ChainWork[chainActive]
        PROVE  WorkLess(c, chainActive)'
    <3>1. c # b /\ WorkLess(c, chainActive) /\ c \in Blocks
      BY <1>2, <1>6, <2>2, FirstSeenTypes DEF Preferred
    <3> QED
      BY <1>1, <1>2, <2>1, <3>1, FirstSeenTypes DEF WorkLess
  <2>3. ASSUME ChainWork[b] = ChainWork[chainActive] PROVE WorkLess(b, chainActive)'
    BY <1>1, <1>2, <2>1, <2>3, FirstSeenTypes DEF WorkLess
  <2> QED
    BY <1>1, <2>1, <2>2, <2>3 DEF Preferred
<1> QED
  BY <1>1, <1>3, <1>5, <1>6 DEF FirstSeenInv, FirstSeen, Settled

\* Nothing sorts above the chain that is chosen.
LEMMA FirstSeenCandidate ==
  ASSUME FirstSeenInv, CandidateFound
  PROVE  FirstSeen'
<1>1. PICK b \in setBlockIndexValid :
          /\ IsBestCandidate(b)
          /\ chainMostWork' = IF chainMostWork # NoBlock /\ ~WorkLess(chainMostWork, b)
                              THEN chainMostWork ELSE b
  BY DEF CandidateFound
<1>2. IInv /\ pc = "candidate" /\ pc' = "reorg" /\ UNCHANGED <<mapBlockIndex, indexVars>>
      /\ UNCHANGED <<chainActive, pcoinsTip, accepting, pindexOldTip>>
  BY SameIndex DEF FirstSeenInv, SelectionInv, CandidateFound, indexVars
<1>3. ASSUME NEW c \in setBlockIndexValid PROVE ~WorkLess(chainMostWork', c)
  <2>1. b \in Blocks /\ c \in Blocks /\ (c = b \/ WorkLess(c, b))
    BY <1>1, <1>2, <1>3, FirstSeenTypes DEF IsBestCandidate
  <2>2. CASE chainMostWork' = b
    BY <1>2, <2>1, <2>2, FirstSeenTypes DEF WorkLess
  <2>3. CASE chainMostWork' = chainMostWork /\ chainMostWork \in Blocks /\ ~WorkLess(chainMostWork, b)
    BY <1>2, <2>1, <2>3, FirstSeenTypes DEF WorkLess
  <2> QED
    BY <1>1, <1>2, <2>2, <2>3, FirstSeenTypes
<1>4. \A x : Settled(x) => Settled(x)'
  BY <1>2, SettledFrame DEF indexVars
<1> QED
  BY <1>2, <1>3, <1>4 DEF FirstSeenInv, FirstSeen, Regular, indexVars, WorkLess

\* The tip moves.
LEMMA FirstSeenMoves ==
  ASSUME FirstSeenInv, pc = "reorg", pcoinsTip = chainActive, UNCHANGED callVars,
         UNCHANGED <<mapBlockIndex, nSequenceId, nBlockSequenceId, addr, setBlockIndexValid, chainMostWork>>
  PROVE  FirstSeen'
<1>1. \A x : Settled(x) => Settled(x)'
  BY SettledFrame
<1> QED
  BY <1>1 DEF FirstSeenInv, FirstSeen, Regular, callVars, WorkLess

\* The disk is full.
LEMMA FirstSeenError ==
  ASSUME FirstSeenInv, pc = "reorg", Return(FALSE), UNCHANGED <<nSequenceId, nBlockSequenceId>>,
         pcoinsTip' = chainActive' => Behind(chainActive)'
  PROVE  FirstSeen'
  BY DEF FirstSeenInv, FirstSeen, Return, Settled

LEMMA FirstSeenDone ==
  ASSUME FirstSeenInv, ActivateDone
  PROVE  /\ FirstSeen'
         /\ Regular /\ chainActive # pindexOldTip => ChainWork[pindexOldTip] < ChainWork[chainActive]
<1>1. /\ MostWork(chainMostWork) /\ chainMostWork \in Ancestors[chainActive] \cup {NoBlock} /\ ~MustDisconnect
      /\ pc = "reorg" /\ chainActive \in Blocks \cup {NoBlock} /\ IInv /\ FirstSeen
  BY DEF FirstSeenInv, SelectionInv, Chosen, ActivateDone, IInv, TypeOK
<1>2. chainActive = chainMostWork /\ chainActive \in Blocks
  BY <1>1, SameTip, BlocksAssumption, TreeAssumption DEF MostWork, MustDisconnect
<1>3. chainActive \in setBlockIndexValid /\ chainActive \in mapBlockIndex /\ Valid(chainActive)
  BY <1>1, <1>2, TipIsCandidate, FirstSeenTypes, BlocksAssumption DEF IInv, StateInv, MemoryInv
<1>4. \A c \in setBlockIndexValid : ~WorkLess(chainActive, c)
  BY <1>1, <1>2 DEF FirstSeen
<1>5. Preferred(chainActive)
  BY <1>1, <1>2, <1>3, <1>4, FirstSeenTypes DEF Preferred, WorkLess
<1>6. FirstSeen'
  <2>1. UNCHANGED <<mapBlockIndex, nSequenceId, nBlockSequenceId, addr, setBlockIndexValid, chainActive>>
    BY SameIndex DEF ActivateDone, indexVars, chainVars
  <2>2. Settled(chainActive)'
    BY <1>5, <2>1, SettledFrame DEF Settled
  <2>3. pc' \notin {"popInvalid", "candidate", "reorg"} /\ (pc' = "start" => accepting' = NoBlock)
    BY DEF ActivateDone, Return
  <2> QED
    BY <1>1, <2>1, <2>2, <2>3 DEF FirstSeen, Regular
<1>7. ASSUME Regular, chainActive # pindexOldTip PROVE ChainWork[pindexOldTip] < ChainWork[chainActive]
  <2>1. Settled(pindexOldTip)
    BY <1>1, <1>7 DEF FirstSeen
  <2>2. CASE Behind(pindexOldTip)
    <3>1. PICK v \in mapBlockIndex : Valid(v) /\ ChainWork[pindexOldTip] < ChainWork[v]
      BY <2>2 DEF Behind
    <3>2. ChainWork[v] <= ChainWork[chainActive]
      BY <1>1, <1>2, <3>1 DEF MostWork
    <3>3. ChainWork[v] \in Nat /\ ChainWork[chainActive] \in Nat /\ ChainWork[pindexOldTip] \in Nat
      <4>1. pindexOldTip \in Blocks \cup {NoBlock}
        BY <1>1 DEF IInv, TypeOK
      <4> QED
        BY <1>1, <1>2, <4>1, FirstSeenTypes, WorkAssumption
    <3> QED
      BY <3>1, <3>2, <3>3
  <2>3. CASE Preferred(pindexOldTip)
    <3>1. pindexOldTip \in Blocks /\ pindexOldTip \in setBlockIndexValid
          /\ ChainWork[pindexOldTip] <= ChainWork[chainActive]
      BY <1>1, <1>2, <2>3, ValidIsCandidate, FirstSeenTypes DEF Preferred, MostWork
    <3>2. ChainWork[pindexOldTip] # ChainWork[chainActive]
      BY <1>3, <1>4, <1>7, <2>3, <3>1 DEF Preferred
    <3> QED
      BY <1>1, <1>2, <3>1, <3>2, FirstSeenTypes
  <2> QED
    BY <2>1, <2>2, <2>3 DEF Settled
<1> QED
  BY <1>6, <1>7

LEMMA FirstSeenDisconnect ==
  ASSUME FirstSeenInv, DisconnectTip
  PROVE  FirstSeen'
<1>1. UNCHANGED <<mapBlockIndex, nSequenceId, nBlockSequenceId, addr, setBlockIndexValid, chainMostWork>>
      /\ pc = "reorg" /\ pcoinsTip = chainActive /\ pcoinsTip' = Prev[chainActive] /\ chainActive \in Blocks
  BY SameIndex, FirstSeenTypes DEF DisconnectTip, MustDisconnect, indexVars, FirstSeenInv, SelectionInv
<1>2. CASE UNCHANGED <<orphanVars, callVars>>
  BY <1>1, <1>2, FirstSeenMoves
<1>3. CASE Return(FALSE) /\ UNCHANGED chainActive
  <2>1. Prev[chainActive] # chainActive
    BY <1>1, ChainFacts
  <2> QED
    BY <1>1, <1>3, <2>1, FirstSeenError
<1> QED
  BY <1>2, <1>3 DEF DisconnectTip

LEMMA FirstSeenConnect ==
  ASSUME FirstSeenInv, NEW b \in Blocks, ConnectTip(b) \/ ConnectUndoDiskFull(b)
  PROVE  FirstSeen'
<1>1. IInv /\ IsNext(b) /\ pc = "reorg" /\ pcoinsTip = chainActive /\ Prev[b] = chainActive /\ b \notin BadConnect
      /\ UNCHANGED <<nSequenceId, nBlockSequenceId, addr, setBlockIndexValid, chainMostWork>>
  BY DEF ConnectTip, ConnectUndoDiskFull, IsNext, indexVars, chainVars, FirstSeenInv, SelectionInv
<1>2. CASE ConnectTip(b)
  <2>1. nStatus' = [nStatus EXCEPT ![b] = ConnectedStatus(b)] /\ pcoinsTip' = b
    BY <1>2 DEF ConnectTip
  <2>2. nStatus[b] # {} /\ nStatus[b] \subseteq ConnectedStatus(b)
    BY <1>1, NextIndexed DEF ConnectedStatus, InIndex
  <2>3. UNCHANGED mapBlockIndex
    BY <1>1, <2>1, <2>2, ConnectIndex
  <2>4. CASE UNCHANGED <<orphanVars, callVars>>
    BY <1>1, <2>3, <2>4, FirstSeenMoves
  <2>5. CASE Return(FALSE) /\ UNCHANGED chainActive
    <3>1. Prev[b] # b
      BY ChainFacts
    <3> QED
      BY <1>1, <2>1, <2>5, <3>1, FirstSeenError
  <2> QED
    BY <1>2, <2>4, <2>5 DEF ConnectTip
<1>3. CASE ConnectUndoDiskFull(b)
  <2>1. Return(FALSE) /\ UNCHANGED <<mapBlockIndex, chainActive>>
    BY <1>3, SameIndex DEF ConnectUndoDiskFull, indexVars, chainVars
  <2>2. b \in mapBlockIndex /\ Valid(b)
    BY <1>1, NextIndexed, ChainFacts DEF mapBlockIndex, Valid, IInv, StateInv, MemoryInv
  <2>3. Behind(chainActive)'
    BY <1>1, <2>1, <2>2, WorkAssumption DEF Behind
  <2> QED
    BY <1>1, <2>1, <2>3, FirstSeenError
<1> QED
  BY <1>2, <1>3

LEMMA FirstSeenStep == FirstSeenInv /\ [Next]_vars => FirstSeen'
<1> SUFFICES ASSUME FirstSeenInv, [Next]_vars PROVE FirstSeen'
  OBVIOUS
<1>0. IInv /\ FirstSeen
  BY DEF FirstSeenInv, SelectionInv
<1>1. ASSUME NEW b \in Blocks, ProcessOrphan(b) \/ ProcessDiskFull(b) PROVE FirstSeen'
  BY <1>0, <1>1, SameIndex, FirstSeenFrame DEF ProcessOrphan, ProcessDiskFull, indexVars, chainVars, callVars
<1>2. ASSUME NEW b \in Blocks, ProcessAccept(b) \/ OrphanAccept(b) PROVE FirstSeen'
  BY <1>2, FirstSeenAccept DEF ProcessAccept, OrphanAccept, NewBlock, chainVars
<1>3. ASSUME NEW o \in Blocks, OrphanReject(o) PROVE FirstSeen'
  BY <1>0, <1>3, SameIndex, FirstSeenFrame DEF OrphanReject, indexVars, chainVars
<1>4. CASE OrphanNext
  BY <1>0, <1>4, SameIndex, FirstSeenFrame DEF OrphanNext, indexVars, chainVars
<1>5. CASE ActivateStart
  <2>1. UNCHANGED <<mapBlockIndex, indexVars, chainVars, accepting>> /\ pc = "start" /\ pc' = "popInvalid"
        /\ pindexOldTip' = chainActive
    BY <1>5, SameIndex DEF ActivateStart, indexVars
  <2>2. \A x : Settled(x) => Settled(x)'
    BY <2>1, SettledFrame DEF indexVars
  <2> QED
    BY <1>0, <2>1, <2>2 DEF FirstSeen, Regular, indexVars, chainVars
<1>6. CASE PopInvalid
  BY <1>0, <1>6, SameIndex, FirstSeenFrame DEF PopInvalid, EraseCandidate
<1>7. CASE AssertionFails
  BY <1>0, <1>7, SameIndex, FirstSeenFrame DEF AssertionFails, indexVars, chainVars
<1>8. CASE CandidateInvalid
  BY <1>0, <1>8, InvalidIndex, FirstSeenFrame DEF CandidateInvalid, chainVars, callVars
<1>9. ASSUME NEW b \in Blocks, ConnectInvalid(b) PROVE FirstSeen'
  <2>1. nStatus' = [nStatus EXCEPT ![b] = nStatus[b] \cup {"FAILED_VALID"}] /\ IsNext(b) /\ pc = "reorg" /\ pc' = "popInvalid"
    BY <1>9 DEF ConnectInvalid, IsNext
  <2>2. UNCHANGED mapBlockIndex
    BY <1>0, <2>1, ConnectIndex
  <2> QED
    BY <1>0, <1>9, <2>1, <2>2, FirstSeenFrame DEF ConnectInvalid, EraseCandidate, chainVars
<1>10. CASE LoadBlockIndex
  <2>1. pc' = "start" /\ accepting' = NoBlock /\ UNCHANGED <<nSequenceId, nBlockSequenceId>>
    BY <1>0, <1>10 DEF LoadBlockIndex, IInv, StateInv, ColdInv, Stopped
  <2> QED
    BY <1>0, <2>1 DEF FirstSeen, Regular
<1>11. CASE InitBlockIndex
  <2>1. /\ pc' = "start" /\ accepting' = Genesis /\ nBlockSequenceId' = nBlockSequenceId + 1
        /\ nSequenceId' = [nSequenceId EXCEPT ![Genesis] = nBlockSequenceId]
    BY <1>11 DEF InitBlockIndex, AddToBlockIndex
  <2>2. \A x \in Blocks : nSequenceId'[x] < nBlockSequenceId'
    BY <1>0, <2>1, FirstSeenTypes DEF FirstSeen
  <2> QED
    BY <2>1, <2>2 DEF FirstSeen, Regular
<1>12. CASE LoadFails \/ Reindex
  <2>1. UNCHANGED <<nSequenceId, nBlockSequenceId>> /\ pc' \in {"down", "noGenesis", "corrupted"}
    BY <1>12 DEF LoadFails, Reindex, indexVars
  <2> QED
    BY <1>0, <2>1 DEF FirstSeen
<1>13. CASE Shutdown \/ Kill \/ PowerLoss
  <2>1. Cold /\ pc' = "down"
    BY <1>13 DEF Shutdown, Kill, PowerLoss
  <2>2. \A x \in Blocks : nSequenceId'[x] < nBlockSequenceId'
    BY <2>1 DEF Cold
  <2> QED
    BY <2>1, <2>2 DEF FirstSeen
<1>14. ASSUME UNCHANGED vars PROVE FirstSeen'
  BY <1>0, <1>14, SameIndex, FirstSeenFrame DEF vars, indexVars, chainVars, callVars
<1>15. ASSUME NEW b \in Blocks, ProcessReject(b) PROVE FirstSeen'
  BY <1>14, <1>15 DEF ProcessReject
<1> QED
  BY <1>1, <1>2, <1>3, <1>4, <1>5, <1>6, <1>7, <1>8, <1>9, <1>10, <1>11, <1>12, <1>13, <1>14, <1>15,
     FirstSeenCandidate, FirstSeenDone, FirstSeenDisconnect, FirstSeenConnect DEF Next, NodeStep, Environment

\* Of two branches with equal work the node stays on the one it has: ProcessBlock moves the
\* tip only to strictly more work.
THEOREM FirstSeenCorrect == Spec => FirstSeenWins
<1>1. Init => FirstSeen
  BY DEF Init, FirstSeen
<1>2. SelectionInv /\ FirstSeen /\ [Next]_vars => FirstSeen'
  BY FirstSeenStep DEF FirstSeenInv
<1>3. SelectionInv /\ FirstSeen /\ [Next]_vars =>
        [ActivateDone /\ accepting \notin {NoBlock, Genesis} /\ chainActive # pindexOldTip
          => ChainWork[pindexOldTip] < ChainWork[chainActive]]_vars
  BY FirstSeenDone DEF FirstSeenInv, Regular
<1> QED
  BY <1>1, <1>2, <1>3, AlwaysChosen, PTL DEF Spec, FirstSeenWins
=============================================================================
