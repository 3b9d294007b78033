---------------------------- MODULE MCStructures ----------------------------
(***************************************************************************)
(* The parts that run under one lock or without shared state: orphan       *)
(* transactions, the address manager, the difficulty of both networks and  *)
(* Merkle trees.  They share no state, so one of them takes steps at a     *)
(* time and the others stay in their initial state: part says which.       *)
(***************************************************************************)
EXTENDS OrphanTx, Integers, TLC

CONSTANTS
    NewBuckets, TriedBuckets, ADDRMAN_NEW_BUCKET_SIZE, ADDRMAN_TRIED_BUCKET_SIZE,
    ADDRMAN_NEW_BUCKETS_PER_ADDRESS, ADDRMAN_TRIED_ENTRIES_INSPECT_ON_EVICT,
    ADDRMAN_GETADDR_MAX_PCT, MaxIds, Times

VARIABLES
    part,
    addrman,
    blocks,
    vtx, vMatch, where, vBits, vHash, extracted

treeVars == <<vtx, vMatch, where, vBits, vHash, extracted>>

\* c has two parents, d depends on c, e on a and is invalid, f on d and pays too little.
ParentsOf == "a" :> {} @@ "b" :> {} @@ "c" :> {"a", "b"} @@ "d" :> {"c"} @@ "e" :> {"a"} @@ "f" :> {"d"}

\* Buckets of one entry.  The first source puts all hosts into bucket 1, the others
\* spread them.  Services are added of three hosts, or of two of which one has two ports.
HostOf == "s1" :> "h1" @@ "s1b" :> "h1" @@ "s2" :> "h2" @@ "s3" :> "h3"
Services == DOMAIN HostOf
Hosts == {"h1", "h2", "h3"}
Sources == {"src1", "src2", "src3"}
NewBucket ==
    [x \in Hosts \X Sources |-> CASE x[2] = "src1" -> 1
                                  [] x[2] = "src2" -> IF x[1] = "h3" THEN 1 ELSE 2
                                  [] OTHER -> 3]
TriedBucket == [s \in Services |-> 1]
Addr == INSTANCE AddrMan
ThreeHosts == INSTANCE AddrMan WITH Services <- {"s1", "s2", "s3"}
TwoPorts == INSTANCE AddrMan WITH Services <- {"s1", "s1b", "s2"}

\* Short periods and small targets: a period of three blocks should last 12, and may last
\* from next to nothing to more than four times that.
MainNet == INSTANCE Difficulty WITH
    chain <- blocks, TestNet <- FALSE, Gaps <- {-1, 1, 16, 48}, nTargetSpacing <- 4,
    nInterval <- 3, nMedianTimeSpan <- 3, ProofOfWorkLimit <- 4095, Base <- 4, Digits <- 3, MaxHeight <- 8
TestNet == INSTANCE Difficulty WITH
    chain <- blocks, TestNet <- TRUE, Gaps <- {-1, 1, 5, 9}, nTargetSpacing <- 4,
    nInterval <- 3, nMedianTimeSpan <- 3, ProofOfWorkLimit <- 4095, Base <- 4, Digits <- 3, MaxHeight <- 8

\* Trees of height 0 to 4, with odd levels at each height.
Tree == INSTANCE Merkle WITH MaxTransactions <- 9

ASSUME StructuresAssumption ==
    /\ OrphanAssumption /\ Addr!AddrManAssumption /\ Tree!MerkleAssumption
    /\ MainNet!DifficultyAssumption /\ TestNet!DifficultyAssumption

MCInit ==
    /\ part \in {"orphans", "hosts", "ports", "mainnet", "testnet", "merkle"}
    /\ Init /\ Addr!Init /\ MainNet!Init /\ Tree!Init

MCNext ==
    /\ UNCHANGED part
    /\ \/ part = "orphans" /\ Next /\ UNCHANGED <<addrman, blocks, treeVars>>
       \/ part = "hosts" /\ ThreeHosts!Next /\ UNCHANGED <<vars, blocks, treeVars>>
       \/ part = "ports" /\ TwoPorts!Next /\ UNCHANGED <<vars, blocks, treeVars>>
       \/ part = "mainnet" /\ MainNet!Next /\ UNCHANGED <<vars, addrman, treeVars>>
       \/ part = "testnet" /\ TestNet!Next /\ UNCHANGED <<vars, addrman, treeVars>>
       \/ part = "merkle" /\ Tree!Next /\ UNCHANGED <<vars, addrman, blocks>>

MCSpec == MCInit /\ [][MCNext]_<<part, vars, addrman, blocks, treeVars>>
-----------------------------------------------------------------------------
\* What Check_ tests of the tables of new and tried addresses, their counters and the indexes
\* over them; and no bucket outgrows its size, not even the one an evicted address goes back
\* to, no address takes more buckets than allowed, and the loop of Select_ meets an entry.
AddressesExact ==
    /\ Addr!TypeOK /\ Addr!TablesConsistent /\ Addr!IndexesConsistent
    /\ Addr!BucketsBounded /\ Addr!ReferencesBounded /\ Addr!SelectEnds

\* A tried address is never deleted, and a restart puts every address back into its table
\* and its buckets (CAddrMan::Shrink, Serialize, Unserialize).
AddressesSurvive == Addr!TriedNeverDeleted /\ Addr!RestartPreserves

\* Whatever min-difficulty blocks the test network has, the others of a period have the
\* target of its first block (GetNextWorkRequired); and ProcessBlock rejects no block for too
\* little work that at most one retarget separates from the checkpoint (ComputeMinWork).
TargetsRight ==
    /\ MainNet!TypeOK
    /\ part = "testnet" => TestNet!OneTargetPerPeriod
    /\ part = "mainnet" => MainNet!MinWorkOneRetarget

\* GetMerkleBranch leads CheckMerkleBranch to the root, whatever the shape of the tree;
\* ExtractMatches returns the root and the matches a partial tree was built from, which has
\* the size that the comment on CPartialMerkleTree allows, up to the bits of only children.
TreesRight ==
    /\ [](Tree!TypeOK /\ Tree!BranchesLeadToRoot /\ Tree!SizeBounded)
    /\ Tree!ExtractsWhatWasBuilt
=============================================================================
