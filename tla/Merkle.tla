------------------------------- MODULE Merkle -------------------------------
(***************************************************************************)
(* Merkle trees (core.cpp), the branch a wallet keeps of a transaction and  *)
(* the partial tree of a merkleblock message (main.cpp, main.h): a node     *)
(* builds a partial tree of the transactions that match a filter, sends it  *)
(* as bytes, and the receiver extracts the root and the matches again.      *)
(***************************************************************************)
EXTENDS Integers, Sequences, FiniteSets, FiniteSetsExt

CONSTANT
    MaxTransactions  \* bound on the transactions of a block

MerkleAssumption == MaxTransactions \in Nat \ {0}

VARIABLES
    vtx,       \* the hashes of the transactions of the block
    vMatch,    \* the positions, from 0, of those that match the filter
    where,     \* of the partial tree: "none", "built" or "received"
    vBits, vHash,
    extracted  \* what ExtractMatches returned: [root, vMatch], or NotExtracted

vars == <<vtx, vMatch, where, vBits, vHash, extracted>>

-----------------------------------------------------------------------------
\* Hashes: of the i-th transaction, of two hashes, and 0.  No two are equal.
Txid(i) == <<i>>
Hash(left, right) == <<left, right>>
Zero == <<>>

NotExtracted == [root |-> Zero, vMatch |-> <<>>]

nTransactions == Len(vtx)

\* vMerkleTree when the level of nSize nodes that begins after node j, and what
\* is above it, remains to be done: an odd last node is hashed with itself.
RECURSIVE BuildMerkleTree(_, _, _)
BuildMerkleTree(tree, j, nSize) ==
    IF nSize <= 1 THEN tree
    ELSE BuildMerkleTree(
             tree \o [k \in 1..((nSize + 1) \div 2) |->
                         Hash(tree[j + 2 * k - 1], tree[j + Min({2 * k, nSize})])],
             j + nSize, (nSize + 1) \div 2)

vMerkleTree == BuildMerkleTree(vtx, 0, Len(vtx))
hashMerkleRoot == vMerkleTree[Len(vMerkleTree)]

\* nIndex ^ 1
Sibling(nIndex) == IF nIndex % 2 = 0 THEN nIndex + 1 ELSE nIndex - 1

RECURSIVE GetMerkleBranch(_, _, _)
GetMerkleBranch(nIndex, j, nSize) ==
    IF nSize <= 1 THEN <<>>
    ELSE <<vMerkleTree[j + Min({Sibling(nIndex), nSize - 1}) + 1]>>
             \o GetMerkleBranch(nIndex \div 2, j + nSize, (nSize + 1) \div 2)

RECURSIVE CheckMerkleBranch(_, _, _)
CheckMerkleBranch(hash, vMerkleBranch, nIndex) ==
    IF vMerkleBranch = <<>> THEN hash
    ELSE CheckMerkleBranch(
             IF nIndex % 2 = 1 THEN Hash(Head(vMerkleBranch), hash)
                               ELSE Hash(hash, Head(vMerkleBranch)),
             Tail(vMerkleBranch), nIndex \div 2)
-----------------------------------------------------------------------------
(* CPartialMerkleTree *)

CalcTreeWidth(height) == (nTransactions + 2 ^ height - 1) \div (2 ^ height)

nHeight == Min({h \in 0..nTransactions : CalcTreeWidth(h) <= 1})

RECURSIVE CalcHash(_, _)
CalcHash(height, pos) ==
    IF height = 0 THEN vtx[pos + 1]
    ELSE LET left == CalcHash(height - 1, pos * 2)
         IN Hash(left, IF pos * 2 + 1 < CalcTreeWidth(height - 1)
                       THEN CalcHash(height - 1, pos * 2 + 1) ELSE left)

\* Mutant of ParentOfMatch: the range of leaves ends one too early.
ParentOfMatch_Short(match, height, pos) ==
    \E p \in match : pos * 2 ^ height <= p /\ p < (pos + 1) * 2 ^ height - 1

ParentOfMatch(match, height, pos) ==
    \E p \in match : pos * 2 ^ height <= p /\ p < (pos + 1) * 2 ^ height

\* The bits and hashes a subtree adds.
RECURSIVE TraverseAndBuild(_, _, _)
TraverseAndBuild(match, height, pos) ==
    LET inside == ParentOfMatch(match, height, pos)
    IN IF height = 0 \/ ~inside
       THEN [bits |-> <<inside>>, hashes |-> <<CalcHash(height, pos)>>]
       ELSE LET left == TraverseAndBuild(match, height - 1, pos * 2)
                right == IF pos * 2 + 1 < CalcTreeWidth(height - 1)
                         THEN TraverseAndBuild(match, height - 1, pos * 2 + 1)
                         ELSE [bits |-> <<>>, hashes |-> <<>>]
            IN [bits |-> <<TRUE>> \o left.bits \o right.bits,
                hashes |-> left.hashes \o right.hashes]

\* The hash of a subtree, read from the bits and hashes that were not yet used,
\* and what is used and matched after it.
RECURSIVE TraverseAndExtract(_, _, _)
TraverseAndExtract(height, pos, from) ==
    IF from.nBitsUsed >= Len(vBits) THEN [from EXCEPT !.fBad = TRUE, !.hash = Zero]
    ELSE LET inside == vBits[from.nBitsUsed + 1]
             read == [from EXCEPT !.nBitsUsed = @ + 1]
         IN IF height = 0 \/ ~inside
            THEN IF read.nHashUsed >= Len(vHash) THEN [read EXCEPT !.fBad = TRUE, !.hash = Zero]
                 ELSE LET hash == vHash[read.nHashUsed + 1]
                      IN [read EXCEPT !.nHashUsed = @ + 1, !.hash = hash,
                              !.vMatch = IF height = 0 /\ inside THEN Append(@, hash) ELSE @]
            ELSE LET left == TraverseAndExtract(height - 1, pos * 2, read)
                     right == IF pos * 2 + 1 < CalcTreeWidth(height - 1)
                              THEN TraverseAndExtract(height - 1, pos * 2 + 1, left)
                              ELSE left
                 IN [right EXCEPT !.hash = Hash(left.hash, right.hash)]

Bytes(n) == (n + 7) \div 8
-----------------------------------------------------------------------------
Init ==
    /\ vtx = <<>> /\ vMatch = {}
    /\ where = "none" /\ vBits = <<>> /\ vHash = <<>> /\ extracted = NotExtracted

\* A block with n transactions arrives.
Block(n) ==
    /\ where = "none"
    /\ vtx' = [i \in 1..n |-> Txid(i)]
    /\ vMatch' = {}
    /\ extracted' = NotExtracted
    /\ UNCHANGED <<where, vBits, vHash>>

\* CMerkleBlock: the filter matches some transactions of the block, and the
\* constructor builds the partial tree.
CPartialMerkleTree(match) ==
    /\ where = "none" /\ vtx # <<>>
    /\ vMatch' = match
    /\ where' = "built"
    /\ LET tree == TraverseAndBuild(match, nHeight, 0)
       IN vBits' = tree.bits /\ vHash' = tree.hashes
    /\ extracted' = NotExtracted
    /\ UNCHANGED vtx

\* The partial tree is serialised and read again: the bits are filled up to bytes.
Serialize ==
    /\ where = "built"
    /\ vBits' = [p \in 1..(8 * Bytes(Len(vBits))) |-> p <= Len(vBits) /\ vBits[p]]
    /\ where' = "received"
    /\ UNCHANGED <<vtx, vMatch, vHash, extracted>>

ExtractMatches ==
    /\ where = "received"
    /\ LET all == TraverseAndExtract(nHeight, 0,
                      [hash |-> Zero, nBitsUsed |-> 0, nHashUsed |-> 0,
                       vMatch |-> <<>>, fBad |-> FALSE])
           good == /\ Len(vHash) <= nTransactions
                   /\ Len(vBits) >= Len(vHash)
                   /\ ~all.fBad
                   /\ Bytes(all.nBitsUsed) = Bytes(Len(vBits))
                   /\ all.nHashUsed = Len(vHash)
       IN extracted' = [root |-> IF good THEN all.hash ELSE Zero, vMatch |-> all.vMatch]
    /\ where' = "none" /\ vBits' = <<>> /\ vHash' = <<>>
    /\ UNCHANGED <<vtx, vMatch>>

Next ==
    \/ \E n \in 1..MaxTransactions : Block(n)
    \/ \E match \in SUBSET (0..(nTransactions - 1)) : CPartialMerkleTree(match)
    \/ Serialize
    \/ ExtractMatches

Spec == Init /\ [][Next]_vars
-----------------------------------------------------------------------------
\* The types, and what a partial tree is before and after it is sent.
TypeOK ==
    /\ vtx \in {[i \in 1..n |-> Txid(i)] : n \in 0..MaxTransactions}
    /\ vMatch \subseteq 0..(nTransactions - 1)
    /\ where \in {"none", "built", "received"}
    /\ \A p \in DOMAIN vBits : vBits[p] \in BOOLEAN
    /\ where = "received" => Len(vBits) % 8 = 0

\* The branch GetMerkleBranch returns for a transaction leads CheckMerkleBranch to
\* the root of the block, whatever the number of transactions: a wallet transaction
\* is never taken for unconfirmed because of the shape of the tree.
BranchesLeadToRoot ==
    \A i \in 0..(nTransactions - 1) :
        CheckMerkleBranch(vtx[i + 1], GetMerkleBranch(i, 0, nTransactions), i) = hashMerkleRoot

\* What ExtractMatches finds in a partial tree that was sent are the root that the
\* header of the block has and the matched transactions in their order.
ExtractsWhatWasBuilt ==
    [][ExtractMatches =>
        /\ extracted'.root = hashMerkleRoot
        /\ extracted'.vMatch = [k \in 1..Cardinality(vMatch) |->
               Txid(CHOOSE i \in 1..nTransactions :
                        i - 1 \in vMatch /\ Cardinality({p \in vMatch : p < i}) = k)]]_vars

\* CPartialMerkleTree: "N <= total_transactions" and "N <= 1 + matched_transactions*
\* tree_height" for the N hashes of a partial tree; besides the 2*N-1 flag bits of a
\* full binary tree there is at most one for an only child at each height.
SizeBounded ==
    where = "built" =>
        /\ Len(vHash) <= nTransactions
        /\ Len(vHash) <= 1 + Cardinality(vMatch) * nHeight
        /\ Len(vBits) <= 2 * Len(vHash) - 1 + nHeight

\* CPartialMerkleTree: "flag bits, packed per 8 in a byte, least significant bit
\* first (<= 2*N-1 bits)".
\* The code does not keep this (README, section 4).
FlagBitsBounded == where = "built" => Len(vBits) <= 2 * Len(vHash) - 1
=============================================================================
