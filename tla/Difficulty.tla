----------------------------- MODULE Difficulty -----------------------------
(***************************************************************************)
(* The proof of work a block must show (main.cpp, bignum.h).  A chain      *)
(* grows by blocks whose time is after the median of the last ones and     *)
(* whose nBits is what GetNextWorkRequired asks for; every block of it may *)
(* be the last checkpoint that ProcessBlock holds a later block against.   *)
(* Targets are the numbers nBits stands for: the larger, the less work.    *)
(***************************************************************************)
EXTENDS Integers, Sequences, FiniteSets, FiniteSetsExt, SequencesExt

CONSTANTS
    TestNet,
    nTargetSpacing, nInterval,
    nMedianTimeSpan,
    ProofOfWorkLimit,
    Base, Digits,   \* nBits holds Digits digits of Base (3 of 256), the top bit a sign
    Gaps,           \* what the time of a block may be after that of the one before
    MaxHeight       \* bound on the chain

nTargetTimespan == nInterval * nTargetSpacing

DifficultyAssumption ==
    /\ TestNet \in BOOLEAN
    /\ nTargetSpacing \in Nat \ {0} /\ nInterval \in Nat \ {0} /\ nMedianTimeSpan \in Nat \ {0}
    /\ nTargetTimespan % 4 = 0
    /\ ProofOfWorkLimit \in Nat \ {0}
    /\ Base \in Nat \ {0, 1} /\ Digits \in Nat \ {0} /\ Base % 2 = 0
    /\ Gaps \subseteq Int
    /\ MaxHeight \in Nat

VARIABLE chain  \* the blocks, of height 0 first: [nTime, target]

-----------------------------------------------------------------------------
\* SetCompact(GetCompact(x)): the digits that do not fit are dropped.
Compact(x) ==
    LET Drop(k) == x \div (Base ^ k)
        k == CHOOSE j \in 0..x : /\ Drop(j) < (Base ^ Digits) \div 2
                                 /\ \A i \in 0..(j - 1) : Drop(i) >= (Base ^ Digits) \div 2
    IN Drop(k) * (Base ^ k)

AtMostLimit(x) == IF x > ProofOfWorkLimit THEN ProofOfWorkLimit ELSE x

GenesisTarget == Compact(ProofOfWorkLimit)

\* The block at a height, and the height of the last block.
At(h) == chain[h + 1]
Height == Len(chain) - 1

\* Mutant of LastRegular: the search goes on past the start of the period.
LastRegular_AnyPeriod ==
    Max({h \in 0..Height : h = 0 \/ At(h).target # GenesisTarget})

\* The last block that is not a min-difficulty block of the test network, or
\* the first of its period.
LastRegular ==
    Max({h \in 0..Height : h = 0 \/ h % nInterval = 0 \/ At(h).target # GenesisTarget})

ActualTimespan ==
    LET span == At(Height).nTime - At(Height - nInterval + 1).nTime
    IN IF span < nTargetTimespan \div 4 THEN nTargetTimespan \div 4
       ELSE IF span > nTargetTimespan * 4 THEN nTargetTimespan * 4
       ELSE span

GetNextWorkRequired(nTime) ==
    IF (Height + 1) % nInterval = 0
    THEN Compact(AtMostLimit((At(Height).target * ActualTimespan) \div nTargetTimespan))
    ELSE IF ~TestNet THEN At(Height).target
    ELSE IF nTime > At(Height).nTime + nTargetSpacing * 2 THEN GenesisTarget
    ELSE At(LastRegular).target

\* Four times as much, again and again, and at most the limit.
Quadrupled(x, times) ==
    IF 4 ^ times > ProofOfWorkLimit \div x THEN ProofOfWorkLimit ELSE x * (4 ^ times)

\* The loop multiplies by 4 for every four periods begun.
ComputeMinWork(nBase, nTime) ==
    IF TestNet /\ nTime > nTargetSpacing * 2 THEN GenesisTarget
    ELSE LET steps == IF nTime <= 0 THEN 0
                      ELSE (nTime + nTargetTimespan * 4 - 1) \div (nTargetTimespan * 4)
         IN Compact(Quadrupled(nBase, steps))

GetMedianTimePast ==
    LET last == SubSeq(chain, Max({1, Len(chain) - nMedianTimeSpan + 1}), Len(chain))
        sorted == SortSeq([i \in DOMAIN last |-> last[i].nTime], LAMBDA x, y : x < y)
    IN sorted[Len(sorted) \div 2 + 1]
-----------------------------------------------------------------------------
Init == chain = <<[nTime |-> 0, target |-> GenesisTarget]>>

AcceptBlock(nTime) ==
    /\ Height < MaxHeight
    /\ nTime > GetMedianTimePast
    /\ chain' = Append(chain, [nTime |-> nTime, target |-> GetNextWorkRequired(nTime)])

Next == \E gap \in Gaps : AcceptBlock(At(Height).nTime + gap)

Spec == Init /\ [][Next]_chain
-----------------------------------------------------------------------------
\* Targets are within the limits CheckProofOfWork sets, so that no rule asks for
\* a block that cannot exist, and survive nBits unchanged.
TypeOK ==
    \A i \in DOMAIN chain : /\ chain[i].nTime \in Int
                            /\ chain[i].target \in 1..ProofOfWorkLimit
                            /\ chain[i].target = Compact(chain[i].target)

\* However many min-difficulty blocks the test network allows, the others of a
\* period have the target of its first block.
OneTargetPerPeriod ==
    \A h \in 0..Height :
        At(h).target \in {GenesisTarget, At(h - (h % nInterval)).target}

\* The heights at which the target may change between two blocks.
Retargets(c, h) == {r \in (c + 1)..h : r % nInterval = 0}

\* ProcessBlock holds no block with a later time against a checkpoint that at most
\* one retarget separates it from.
MinWorkOneRetarget ==
    \A h \in 0..Height : \A c \in 0..h :
        At(h).nTime > At(c).nTime /\ Cardinality(Retargets(c, h)) <= 1
            => At(h).target <= ComputeMinWork(At(c).target, At(h).nTime - At(c).nTime)

\* ComputeMinWork: "minimum amount of work that could possibly be required nTime
\* after minimum work required was nBase".
\* The code does not keep this (README, section 4).
MinWorkPossible ==
    \A h \in 0..Height : \A c \in 0..h :
        At(h).nTime > At(c).nTime
            => At(h).target <= ComputeMinWork(At(c).target, At(h).nTime - At(c).nTime)
=============================================================================
