----------------------------- MODULE KeysProofs -----------------------------
(***************************************************************************)
(* Proofs about the keys of a wallet, their file and their lock: KeyPool,  *)
(* WalletDB and WalletUnlock, which share no state.                        *)
(*                                                                         *)
(* The pool of a wallet that is not encrypted, or is being encrypted, and  *)
(* keeps at least one key: an index is not used again while it is reserved *)
(* because setKeyPool always has a larger one (Covered), and it has one    *)
(* because the pool is filled with two or more before a key is taken       *)
(* (Filled).  Encryption, for every size of the pool: while the keys are   *)
(* encrypted the transaction has each key once, plain or encrypted, and    *)
(* the file has all of them plain (Ciphered), so that every moment to be   *)
(* killed leaves a file with all keys of one kind.  That a wallet once     *)
(* encrypted is encrypted after a restart needs that it has a key          *)
(* (NotEmpty).                                                             *)
(*                                                                         *)
(* The lock: a command that will set the timer keeps the clock from        *)
(* passing the last deadline the model has (Within), a matter of the bound *)
(* and not of the code; AnnouncedTimeArmed is inductive given the types.   *)
(* That an unlocked wallet is guarded needs that a change of the           *)
(* passphrase which found it unlocked is guarded too, and that one which   *)
(* has locked it finds it locked when it fails (ChangeGuarded).            *)
(*                                                                         *)
(* The database: its use count is that of the CDBs and of Rewrite, the     *)
(* copy made by Rewrite has all but what it still has to do, and a file    *)
(* with no use count needs no log (the last section).                      *)
(***************************************************************************)
EXTENDS KeyPool, WalletUnlock, WalletDB, FiniteSetTheorems, TLAPS

Pools == UNION {[D -> Nat] : D \in SUBSET Nat}
FileType == [key : SUBSET Nat, ckey : SUBSET Nat, pool : Pools, defaultkey : Nat]
Ops == {"idle", "topup", "topupwrite", "reserve", "setdefault", "encrypt"}
OpType ==
    [pc : Ops, who : Holders \cup {"none", "first", "rpc", "oldest"}, size : Nat, key : Nat, todo : SUBSET Nat]

Typed ==
    /\ file \in FileType /\ op \in OpType /\ nKeys \in Nat
    /\ holder \in [Holders -> [nIndex : Nat \cup {NoIndex}, vchPubKey : Nat]]
    /\ setKeyPool \subseteq DOMAIN file.pool

\* The wallet is not encrypted, or no encrypted key is in the file yet.
Plain == file.ckey = {} /\ (fUseCrypto = FALSE \/ op.pc = "encrypt")

\* The entries have indices and keys up to the number of keys, and no two the same key.
Entries ==
    /\ DOMAIN file.pool \subseteq 1..nKeys
    /\ \A i \in DOMAIN file.pool : file.pool[i] \in 1..nKeys
    /\ \A i, j \in DOMAIN file.pool : file.pool[i] = file.pool[j] => i = j
    /\ given \subseteq 1..nKeys
    /\ \A i \in DOMAIN file.pool : file.pool[i] \notin given

\* The new key, of which there is no entry yet.
Fresh ==
    op.pc = "topupwrite" =>
        /\ op.key = nKeys /\ nKeys > 0 /\ op.key \in file.key
        /\ \A i \in DOMAIN file.pool : i < nKeys /\ file.pool[i] < nKeys
        /\ \A k \in given : k < nKeys

\* What is reserved.
Reserved ==
    /\ \A h \in Holders : holder[h].nIndex = NoIndex => holder[h].vchPubKey = NoKey
    /\ \A h \in Holders : holder[h].nIndex # NoIndex =>
          /\ holder[h].nIndex \in DOMAIN file.pool \ setKeyPool
          /\ holder[h].vchPubKey = file.pool[holder[h].nIndex]
    /\ \A g, h \in Holders : holder[g].nIndex # NoIndex /\ holder[g].nIndex = holder[h].nIndex => g = h

Covered == \A i \in DOMAIN file.pool : \E j \in setKeyPool : i <= j

Filled ==
    /\ op.pc \in {"topup", "topupwrite"} => op.size > 0
    /\ op.pc = "reserve" => \E i, j \in setKeyPool : i # j

Secrets ==
    /\ mapKeys = file.key
    /\ given \subseteq file.key /\ \A i \in DOMAIN file.pool : file.pool[i] \in file.key

IInv == Typed /\ Plain /\ Entries /\ Fresh /\ Reserved /\ Covered /\ Filled /\ Secrets

-----------------------------------------------------------------------------
(* Numbers and entries *)

\* A finite set of numbers that is not empty has a smallest one.
LEMMA MinFacts ==
  ASSUME NEW S \in SUBSET Nat, S # {}, IsFiniteSet(S)
  PROVE  Min(S) \in S /\ \A x \in S : Min(S) <= x
<1> DEFINE below(x) == {y \in S : y < x}
           T == {below(x) : x \in S}
<1>1. T \subseteq SUBSET S /\ T # {}
  OBVIOUS
<1>2. PICK u \in T : \A v \in T : ~(<<v, u>> \in StrictSubsetOrdering(S))
  <2> HIDE DEF T
  <2>1. IsWellFoundedOn(StrictSubsetOrdering(S), SUBSET S)
    BY FS_StrictSubsetOrderingWellFounded, FS_FiniteSubsetsOfFinite
  <2> QED
    BY <1>1, <2>1, WFMin
<1>3. PICK m \in S : u = below(m)
  BY <1>2
<1>4. \A y \in S : m =< y
  <2> SUFFICES ASSUME NEW y \in S, y < m PROVE FALSE
    OBVIOUS
  <2>1. y \in below(m) /\ y \notin below(y) /\ below(y) \in T
    OBVIOUS
  <2>2. \A z \in below(y) : z \in S /\ z \in Nat /\ y \in Nat /\ m \in Nat /\ z \in below(m)
    OBVIOUS
  <2>3. below(y) \subseteq below(m) /\ below(y) # below(m) /\ below(y) \subseteq S /\ below(m) \subseteq S
    BY <2>1, <2>2
  <2> QED
    <3> HIDE DEF T
    <3> QED
      BY <1>2, <1>3, <2>1, <2>3 DEF StrictSubsetOrdering
<1>5. Min(S) \in S /\ \A y \in S : Min(S) =< y
  BY <1>4 DEF Min
<1> QED
  BY <1>5

\* And a largest one.
LEMMA MaxFacts ==
  ASSUME NEW S \in SUBSET Nat, S # {}, IsFiniteSet(S)
  PROVE  Max(S) \in S /\ \A x \in S : x <= Max(S)
<1> DEFINE above(x) == {y \in S : y > x}
           T == {above(x) : x \in S}
<1>1. T \subseteq SUBSET S /\ T # {}
  OBVIOUS
<1>2. PICK u \in T : \A v \in T : ~(<<v, u>> \in StrictSubsetOrdering(S))
  <2> HIDE DEF T
  <2>1. IsWellFoundedOn(StrictSubsetOrdering(S), SUBSET S)
    BY FS_StrictSubsetOrderingWellFounded, FS_FiniteSubsetsOfFinite
  <2> QED
    BY <1>1, <2>1, WFMin
<1>3. PICK m \in S : u = above(m)
  BY <1>2
<1>4. \A y \in S : m >= y
  <2> SUFFICES ASSUME NEW y \in S, y > m PROVE FALSE
    OBVIOUS
  <2>1. y \in above(m) /\ y \notin above(y) /\ above(y) \in T
    OBVIOUS
  <2>2. \A z \in above(y) : z \in S /\ z \in Nat /\ y \in Nat /\ m \in Nat /\ z \in above(m)
    OBVIOUS
  <2>3. above(y) \subseteq above(m) /\ above(y) # above(m) /\ above(y) \subseteq S /\ above(m) \subseteq S
    BY <2>1, <2>2
  <2> QED
    <3> HIDE DEF T
    <3> QED
      BY <1>2, <1>3, <2>1, <2>3 DEF StrictSubsetOrdering
<1>5. Max(S) \in S /\ \A y \in S : Max(S) >= y
  BY <1>4 DEF Max
<1> QED
  BY <1>5

LEMMA PoolType ==
  ASSUME NEW f \in FileType
  PROVE  DOMAIN f.pool \subseteq Nat /\ \A i \in DOMAIN f.pool : f.pool[i] \in Nat
<1>1. f.pool \in Pools
  BY DEF FileType
<1>2. PICK D \in SUBSET Nat : f.pool \in [D -> Nat]
  BY <1>1 DEF Pools
<1> QED
  BY <1>2

\* What writing and erasing an entry do.
LEMMA WriteFacts ==
  ASSUME NEW f \in FileType, NEW i \in Nat, NEW k \in Nat
  PROVE  LET w == WritePool(f, i, k)
         IN /\ w \in FileType /\ w.key = f.key /\ w.ckey = f.ckey /\ w.defaultkey = f.defaultkey
            /\ DOMAIN w.pool = DOMAIN f.pool \cup {i}
            /\ \A j \in DOMAIN w.pool : w.pool[j] = IF j = i THEN k ELSE f.pool[j]
<1> DEFINE p == [j \in DOMAIN f.pool \cup {i} |-> IF j = i THEN k ELSE f.pool[j]]
           w == WritePool(f, i, k)
<1>1. /\ DOMAIN p = DOMAIN f.pool \cup {i}
      /\ \A j \in DOMAIN p : p[j] = IF j = i THEN k ELSE f.pool[j]
  OBVIOUS
<1>2. p \in [DOMAIN p -> Nat] /\ DOMAIN p \in SUBSET Nat
  BY <1>1, PoolType
<1>3. p \in Pools
  BY <1>2 DEF Pools
<1>4. w = [f EXCEPT !.pool = p]
  BY DEF WritePool
<1> HIDE DEF p, w
<1>5. w \in FileType /\ w.key = f.key /\ w.ckey = f.ckey /\ w.defaultkey = f.defaultkey /\ w.pool = p
  BY <1>3, <1>4 DEF FileType
<1> QED
  BY <1>1, <1>5 DEF w

LEMMA EraseFacts ==
  ASSUME NEW f \in FileType, NEW i
  PROVE  LET w == ErasePool(f, i)
         IN /\ w \in FileType /\ w.key = f.key /\ w.ckey = f.ckey /\ w.defaultkey = f.defaultkey
            /\ DOMAIN w.pool = DOMAIN f.pool \ {i}
            /\ \A j \in DOMAIN w.pool : w.pool[j] = f.pool[j]
<1> DEFINE p == [j \in DOMAIN f.pool \ {i} |-> f.pool[j]]
           w == ErasePool(f, i)
<1>1. p \in [DOMAIN p -> Nat] /\ DOMAIN p \in SUBSET Nat /\ DOMAIN p = DOMAIN f.pool \ {i}
      /\ \A j \in DOMAIN p : p[j] = f.pool[j]
  BY PoolType
<1>3. p \in Pools
  BY <1>1 DEF Pools
<1>4. w = [f EXCEPT !.pool = p]
  BY DEF ErasePool
<1> HIDE DEF p, w
<1>5. w \in FileType /\ w.key = f.key /\ w.ckey = f.ckey /\ w.defaultkey = f.defaultkey /\ w.pool = p
  BY <1>3, <1>4 DEF FileType
<1> QED
  BY <1>1, <1>5 DEF w

LEMMA PoolFacts ==
  ASSUME IInv
  PROVE  /\ DOMAIN file.pool \subseteq Nat /\ IsFiniteSet(DOMAIN file.pool)
         /\ setKeyPool \in SUBSET Nat /\ IsFiniteSet(setKeyPool)
         /\ \A i \in DOMAIN file.pool : file.pool[i] \in Nat
<1>1. DOMAIN file.pool \subseteq Nat /\ \A i \in DOMAIN file.pool : file.pool[i] \in Nat
  BY PoolType DEF IInv, Typed
<1>2. IsFiniteSet(1..nKeys)
  BY FS_Interval DEF IInv, Typed
<1>3. IsFiniteSet(DOMAIN file.pool)
  BY <1>2, FS_Subset DEF IInv, Entries
<1>4. setKeyPool \subseteq DOMAIN file.pool
  BY DEF IInv, Typed
<1> QED
  BY <1>1, <1>3, <1>4, FS_Subset

LEMMA SomePair ==
  ASSUME NEW S, IsFiniteSet(S), Cardinality(S) > 1
  PROVE  \E i, j \in S : i # j
<1>1. S # {}
  BY FS_EmptySet
<1>2. PICK i \in S : TRUE
  BY <1>1
<1>3. S # {i}
  BY FS_Singleton
<1> QED
  BY <1>2, <1>3

\* NEnd is a new index.
LEMMA NEndFacts ==
  ASSUME IInv, op.pc = "topupwrite"
  PROVE  /\ NEnd \in 1..nKeys
         /\ \A i \in DOMAIN file.pool : i < NEnd
<1>0. nKeys \in Nat /\ nKeys > 0
  BY DEF IInv, Typed, Fresh
<1>1. CASE setKeyPool = {}
  BY <1>0, <1>1 DEF IInv, Covered, NEnd
<1>2. CASE setKeyPool # {}
  <2>1. Max(setKeyPool) \in setKeyPool /\ \A x \in setKeyPool : x <= Max(setKeyPool)
    BY <1>2, PoolFacts, MaxFacts
  <2>2. Max(setKeyPool) \in Nat /\ Max(setKeyPool) < nKeys
    BY <2>1, PoolFacts DEF IInv, Typed, Fresh
  <2>3. NEnd = Max(setKeyPool) + 1
    BY <1>2 DEF NEnd
  <2>4. ASSUME NEW i \in DOMAIN file.pool PROVE i <= Max(setKeyPool)
    <3>1. PICK j \in setKeyPool : i <= j
      BY DEF IInv, Covered
    <3>2. i \in Nat /\ j \in Nat /\ j <= Max(setKeyPool)
      BY <2>1, PoolFacts
    <3> QED
      BY <2>2, <3>1, <3>2
  <2>5. \A i \in DOMAIN file.pool : i \in Nat
    BY PoolFacts
  <2> HIDE DEF NEnd
  <2> QED
    BY <1>0, <2>2, <2>3, <2>4, <2>5
<1> QED
  BY <1>1, <1>2

-----------------------------------------------------------------------------
(* Steps that leave the pool alone *)

LEMMA PlainFacts ==
  ASSUME IInv, op.pc # "encrypt"
  PROVE  fUseCrypto = FALSE /\ ~IsLocked /\ file.ckey = {}
  BY DEF IInv, Plain, IsLocked

LEMMA OpChanges ==
  ASSUME IInv, op' \in OpType, UNCHANGED <<file, mapKeys, setKeyPool, holder, nKeys, given>>,
         fUseCrypto' = FALSE \/ op'.pc = "encrypt",
         op'.pc # "topupwrite", op'.pc = "topup" => op'.size > 0,
         op'.pc = "reserve" => \E i, j \in setKeyPool : i # j
  PROVE  IInv'
<1>1. Typed' /\ Plain' /\ Entries'
  BY DEF IInv, Typed, Plain, Entries
<1>2. Fresh' /\ Filled'
  BY DEF IInv, Fresh, Filled
<1>3. Reserved' /\ Covered' /\ Secrets'
  BY DEF IInv, Reserved, Covered, Secrets
<1> QED
  BY <1>1, <1>2, <1>3 DEF IInv

LEMMA IdleFacts ==
  ASSUME KeyPoolAssumption, KeyPoolSize > 0
  PROVE  /\ Idle \in OpType /\ Idle.pc = "idle"
         /\ \A who \in Holders \cup {"none", "first", "rpc", "oldest"}, n \in Nat :
               LET o == [Idle EXCEPT !.pc = "topup", !.who = who, !.size = n]
               IN o \in OpType /\ o.pc = "topup" /\ o.size = n
         /\ \A n \in Nat : LET o == [Idle EXCEPT !.pc = "topup", !.size = n]
                           IN o \in OpType /\ o.pc = "topup" /\ o.size = n
         /\ FirstRun \in OpType /\ FirstRun.pc = "topup" /\ FirstRun.size > 0
<1>1. Idle \in OpType /\ Idle.pc = "idle"
  BY DEF Idle, OpType, Ops, NoKey
<1>2. \A who \in Holders \cup {"none", "first", "rpc", "oldest"}, n \in Nat :
          LET o == [Idle EXCEPT !.pc = "topup", !.who = who, !.size = n]
          IN o \in OpType /\ o.pc = "topup" /\ o.size = n
  BY <1>1 DEF OpType, Ops
<1>3. \A n \in Nat : LET o == [Idle EXCEPT !.pc = "topup", !.size = n]
                     IN o \in OpType /\ o.pc = "topup" /\ o.size = n
  BY <1>1 DEF OpType, Ops
<1>4. FirstRun \in OpType /\ FirstRun.pc = "topup" /\ FirstRun.size = KeyPoolSize
  BY <1>2, Zenon DEF FirstRun, KeyPoolAssumption
<1> QED
  BY <1>1, <1>2, <1>3, <1>4

LEMMA BeginStep ==
  ASSUME KeyPoolAssumption, KeyPoolSize > 0, IInv,
         \/ GetNewAddress \/ GetOldestKeyPoolTime \/ \E h \in Holders : GetReservedKey(h)
         \/ \E n \in Refills : KeypoolRefill(n)
  PROVE  IInv'
<1>a. op.pc = "idle"
  BY DEF GetNewAddress, GetOldestKeyPoolTime, GetReservedKey, KeypoolRefill
<1>b. fUseCrypto = FALSE /\ ~IsLocked
  BY <1>a, PlainFacts
<1>0. ~IsLocked /\ KeyPoolSize \in Nat
  BY <1>b DEF KeyPoolAssumption
<1>1. ASSUME NEW who \in Holders \cup {"none", "first", "rpc", "oldest"}, BeginReserve(who)
      PROVE  op' \in OpType /\ op'.pc = "topup" /\ op'.size > 0
  <2>1. op' = [Idle EXCEPT !.pc = "topup", !.who = who, !.size = KeyPoolSize]
    BY <1>0, <1>1 DEF BeginReserve
  <2>2. op' \in OpType /\ op'.pc = "topup" /\ op'.size = KeyPoolSize
    BY <1>0, <2>1, IdleFacts, Zenon
  <2> QED
    BY <2>2
<1>2. ASSUME NEW n \in Refills, KeypoolRefill(n)
      PROVE  op' \in OpType /\ op'.pc = "topup" /\ op'.size > 0
  <2>1. op' = [Idle EXCEPT !.pc = "topup", !.size = n]
    BY <1>2, Zenon DEF KeypoolRefill
  <2>3. n \in Nat /\ n > 0
    BY DEF KeyPoolAssumption
  <2>2. op' \in OpType /\ op'.pc = "topup" /\ op'.size = n
    BY <2>1, <2>3, IdleFacts, Zenon
  <2> QED
    BY <2>2, <2>3
<1>3. op' \in OpType /\ op'.pc = "topup" /\ op'.size > 0
  BY <1>1, <1>2 DEF GetNewAddress, GetOldestKeyPoolTime, GetReservedKey
<1>4. UNCHANGED <<file, mapKeys, fUseCrypto, setKeyPool, holder, nKeys, given>>
  BY DEF GetNewAddress, GetOldestKeyPoolTime, GetReservedKey, KeypoolRefill, memory, history
<1> QED
  BY <1>b, <1>3, <1>4, OpChanges

LEMMA TopUpDoneStep ==
  ASSUME KeyPoolAssumption, KeyPoolSize > 0, IInv, TopUpDone
  PROVE  IInv'
<1>1. op \in OpType /\ op.size > 0 /\ op.size \in Nat
  BY DEF TopUpDone, IInv, Typed, Filled, OpType
<1>2. \E i, j \in setKeyPool : i # j
  <2>1. Cardinality(setKeyPool) \in Nat /\ Cardinality(setKeyPool) >= op.size + 1
    BY PoolFacts, FS_CardinalityType DEF TopUpDone
  <2>2. Cardinality(setKeyPool) > 1
    BY <1>1, <2>1
  <2> QED
    BY <2>2, PoolFacts, SomePair
<1>3. op' \in OpType /\ op'.pc \in {"idle", "reserve"}
  <2>1. CASE op.who = "none"
    BY <2>1, IdleFacts DEF TopUpDone
  <2>2. CASE op.who # "none"
    <3>1. op' = [op EXCEPT !.pc = "reserve"]
      BY <2>2 DEF TopUpDone
    <3> QED
      BY <1>1, <3>1 DEF OpType, Ops
  <2> QED
    BY <2>1, <2>2
<1>b. fUseCrypto = FALSE
  BY PlainFacts DEF TopUpDone
<1>4. UNCHANGED <<file, mapKeys, fUseCrypto, setKeyPool, holder, nKeys, given>>
  BY DEF TopUpDone, memory, history
<1> QED
  BY <1>b, <1>2, <1>3, <1>4, OpChanges

\* Every index of the set can be read, so this one is returned.
LEMMA ReserveOldestStep ==
  ASSUME KeyPoolAssumption, KeyPoolSize > 0, IInv, ReserveOldest
  PROVE  IInv'
<1>b. fUseCrypto = FALSE
  BY PlainFacts DEF ReserveOldest
<1>1. \A i \in setKeyPool : Readable(i)
  BY <1>b DEF IInv, Typed, Secrets, Readable, HaveKey
<1>2. setKeyPool' = setKeyPool
  BY <1>1 DEF ReserveOldest
<1>3. op' \in OpType /\ op'.pc = "idle"
  BY IdleFacts DEF ReserveOldest
<1>4. UNCHANGED <<file, mapKeys, fUseCrypto, setKeyPool, holder, nKeys, given>>
  BY <1>2 DEF ReserveOldest, history
<1> QED
  BY <1>b, <1>3, <1>4, OpChanges

-----------------------------------------------------------------------------
(* Steps of the holders *)

\* The index that is returned is no one else's, and not larger than one of the set.
LEMMA ReturnKeyStep ==
  ASSUME IInv, NEW h \in Holders, ReturnKey(h)
  PROVE  IInv'
<1>1. UNCHANGED <<file, op, nKeys, given, mapKeys, fUseCrypto>>
  BY DEF ReturnKey, history
<1>2. NoReservation \in [nIndex : Nat \cup {NoIndex}, vchPubKey : Nat]
      /\ NoReservation.nIndex = NoIndex /\ NoReservation.vchPubKey = NoKey
  BY DEF NoReservation, NoIndex, NoKey
<1>3. /\ holder' \in [Holders -> [nIndex : Nat \cup {NoIndex}, vchPubKey : Nat]]
      /\ \A g \in Holders : holder'[g] = IF g = h THEN NoReservation ELSE holder[g]
  BY <1>2 DEF ReturnKey, IInv, Typed
<1>4. /\ setKeyPool \subseteq setKeyPool'
      /\ \A i \in setKeyPool' : i \in setKeyPool \/ (holder[h].nIndex # NoIndex /\ i = holder[h].nIndex)
  BY DEF ReturnKey
<1>5. Typed'
  BY <1>1, <1>3, <1>4 DEF IInv, Typed, Reserved
<1>6. Plain' /\ Entries' /\ Fresh' /\ Secrets'
  BY <1>1 DEF IInv, Plain, Entries, Fresh, Secrets
<1>7. Covered' /\ Filled'
  BY <1>1, <1>4 DEF IInv, Covered, Filled
<1>8. Reserved'
  BY <1>1, <1>2, <1>3, <1>4 DEF IInv, Reserved
<1> QED
  BY <1>5, <1>6, <1>7, <1>8 DEF IInv

\* The entry that is erased is no one else's.
LEMMA KeepKeyStep ==
  ASSUME IInv, NEW h \in Holders, KeepKey(h)
  PROVE  IInv'
<1> DEFINE i == holder[h].nIndex
<1>1. UNCHANGED <<op, nKeys, setKeyPool, mapKeys, fUseCrypto>>
  BY DEF KeepKey, memory
<1>2. i # NoIndex /\ i \in DOMAIN file.pool \ setKeyPool /\ holder[h].vchPubKey = file.pool[i]
  BY DEF KeepKey, IInv, Reserved
<1>3. file' = ErasePool(file, i) /\ given' = given \cup {file.pool[i]}
  BY <1>2 DEF KeepKey
<1>4. /\ file' \in FileType /\ file'.key = file.key /\ file'.ckey = file.ckey
      /\ DOMAIN file'.pool = DOMAIN file.pool \ {i}
      /\ \A j \in DOMAIN file'.pool : file'.pool[j] = file.pool[j]
  BY <1>3, EraseFacts DEF IInv, Typed
<1>5. NoReservation \in [nIndex : Nat \cup {NoIndex}, vchPubKey : Nat]
      /\ NoReservation.nIndex = NoIndex /\ NoReservation.vchPubKey = NoKey
  BY DEF NoReservation, NoIndex, NoKey
<1>6. /\ holder' \in [Holders -> [nIndex : Nat \cup {NoIndex}, vchPubKey : Nat]]
      /\ \A g \in Holders : holder'[g] = IF g = h THEN NoReservation ELSE holder[g]
  BY <1>5 DEF KeepKey, IInv, Typed
<1>7. Typed' /\ Plain'
  BY <1>1, <1>2, <1>4, <1>6 DEF IInv, Typed, Plain
<1>8. Entries'
  <2>1. file.pool[i] \in 1..nKeys /\ i \in DOMAIN file.pool
    BY <1>2 DEF IInv, Entries
  <2>2. \A j \in DOMAIN file.pool : j # i => file.pool[j] # file.pool[i]
    BY <1>2 DEF IInv, Entries
  <2> HIDE DEF i
  <2>3. given' \subseteq 1..nKeys'
    BY <1>1, <1>3, <2>1 DEF IInv, Entries
  <2>4. \A j \in DOMAIN file'.pool : file'.pool[j] \notin given'
    BY <1>3, <1>4, <2>2 DEF IInv, Entries
  <2> QED
    BY <1>1, <1>4, <2>3, <2>4 DEF IInv, Entries
<1>9. Fresh' /\ Secrets'
  BY <1>1, <1>2, <1>3, <1>4 DEF IInv, Fresh, Secrets
<1>10. Covered' /\ Filled'
  BY <1>1, <1>4 DEF IInv, Covered, Filled
<1>11. Reserved'
  <2>1. ASSUME NEW g \in Holders, g # h, holder[g].nIndex # NoIndex
        PROVE  holder[g].nIndex # i /\ holder[g].nIndex \in DOMAIN file.pool
               /\ holder[g].nIndex \notin setKeyPool /\ holder[g].vchPubKey = file.pool[holder[g].nIndex]
    BY <1>2, <2>1 DEF IInv, Reserved
  <2> HIDE DEF i
  <2> QED
    BY <1>1, <1>4, <1>5, <1>6, <2>1 DEF IInv, Reserved
<1> QED
  BY <1>7, <1>8, <1>9, <1>10, <1>11 DEF IInv

-----------------------------------------------------------------------------
(* Steps of TopUpKeyPool *)

LEMMA TopUpGenerateStep ==
  ASSUME IInv, TopUpGenerate
  PROVE  IInv'
<1>1. UNCHANGED <<setKeyPool, holder, given, fUseCrypto>> /\ nKeys' = nKeys + 1 /\ nKeys \in Nat
  BY DEF TopUpGenerate, GenerateNewKey, history, IInv, Typed
<1>b. fUseCrypto = FALSE /\ file.ckey = {}
  BY PlainFacts DEF TopUpGenerate
<1>2. mapKeys' = mapKeys \cup {nKeys + 1} /\ file' = [file EXCEPT !.key = @ \cup {nKeys + 1}]
  BY <1>b DEF TopUpGenerate, GenerateNewKey
<1>3. file' \in FileType /\ file'.key = file.key \cup {nKeys + 1} /\ file'.ckey = file.ckey /\ file'.pool = file.pool
  BY <1>1, <1>2 DEF IInv, Typed, FileType
<1>4. /\ op' \in OpType /\ op'.pc = "topupwrite" /\ op'.key = nKeys + 1
      /\ op'.size = op.size /\ op.size > 0
  <2>1. op' = [op EXCEPT !.pc = "topupwrite", !.key = nKeys + 1]
    BY DEF TopUpGenerate
  <2>2. nKeys + 1 \in Nat /\ op \in OpType /\ op.pc = "topup" /\ op.size > 0
    BY <1>1 DEF TopUpGenerate, IInv, Typed, Filled
  <2>3. \A k \in Nat : LET o == [op EXCEPT !.pc = "topupwrite", !.key = k]
                       IN o \in OpType /\ o.pc = "topupwrite" /\ o.key = k /\ o.size = op.size
    BY <2>2 DEF OpType, Ops
  <2> QED
    BY <2>1, <2>2, <2>3, Zenon
<1>5. Typed' /\ Plain' /\ Covered' /\ Filled'
  BY <1>b, <1>1, <1>3, <1>4 DEF IInv, Typed, Plain, Covered, Filled
<1>6. \A n : n \in 1..nKeys => n \in 1..(nKeys + 1) /\ n < nKeys + 1
  BY <1>1
<1>7. Entries'
  BY <1>1, <1>3, <1>6 DEF IInv, Entries
<1>8. Fresh'
  <2>1. \A n \in DOMAIN file.pool : n \in 1..nKeys /\ file.pool[n] \in 1..nKeys
    BY DEF IInv, Entries
  <2>2. \A k \in given : k \in 1..nKeys
    BY DEF IInv, Entries
  <2> QED
    BY <1>1, <1>3, <1>4, <1>6, <2>1, <2>2 DEF Fresh
<1>9. Reserved' /\ Secrets'
  BY <1>1, <1>2, <1>3 DEF IInv, Reserved, Secrets
<1> QED
  BY <1>5, <1>7, <1>8, <1>9 DEF IInv

\* The new entry has an index and a key that no other entry has.
LEMMA TopUpWriteStep ==
  ASSUME IInv, TopUpWrite
  PROVE  IInv'
<1>b. fUseCrypto = FALSE /\ file.ckey = {}
  BY PlainFacts DEF TopUpWrite
<1>1. UNCHANGED <<holder, nKeys, given, mapKeys, fUseCrypto>> /\ setKeyPool' = setKeyPool \cup {NEnd}
      /\ file' = WritePool(file, NEnd, op.key)
  BY DEF TopUpWrite, history
<1>2. NEnd \in 1..nKeys /\ \A i \in DOMAIN file.pool : i \in Nat /\ i < NEnd
  BY NEndFacts, PoolFacts DEF TopUpWrite
<1>3. /\ nKeys \in Nat /\ nKeys > 0 /\ op.key = nKeys /\ op.key \in file.key
      /\ \A i \in DOMAIN file.pool : file.pool[i] \in Nat /\ file.pool[i] < nKeys
      /\ \A k \in given : k < nKeys
  BY PoolFacts DEF TopUpWrite, IInv, Typed, Fresh
<1>4. /\ file' \in FileType /\ file'.key = file.key /\ file'.ckey = file.ckey
      /\ DOMAIN file'.pool = DOMAIN file.pool \cup {NEnd}
      /\ \A j \in DOMAIN file'.pool : file'.pool[j] = IF j = NEnd THEN nKeys ELSE file.pool[j]
  <2>1. NEnd \in Nat /\ op.key \in Nat /\ file \in FileType
    BY <1>2, <1>3 DEF IInv, Typed
  <2> QED
    BY <1>1, <1>3, <2>1, WriteFacts
<1>5. op' \in OpType /\ op'.pc = "topup" /\ op'.size = op.size /\ op.size > 0
  <2>1. \A k \in Nat : LET o == [op EXCEPT !.pc = "topup", !.key = k]
                       IN o \in OpType /\ o.pc = "topup" /\ o.size = op.size
    BY DEF IInv, Typed, OpType, Ops
  <2>2. NoKey \in Nat
    BY DEF NoKey
  <2>3. op' = [op EXCEPT !.pc = "topup", !.key = NoKey]
    BY Zenon DEF TopUpWrite
  <2>4. op' \in OpType /\ op'.pc = "topup" /\ op'.size = op.size
    BY <2>1, <2>2, <2>3, Zenon
  <2> QED
    BY <2>4 DEF TopUpWrite, IInv, Filled
<1>6. Typed' /\ Plain' /\ Filled'
  BY <1>b, <1>1, <1>4, <1>5 DEF IInv, Typed, Plain, Filled
<1>7. Entries'
  <2>1. NEnd \notin DOMAIN file.pool
    BY <1>2
  <2>2. DOMAIN file'.pool \subseteq 1..nKeys
    BY <1>2, <1>4 DEF IInv, Entries
  <2>3. \A j \in DOMAIN file'.pool : file'.pool[j] \in 1..nKeys
    BY <1>3, <1>4 DEF IInv, Entries
  <2>4. ASSUME NEW a \in DOMAIN file'.pool, NEW b \in DOMAIN file'.pool, file'.pool[a] = file'.pool[b]
        PROVE  a = b
    <3>1. CASE a = NEnd \/ b = NEnd
      BY <1>3, <1>4, <2>4, <3>1
    <3>2. CASE a # NEnd /\ b # NEnd
      BY <1>4, <2>4, <3>2 DEF IInv, Entries
    <3> QED
      BY <3>1, <3>2
  <2>5. \A j \in DOMAIN file'.pool : file'.pool[j] \notin given
    BY <1>3, <1>4 DEF IInv, Entries
  <2>6. given' \subseteq 1..nKeys'
    BY <1>1 DEF IInv, Entries
  <2> QED
    BY <1>1, <2>2, <2>3, <2>4, <2>5, <2>6 DEF Entries
<1>8. Fresh'
  BY <1>5 DEF Fresh
<1>9. Reserved'
  <2>1. NEnd \notin DOMAIN file.pool
    BY <1>2
  <2> QED
    BY <1>1, <1>4, <2>1 DEF IInv, Reserved
<1>10. Covered'
  <2>1. ASSUME NEW i \in DOMAIN file'.pool PROVE \E j \in setKeyPool' : i <= j
    BY <1>1, <1>2, <1>4
  <2> QED
    BY <2>1 DEF Covered
<1>11. Secrets'
  BY <1>1, <1>3, <1>4 DEF IInv, Secrets
<1> QED
  BY <1>6, <1>7, <1>8, <1>9, <1>10, <1>11 DEF IInv

-----------------------------------------------------------------------------
(* Steps that take an entry *)

\* The oldest index is taken; a larger one stays.
LEMMA OldestFacts ==
  ASSUME IInv, op.pc = "reserve"
  PROVE  /\ Min(setKeyPool) \in setKeyPool /\ Readable(Min(setKeyPool))
         /\ \A i \in DOMAIN file.pool : \E j \in setKeyPool \ {Min(setKeyPool)} : i <= j
<1> DEFINE m == Min(setKeyPool)
<1>1. PICK a, b \in setKeyPool : a # b
  BY DEF IInv, Filled
<1>2. m \in setKeyPool /\ \A x \in setKeyPool : m <= x
  BY <1>1, PoolFacts, MinFacts
<1> HIDE DEF m
<1>3. PICK c \in setKeyPool : c # m
  BY <1>1
<1>4. \A x \in setKeyPool : x \in Nat
  BY PoolFacts
<1>5. ASSUME NEW i \in DOMAIN file.pool PROVE \E j \in setKeyPool \ {m} : i <= j
  <2>1. PICK j \in setKeyPool : i <= j
    BY DEF IInv, Covered
  <2>2. CASE j # m
    BY <2>1, <2>2
  <2>3. CASE j = m
    <3>1. i \in Nat /\ m \in Nat /\ c \in Nat /\ m <= c /\ i <= m
      BY <1>2, <1>4, <2>1, <2>3, PoolFacts
    <3> QED
      BY <1>3, <3>1
  <2> QED
    BY <2>2, <2>3
<1>6. Readable(m)
  BY <1>2, PlainFacts DEF IInv, Typed, Secrets, Readable, HaveKey
<1> QED
  BY <1>2, <1>5, <1>6 DEF m

LEMMA ReserveForHolderStep ==
  ASSUME KeyPoolAssumption, KeyPoolSize > 0, IInv, ReserveForHolder
  PROVE  IInv'
<1> DEFINE m == Min(setKeyPool)
           r == [nIndex |-> m, vchPubKey |-> file.pool[m]]
           h == op.who
<1>b. fUseCrypto = FALSE /\ file.ckey = {}
  BY PlainFacts DEF ReserveForHolder
<1>1. UNCHANGED <<file, nKeys, given, mapKeys, fUseCrypto>> /\ h \in Holders
  BY DEF ReserveForHolder, history
<1>2. m \in setKeyPool /\ Readable(m) /\ \A i \in DOMAIN file.pool : \E j \in setKeyPool \ {m} : i <= j
  BY OldestFacts DEF ReserveForHolder
<1>3. setKeyPool' = setKeyPool \ {m} /\ holder' = [holder EXCEPT ![h] = r]
  BY <1>2 DEF ReserveForHolder
<1>4. op' \in OpType /\ op'.pc = "idle"
  BY IdleFacts DEF ReserveForHolder
<1>5. m \in Nat /\ file.pool[m] \in Nat /\ m \in DOMAIN file.pool /\ m # NoIndex
  BY <1>2, PoolFacts DEF IInv, Typed, NoIndex
<1>6. r.nIndex = m /\ r.vchPubKey = file.pool[m] /\ r \in [nIndex : Nat \cup {NoIndex}, vchPubKey : Nat]
  BY <1>5
<1> HIDE DEF m, r, h
<1>7. /\ holder' \in [Holders -> [nIndex : Nat \cup {NoIndex}, vchPubKey : Nat]]
      /\ \A g \in Holders : holder'[g] = IF g = h THEN r ELSE holder[g]
  BY <1>3, <1>6 DEF IInv, Typed
<1>8. Typed' /\ Plain' /\ Filled'
  BY <1>b, <1>1, <1>3, <1>4, <1>7 DEF IInv, Typed, Plain, Filled
<1>9. Entries' /\ Secrets'
  BY <1>1 DEF IInv, Entries, Secrets
<1>10. Fresh' /\ Covered'
  BY <1>1, <1>2, <1>3, <1>4 DEF Fresh, Covered
<1>11. Reserved'
  <2>1. ASSUME NEW g \in Holders, holder'[g].nIndex = NoIndex PROVE holder'[g].vchPubKey = NoKey
    BY <1>5, <1>6, <1>7, <2>1 DEF IInv, Reserved
  <2>2. ASSUME NEW g \in Holders, holder'[g].nIndex # NoIndex
        PROVE  /\ holder'[g].nIndex \in DOMAIN file'.pool \ setKeyPool'
               /\ holder'[g].vchPubKey = file'.pool[holder'[g].nIndex]
    BY <1>1, <1>3, <1>5, <1>6, <1>7, <2>2 DEF IInv, Reserved
  <2>3. ASSUME NEW f \in Holders, NEW g \in Holders,
               holder'[f].nIndex # NoIndex, holder'[f].nIndex = holder'[g].nIndex
        PROVE  f = g
    <3>1. \A k \in Holders : holder[k].nIndex # NoIndex => holder[k].nIndex # m
      BY <1>2 DEF IInv, Reserved
    <3> QED
      BY <1>6, <1>7, <2>3, <3>1 DEF IInv, Reserved
  <2> QED
    BY <2>1, <2>2, <2>3 DEF Reserved
<1> QED
  BY <1>8, <1>9, <1>10, <1>11 DEF IInv

\* The entry of the oldest index is erased as it is given.
LEMMA GetKeyFromPoolStep ==
  ASSUME KeyPoolAssumption, KeyPoolSize > 0, IInv, GetKeyFromPool
  PROVE  IInv'
<1> DEFINE i == Min(setKeyPool)
<1>b. fUseCrypto = FALSE /\ file.ckey = {}
  BY PlainFacts DEF GetKeyFromPool
<1>1. UNCHANGED <<holder, nKeys, mapKeys, fUseCrypto>>
  BY DEF GetKeyFromPool
<1>2. i \in setKeyPool /\ Readable(i) /\ \A x \in DOMAIN file.pool : \E j \in setKeyPool \ {i} : x <= j
  BY OldestFacts DEF GetKeyFromPool
<1>3. setKeyPool' = setKeyPool \ {i} /\ file' = ErasePool(file, i) /\ given' = given \cup {file.pool[i]}
  BY <1>2 DEF GetKeyFromPool
<1>4. i \in DOMAIN file.pool /\ file.pool[i] \in Nat
  BY <1>2, PoolFacts DEF IInv, Typed
<1>5. op' \in OpType /\ op'.pc \in {"idle", "setdefault"}
  <2>1. op' = Idle \/ op' = [op EXCEPT !.pc = "setdefault", !.key = file.pool[i]]
    BY DEF GetKeyFromPool
  <2>2. \A k \in Nat : LET o == [op EXCEPT !.pc = "setdefault", !.key = k]
                       IN o \in OpType /\ o.pc = "setdefault"
    BY DEF IInv, Typed, OpType, Ops
  <2> HIDE DEF i
  <2>3. CASE op' = Idle
    BY <2>3, IdleFacts
  <2>4. CASE op' = [op EXCEPT !.pc = "setdefault", !.key = file.pool[i]]
    <3>1. op' \in OpType /\ op'.pc = "setdefault"
      BY <1>4, <2>2, <2>4, Zenon
    <3> QED
      BY <3>1
  <2> QED
    BY <2>1, <2>3, <2>4
<1>6. /\ file' \in FileType /\ file'.key = file.key /\ file'.ckey = file.ckey
      /\ DOMAIN file'.pool = DOMAIN file.pool \ {i}
      /\ \A j \in DOMAIN file'.pool : file'.pool[j] = file.pool[j]
  BY <1>3, EraseFacts DEF IInv, Typed
<1> HIDE DEF i
<1>7. Typed' /\ Plain' /\ Filled'
  BY <1>b, <1>1, <1>3, <1>5, <1>6 DEF IInv, Typed, Plain, Filled
<1>8. Entries'
  <2>1. file.pool[i] \in 1..nKeys
    BY <1>4 DEF IInv, Entries
  <2>2. \A j \in DOMAIN file.pool : j # i => file.pool[j] # file.pool[i]
    BY <1>4 DEF IInv, Entries
  <2>3. given' \subseteq 1..nKeys'
    BY <1>1, <1>3, <2>1 DEF IInv, Entries
  <2>4. \A j \in DOMAIN file'.pool : file'.pool[j] \notin given'
    BY <1>3, <1>6, <2>2 DEF IInv, Entries
  <2> QED
    BY <1>1, <1>6, <2>3, <2>4 DEF IInv, Entries
<1>9. Fresh' /\ Secrets'
  BY <1>1, <1>3, <1>4, <1>5, <1>6 DEF IInv, Fresh, Secrets
<1>10. Covered'
  BY <1>2, <1>3, <1>6 DEF Covered
<1>11. Reserved'
  <2>1. \A g \in Holders : holder[g].nIndex # NoIndex => holder[g].nIndex # i
    BY <1>2 DEF IInv, Reserved
  <2> QED
    BY <1>1, <1>3, <1>6, <2>1 DEF IInv, Reserved
<1> QED
  BY <1>7, <1>8, <1>9, <1>10, <1>11 DEF IInv

LEMMA SetDefaultKeyStep ==
  ASSUME KeyPoolAssumption, KeyPoolSize > 0, IInv, SetDefaultKey
  PROVE  IInv'
<1>b. fUseCrypto = FALSE /\ file.ckey = {}
  BY PlainFacts DEF SetDefaultKey
<1>1. UNCHANGED <<holder, nKeys, given, mapKeys, fUseCrypto, setKeyPool>>
  BY DEF SetDefaultKey, memory, history
<1>2. op.key \in Nat
  BY DEF IInv, Typed, OpType
<1>3. file' \in FileType /\ file'.key = file.key /\ file'.ckey = file.ckey /\ file'.pool = file.pool
  BY <1>2 DEF SetDefaultKey, IInv, Typed, FileType
<1>4. op' \in OpType /\ op'.pc = "idle"
  BY IdleFacts DEF SetDefaultKey
<1>5. Typed' /\ Plain' /\ Entries' /\ Fresh'
  BY <1>b, <1>1, <1>3, <1>4 DEF IInv, Typed, Plain, Entries, Fresh
<1>6. Reserved' /\ Covered' /\ Filled' /\ Secrets'
  BY <1>1, <1>3, <1>4 DEF IInv, Reserved, Covered, Filled, Secrets
<1> QED
  BY <1>5, <1>6 DEF IInv

-----------------------------------------------------------------------------
(* Start and restart *)

LEMMA InitKeyPool ==
  ASSUME KeyPoolAssumption, KeyPoolSize > 0, Init
  PROVE  IInv
<1>1. /\ EmptyFile.key = {} /\ EmptyFile.ckey = {} /\ EmptyFile.pool = <<>> /\ EmptyFile.defaultkey = NoKey
      /\ NoKey \in Nat
  BY DEF EmptyFile, NoKey
<1>2. DOMAIN file.pool = {}
  BY <1>1 DEF Init
<1>3. file \in FileType
  <2>1. <<>> \in [{} -> Nat] /\ {} \in SUBSET Nat
    OBVIOUS
  <2>2. <<>> \in Pools
    BY <2>1, Zenon DEF Pools
  <2> QED
    BY <2>2 DEF Init, EmptyFile, FileType, NoKey
<1>4. NoReservation \in [nIndex : Nat \cup {NoIndex}, vchPubKey : Nat]
      /\ NoReservation.nIndex = NoIndex /\ NoReservation.vchPubKey = NoKey
  BY DEF NoReservation, NoIndex, NoKey
<1>5. op \in OpType /\ op.pc = "topup" /\ op.size > 0
  BY IdleFacts DEF Init
<1>6. Typed /\ Plain
  BY <1>1, <1>3, <1>4, <1>5 DEF Init, Typed, Plain
<1>7. Entries /\ Fresh /\ Covered /\ Filled
  BY <1>2, <1>5 DEF Init, Entries, Fresh, Covered, Filled
<1>8. Reserved /\ Secrets
  BY <1>1, <1>2, <1>4 DEF Init, Reserved, Secrets
<1> QED
  BY <1>6, <1>7, <1>8 DEF IInv

\* The entries of keys nobody kept come back into the set.
LEMMA RestartStep ==
  ASSUME KeyPoolAssumption, KeyPoolSize > 0, IInv, Restart
  PROVE  IInv'
<1>1. UNCHANGED <<file, nKeys, given>> /\ mapKeys' = file.key /\ setKeyPool' = DOMAIN file.pool
      /\ holder' = [h \in Holders |-> NoReservation]
  BY DEF Restart, history
<1>2. fUseCrypto' = FALSE
  <2>1. fUseCrypto' = (file.ckey # {})
    BY Zenon DEF Restart
  <2>2. file.ckey = {}
    BY DEF IInv, Plain
  <2> QED
    BY <2>1, <2>2, Zenon
<1>3. NoReservation \in [nIndex : Nat \cup {NoIndex}, vchPubKey : Nat]
      /\ NoReservation.nIndex = NoIndex /\ NoReservation.vchPubKey = NoKey
  BY DEF NoReservation, NoIndex, NoKey
<1>4. op' \in OpType /\ op'.pc \in {"idle", "topup"} /\ (op'.pc = "topup" => op'.size > 0)
  BY IdleFacts DEF Restart
<1>5. Typed'
  BY <1>1, <1>3, <1>4 DEF IInv, Typed
<1>6. Plain'
  BY <1>1, <1>2 DEF IInv, Plain
<1>7. Entries' /\ Secrets'
  BY <1>1 DEF IInv, Entries, Secrets
<1>8. Fresh' /\ Filled'
  BY <1>4 DEF Fresh, Filled
<1>9. Covered'
  <2>1. \A i \in DOMAIN file.pool : i <= i
    BY PoolFacts
  <2> QED
    BY <1>1, <2>1 DEF Covered
<1>10. Reserved'
  BY <1>1, <1>3 DEF Reserved
<1> QED
  BY <1>5, <1>6, <1>7, <1>8, <1>9, <1>10 DEF IInv

\* EncryptWallet begins with mapKeys as its list; the pool stays as it is.
LEMMA EncryptWalletStep ==
  ASSUME IInv, mapKeys \subseteq Nat, EncryptWallet
  PROVE  IInv'
<1>1. op' \in OpType /\ op'.pc = "encrypt"
  <2>1. Idle \in OpType
    BY DEF Idle, OpType, Ops, NoKey
  <2>2. op' = [Idle EXCEPT !.pc = "encrypt", !.todo = mapKeys]
    BY Zenon DEF EncryptWallet
  <2>3. \A T \in SUBSET Nat : LET o == [Idle EXCEPT !.pc = "encrypt", !.todo = T]
                              IN o \in OpType /\ o.pc = "encrypt"
    BY <2>1 DEF OpType, Ops
  <2>4. mapKeys \in SUBSET Nat
    OBVIOUS
  <2> QED
    BY <2>2, <2>3, <2>4, Zenon
<1>2. UNCHANGED <<file, mapKeys, setKeyPool, holder, nKeys, given>>
  BY DEF EncryptWallet, history
<1> QED
  BY <1>1, <1>2, OpChanges

LEMMA AddCryptedKeyStep ==
  ASSUME IInv, NEW k, AddCryptedKey(k)
  PROVE  IInv'
<1>1. op' \in OpType /\ op'.pc = "encrypt"
  BY DEF AddCryptedKey, IInv, Typed, OpType
<1>2. UNCHANGED <<file, mapKeys, setKeyPool, holder, nKeys, given>>
  BY DEF AddCryptedKey, history
<1> QED
  BY <1>1, <1>2, OpChanges

LEMMA LockStep ==
  ASSUME IInv, Lock
  PROVE  IInv'
<1>1. UNCHANGED <<file, op, nKeys, given, mapKeys, fUseCrypto, setKeyPool, holder>>
  BY DEF Lock, history
<1>2. Typed' /\ Plain' /\ Entries' /\ Fresh'
  BY <1>1 DEF IInv, Typed, Plain, Entries, Fresh
<1>3. Reserved' /\ Covered' /\ Filled' /\ Secrets'
  BY <1>1 DEF IInv, Reserved, Covered, Filled, Secrets
<1> QED
  BY <1>2, <1>3 DEF IInv

\* What ends the encryption leaves the mode that IInv is about; the other steps of an
\* encrypted wallet cannot be taken in it.
Uncrypted == fUseCrypto = FALSE \/ op.pc = "encrypt"

LEMMA OtherSteps ==
  ASSUME IInv
  PROVE  /\ ~Unlock /\ ~TopUpThrow /\ ~ReserveNothing
         /\ \A k : ~NewPoolErase(k)
         /\ ~NewPoolClear /\ ~NewPoolGenerate /\ ~NewPoolWrite /\ ~NewPoolDone
<1>2. op.pc \in Ops
  BY DEF IInv, Typed, OpType
<1>3. op.pc = "reserve" => setKeyPool # {}
  BY DEF IInv, Filled
<1>4. ~Unlock /\ ~TopUpThrow /\ ~ReserveNothing
  BY PlainFacts, <1>3 DEF Unlock, TopUpThrow, ReserveNothing
<1>5. \A k : ~NewPoolErase(k)
  BY <1>2 DEF Ops, NewPoolErase
<1>6. ~NewPoolClear /\ ~NewPoolGenerate /\ ~NewPoolWrite /\ ~NewPoolDone
  BY <1>2 DEF Ops, NewPoolClear, NewPoolGenerate, NewPoolWrite, NewPoolDone
<1> QED
  BY <1>4, <1>5, <1>6

LEMMA CommitEncrypts ==
  ASSUME IInv, fUseCrypto = TRUE, EncryptCommit
  PROVE  ~Uncrypted'
<1>1. op'.pc = "erase"
  BY DEF EncryptCommit, IInv, Typed, OpType
<1>2. fUseCrypto' = TRUE
  BY Zenon DEF EncryptCommit
<1> QED
  BY <1>1, <1>2 DEF Uncrypted

LEMMA PlainStep ==
  ASSUME KeyPoolAssumption, KeyPoolSize > 0, IInv, mapKeys \subseteq Nat, ~EncryptCommit, [Next]_vars
  PROVE  IInv'
<1>1. ASSUME NEW h \in Holders, GetReservedKey(h) \/ ReturnKey(h) \/ KeepKey(h)
      PROVE  IInv'
  BY <1>1, BeginStep, ReturnKeyStep, KeepKeyStep
<1>2. CASE GetNewAddress \/ GetOldestKeyPoolTime \/ \E n \in Refills : KeypoolRefill(n)
  BY <1>2, BeginStep
<1>3. CASE TopUpGenerate \/ TopUpWrite \/ TopUpDone
  BY <1>3, TopUpGenerateStep, TopUpWriteStep, TopUpDoneStep
<1>4. CASE ReserveForHolder \/ GetKeyFromPool \/ ReserveOldest \/ SetDefaultKey
  BY <1>4, ReserveForHolderStep, GetKeyFromPoolStep, ReserveOldestStep, SetDefaultKeyStep
<1>5. CASE EncryptWallet \/ Lock \/ \E k \in Keys : AddCryptedKey(k)
  BY <1>5, EncryptWalletStep, LockStep, AddCryptedKeyStep
<1>6. CASE Restart
  BY <1>6, RestartStep
<1>7. CASE UNCHANGED vars
  <2>1. UNCHANGED <<file, op, nKeys, given, mapKeys, fUseCrypto, setKeyPool, holder>>
    BY <1>7 DEF vars, memory, history
  <2>2. Typed' /\ Plain' /\ Entries' /\ Fresh'
    BY <2>1 DEF IInv, Typed, Plain, Entries, Fresh
  <2>3. Reserved' /\ Covered' /\ Filled' /\ Secrets'
    BY <2>1 DEF IInv, Reserved, Covered, Filled, Secrets
  <2> QED
    BY <2>2, <2>3 DEF IInv
<1> QED
  BY <1>1, <1>2, <1>3, <1>4, <1>5, <1>6, <1>7, OtherSteps, Zenon DEF Next

-----------------------------------------------------------------------------
(* Encryption, for every size of the pool *)

AnyOpType ==
    [pc : Ops \cup {"erase", "newpool", "newwrite"}, who : Holders \cup {"none", "first", "rpc", "oldest"},
     size : Nat, key : Nat, todo : SUBSET Nat]

\* The keys the file has, plain or encrypted.
Known == file.key \cup file.ckey

Reservations == [nIndex : {NoIndex} \cup 1..nKeys, vchPubKey : Known \cup {NoKey}]

Shape == file \in FileType /\ txn \in FileType /\ op \in AnyOpType /\ nKeys \in 0..MaxKeys

Flags == fUseCrypto \in BOOLEAN /\ fLocked \in BOOLEAN

PoolFits ==
    /\ setKeyPool \subseteq 1..nKeys
    /\ DOMAIN file.pool \subseteq 1..nKeys
    /\ \A i \in DOMAIN file.pool : file.pool[i] \in Known

HoldersFit == holder \in [Holders -> Reservations]

KeysFit ==
    /\ Known \subseteq 1..nKeys
    /\ given \subseteq Known /\ retired \subseteq 1..nKeys
    /\ file.defaultkey \in Known \cup {NoKey}

\* The index that comes next is not larger than the number of keys, and the new key is recorded.
OpFits ==
    /\ op.pc = "topupwrite" => setKeyPool \subseteq 1..(nKeys - 1) /\ nKeys > 0
    /\ op.pc = "newpool" => op.size <= nKeys
    /\ op.pc = "newwrite" => op.size < nKeys
    /\ op.pc \in {"topupwrite", "newwrite", "setdefault"} => op.key \in Known

\* Outside EncryptWallet the file and the memory have keys of one kind; within it the
\* transaction has each key once and the file has them all.
Ciphered ==
    /\ fUseCrypto = FALSE => file.ckey = {} /\ mapCryptedKeys = {} /\ mapKeys = file.key
    /\ fUseCrypto = TRUE /\ op.pc # "encrypt" =>
          file.key = {} /\ mapCryptedKeys = file.ckey /\ mapKeys = {}
    /\ op.pc = "encrypt" =>
          /\ fUseCrypto = TRUE /\ file.ckey = {} /\ mapKeys = file.key
          /\ txn.key = op.todo /\ txn.ckey = mapCryptedKeys
          /\ op.todo \cup mapCryptedKeys = mapKeys
          /\ txn.defaultkey = file.defaultkey

TxnFits ==
    /\ DOMAIN txn.pool \subseteq 1..nKeys
    /\ \A i \in DOMAIN txn.pool : txn.pool[i] \in 1..nKeys
    /\ op.pc # "encrypt" => txn = EmptyFile

CryptInv ==
    Shape /\ Flags /\ PoolFits /\ HoldersFit /\ KeysFit /\ OpFits /\ Ciphered /\ TxnFits

\* A wallet without a key is not encrypted and fills its pool.
NotEmpty == Known # {} \/ (fUseCrypto = FALSE /\ op.pc = "topup")

GInv == CryptInv /\ NotEmpty /\ (Uncrypted => IInv)

-----------------------------------------------------------------------------
\* The file that is empty.
LEMMA EmptyFacts ==
  /\ EmptyFile \in FileType /\ EmptyFile.key = {} /\ EmptyFile.ckey = {} /\ EmptyFile.pool = <<>>
  /\ EmptyFile.defaultkey = NoKey /\ DOMAIN EmptyFile.pool = {}
<1>1. <<>> \in [{} -> Nat] /\ {} \in SUBSET Nat /\ DOMAIN <<>> = {}
  OBVIOUS
<1>2. <<>> \in Pools
  BY <1>1, Zenon DEF Pools
<1>3. /\ EmptyFile.key = {} /\ EmptyFile.ckey = {} /\ EmptyFile.pool = <<>>
      /\ EmptyFile.defaultkey = NoKey
  BY DEF EmptyFile
<1>4. EmptyFile \in FileType
  BY <1>2 DEF EmptyFile, FileType, NoKey
<1> QED
  BY <1>1, <1>3, <1>4

LEMMA AnyOps ==
  ASSUME KeyPoolAssumption
  PROVE  /\ Idle \in AnyOpType /\ Idle.pc = "idle"
         /\ FirstRun \in AnyOpType /\ FirstRun.pc = "topup"
         /\ \A o \in AnyOpType, p \in Ops \cup {"erase", "newpool", "newwrite"} :
               LET n == [o EXCEPT !.pc = p] IN n \in AnyOpType /\ n.pc = p
         /\ \A o \in AnyOpType, p \in Ops \cup {"erase", "newpool", "newwrite"}, k \in Nat :
               LET n == [o EXCEPT !.pc = p, !.key = k]
               IN n \in AnyOpType /\ n.pc = p /\ n.key = k /\ n.size = o.size
         /\ \A o \in AnyOpType, T \in SUBSET Nat :
               LET n == [o EXCEPT !.todo = T] IN n \in AnyOpType /\ n.pc = o.pc /\ n.todo = T
<1>0. KeyPoolSize \in Nat
  BY DEF KeyPoolAssumption
<1>1. Idle \in AnyOpType /\ Idle.pc = "idle"
  BY DEF Idle, AnyOpType, Ops, NoKey
<1>2. FirstRun \in AnyOpType /\ FirstRun.pc = "topup"
  BY <1>0, <1>1 DEF FirstRun, AnyOpType, Ops
<1>3. \A o \in AnyOpType, p \in Ops \cup {"erase", "newpool", "newwrite"} :
          LET n == [o EXCEPT !.pc = p] IN n \in AnyOpType /\ n.pc = p
  BY DEF AnyOpType
<1>4. \A o \in AnyOpType, p \in Ops \cup {"erase", "newpool", "newwrite"}, k \in Nat :
          LET n == [o EXCEPT !.pc = p, !.key = k]
          IN n \in AnyOpType /\ n.pc = p /\ n.key = k /\ n.size = o.size
  BY DEF AnyOpType
<1>5. \A o \in AnyOpType, T \in SUBSET Nat :
          LET n == [o EXCEPT !.todo = T] IN n \in AnyOpType /\ n.pc = o.pc /\ n.todo = T
  BY DEF AnyOpType
<1> QED
  BY <1>1, <1>2, <1>3, <1>4, <1>5

LEMMA CryptFacts ==
  ASSUME CryptInv
  PROVE  /\ nKeys \in Nat /\ IsFiniteSet(setKeyPool) /\ setKeyPool \in SUBSET Nat
         /\ NoReservation \in Reservations
<1>1. nKeys \in Nat
  BY DEF CryptInv, Shape
<1>2. IsFiniteSet(1..nKeys)
  BY <1>1, FS_Interval
<1>3. IsFiniteSet(setKeyPool)
  BY <1>2, FS_Subset DEF CryptInv, PoolFits
<1>4. setKeyPool \in SUBSET Nat
  BY <1>1 DEF CryptInv, PoolFits
<1>5. NoReservation \in Reservations
  BY DEF NoReservation, Reservations
<1> QED
  BY <1>1, <1>3, <1>4, <1>5

\* A step that leaves the keys and their encryption alone.
LEMMA CryptKeeps ==
  ASSUME CryptInv, UNCHANGED <<txn, mapKeys, mapCryptedKeys, fUseCrypto, nKeys>>,
         file' \in FileType, file'.key = file.key, file'.ckey = file.ckey,
         file'.defaultkey = file.defaultkey \/ (op.pc # "encrypt" /\ file'.defaultkey \in Known),
         op' \in AnyOpType, (op.pc = "encrypt") <=> (op'.pc = "encrypt"),
         op.pc = "encrypt" => op' = op,
         Flags', PoolFits', HoldersFit', OpFits', given' \subseteq Known, retired' \subseteq 1..nKeys
  PROVE  CryptInv'
<1>1. Known' = Known
  BY DEF Known
<1>2. Shape'
  BY DEF CryptInv, Shape
<1>3. KeysFit'
  BY <1>1 DEF CryptInv, KeysFit
<1>4. Ciphered'
  BY DEF CryptInv, Ciphered
<1>5. TxnFits'
  BY DEF CryptInv, TxnFits
<1> QED
  BY <1>2, <1>3, <1>4, <1>5 DEF CryptInv

\* And one that leaves the file alone too.
LEMMA CryptFile ==
  ASSUME CryptInv, UNCHANGED <<file, txn, mapKeys, mapCryptedKeys, fUseCrypto, nKeys, given>>,
         op' \in AnyOpType, (op.pc = "encrypt") <=> (op'.pc = "encrypt"),
         op.pc = "encrypt" => op' = op, Flags', OpFits',
         setKeyPool' \subseteq 1..nKeys, holder' \in [Holders -> Reservations], retired' \subseteq 1..nKeys
  PROVE  CryptInv'
<1>1. Known' = Known /\ Reservations' = Reservations
  BY DEF Known, Reservations
<1>2. file' \in FileType /\ given' \subseteq Known
  BY DEF CryptInv, Shape, KeysFit
<1>3. PoolFits'
  BY <1>1 DEF CryptInv, PoolFits
<1>4. HoldersFit'
  BY <1>1 DEF HoldersFit
<1> QED
  BY <1>2, <1>3, <1>4, CryptKeeps

LEMMA CryptOp ==
  ASSUME CryptInv, UNCHANGED <<file, txn, mapKeys, mapCryptedKeys, fUseCrypto, setKeyPool, holder, nKeys, history>>,
         op' \in AnyOpType, op.pc # "encrypt", op'.pc \in {"idle", "topup", "reserve"}, Flags'
  PROVE  CryptInv'
<1>1. OpFits'
  BY DEF OpFits
<1>2. setKeyPool' \subseteq 1..nKeys /\ retired' \subseteq 1..nKeys /\ given' = given
  BY DEF CryptInv, PoolFits, KeysFit, history
<1>3. holder' \in [Holders -> Reservations]
  BY DEF CryptInv, HoldersFit
<1> QED
  BY <1>1, <1>2, <1>3, CryptFile

LEMMA BeginCrypt ==
  ASSUME KeyPoolAssumption, CryptInv, Flags',
         \/ GetNewAddress \/ GetOldestKeyPoolTime \/ \E h \in Holders : GetReservedKey(h)
         \/ \E n \in Refills : KeypoolRefill(n)
         \/ Unlock
  PROVE  CryptInv'
<1>1. ASSUME NEW who \in Holders \cup {"none", "first", "rpc", "oldest"}, BeginReserve(who)
      PROVE  op' \in AnyOpType /\ op'.pc \in {"topup", "reserve"}
  <2>1. PICK p \in {"topup", "reserve"} :
            op' = [Idle EXCEPT !.pc = p, !.who = who, !.size = KeyPoolSize]
    BY <1>1 DEF BeginReserve
  <2>2. KeyPoolSize \in Nat /\ Idle \in AnyOpType
    BY AnyOps DEF KeyPoolAssumption
  <2>3. \A q \in {"topup", "reserve"}, n \in Nat :
            LET o == [Idle EXCEPT !.pc = q, !.who = who, !.size = n]
            IN o \in AnyOpType /\ o.pc = q
    BY <2>2 DEF AnyOpType, Ops
  <2>4. op' \in AnyOpType /\ op'.pc = p
    BY <2>1, <2>2, <2>3, Zenon
  <2> QED
    BY <2>4
<1>2. ASSUME NEW n \in Nat, op' = [Idle EXCEPT !.pc = "topup", !.size = n]
      PROVE  op' \in AnyOpType /\ op'.pc \in {"topup", "reserve"}
  <2>1. Idle \in AnyOpType
    BY AnyOps
  <2>2. [Idle EXCEPT !.pc = "topup", !.size = n] \in AnyOpType
        /\ [Idle EXCEPT !.pc = "topup", !.size = n].pc = "topup"
    BY <2>1 DEF AnyOpType, Ops
  <2> QED
    BY <1>2, <2>2
<1>3. op' \in AnyOpType /\ op'.pc \in {"topup", "reserve"}
  <2>1. CASE GetNewAddress \/ GetOldestKeyPoolTime \/ \E h \in Holders : GetReservedKey(h)
    BY <1>1, <2>1 DEF GetNewAddress, GetOldestKeyPoolTime, GetReservedKey
  <2>2. ASSUME NEW n \in Refills, KeypoolRefill(n)
        PROVE  op' \in AnyOpType /\ op'.pc \in {"topup", "reserve"}
    <3>1. op' = [Idle EXCEPT !.pc = "topup", !.size = n]
      BY <2>2, Zenon DEF KeypoolRefill
    <3>2. n \in Nat
      BY DEF KeyPoolAssumption
    <3> QED
      BY <1>2, <3>1, <3>2, Zenon
  <2>3. CASE Unlock
    <3>1. op' = [Idle EXCEPT !.pc = "topup", !.size = KeyPoolSize]
      BY <2>3, Zenon DEF Unlock
    <3>2. KeyPoolSize \in Nat
      BY DEF KeyPoolAssumption
    <3> QED
      BY <1>2, <3>1, <3>2, Zenon
  <2> QED
    BY <2>1, <2>2, <2>3
<1>4. /\ UNCHANGED <<file, txn, mapKeys, mapCryptedKeys, fUseCrypto, setKeyPool, holder, nKeys, history>>
      /\ op.pc = "idle"
  BY DEF GetNewAddress, GetOldestKeyPoolTime, GetReservedKey, KeypoolRefill, Unlock, memory
<1> QED
  BY <1>3, <1>4, CryptOp

LEMMA TopUpEndsCrypt ==
  ASSUME KeyPoolAssumption, CryptInv, Flags', TopUpThrow \/ TopUpDone
  PROVE  CryptInv'
<1>1. op.pc = "topup"
      /\ UNCHANGED <<file, txn, mapKeys, mapCryptedKeys, fUseCrypto, setKeyPool, holder, nKeys, history>>
  BY DEF TopUpThrow, TopUpDone, memory
<1>2. op' = Idle \/ op' = [op EXCEPT !.pc = "reserve"]
  BY DEF TopUpThrow, TopUpDone
<1>3. op' \in AnyOpType /\ op'.pc \in {"idle", "reserve"}
  <2>1. [op EXCEPT !.pc = "reserve"] \in AnyOpType /\ [op EXCEPT !.pc = "reserve"].pc = "reserve"
    BY DEF CryptInv, Shape, AnyOpType, Ops
  <2> QED
    BY <1>2, <2>1, AnyOps
<1> QED
  BY <1>1, <1>3, CryptOp

LEMMA ReserveCrypt ==
  ASSUME KeyPoolAssumption, CryptInv, Flags', ReserveNothing \/ ReserveForHolder \/ ReserveOldest
  PROVE  CryptInv'
<1> DEFINE m == Min(setKeyPool)
<1>1. op.pc = "reserve" /\ op' = Idle
      /\ UNCHANGED <<file, txn, mapKeys, mapCryptedKeys, fUseCrypto, nKeys, history>>
  BY DEF ReserveNothing, ReserveForHolder, ReserveOldest, memory
<1>2. op' \in AnyOpType /\ op'.pc = "idle"
  BY <1>1, AnyOps
<1>3. setKeyPool' \subseteq 1..nKeys
  <2>1. setKeyPool' \subseteq setKeyPool
    BY DEF ReserveNothing, ReserveForHolder, ReserveOldest, memory
  <2> QED
    BY <2>1 DEF CryptInv, PoolFits
<1>4. \A i, k : i \in {NoIndex} \cup 1..nKeys /\ k \in Known \cup {NoKey}
                   => [nIndex |-> i, vchPubKey |-> k] \in Reservations
  BY DEF Reservations
<1>5. \A h \in Holders, r \in Reservations : [holder EXCEPT ![h] = r] \in [Holders -> Reservations]
  BY DEF CryptInv, HoldersFit
<1>6. holder' \in [Holders -> Reservations]
  <2>1. CASE holder' = holder
    BY <2>1 DEF CryptInv, HoldersFit
  <2>2. CASE ReserveNothing /\ op.who \in Holders
    <3>1. file.defaultkey \in Known \cup {NoKey}
      BY DEF CryptInv, KeysFit
    <3>2. [nIndex |-> NoIndex, vchPubKey |-> file.defaultkey] \in Reservations
      BY <1>4, <3>1
    <3>3. holder' = [holder EXCEPT ![op.who] = [nIndex |-> NoIndex, vchPubKey |-> file.defaultkey]]
      BY <2>2 DEF ReserveNothing
    <3> QED
      BY <1>5, <2>2, <3>2, <3>3, Zenon
  <2>3. CASE ReserveForHolder
    <3>1. setKeyPool # {} /\ op.who \in Holders
          /\ holder' = [holder EXCEPT ![op.who] =
                 [nIndex |-> m, vchPubKey |-> IF Readable(m) THEN file.pool[m] ELSE NoKey]]
      BY <2>3 DEF ReserveForHolder
    <3>2. m \in setKeyPool
      BY <3>1, CryptFacts, MinFacts
    <3>3. m \in 1..nKeys
      BY <3>2 DEF CryptInv, PoolFits
    <3>4. (IF Readable(m) THEN file.pool[m] ELSE NoKey) \in Known \cup {NoKey}
      BY DEF Readable, CryptInv, PoolFits
    <3>5. [nIndex |-> m, vchPubKey |-> IF Readable(m) THEN file.pool[m] ELSE NoKey] \in Reservations
      BY <1>4, <3>3, <3>4, Zenon
    <3> QED
      BY <1>5, <3>1, <3>5, Zenon
  <2> QED
    BY <2>1, <2>2, <2>3 DEF ReserveNothing, ReserveOldest
<1>7. retired' \subseteq 1..nKeys /\ given' = given
  BY <1>1 DEF CryptInv, KeysFit, history
<1>8. OpFits'
  BY <1>2 DEF OpFits
<1> QED
  BY <1>1, <1>2, <1>3, <1>6, <1>7, <1>8, CryptFile

LEMMA ReturnKeyCrypt ==
  ASSUME CryptInv, Flags', NEW h \in Holders, ReturnKey(h)
  PROVE  CryptInv'
<1>1. op.pc = "idle" /\ UNCHANGED <<file, txn, mapKeys, mapCryptedKeys, fUseCrypto, op, nKeys, history>>
  BY DEF ReturnKey
<1>2. holder[h].nIndex \in {NoIndex} \cup 1..nKeys
  BY DEF CryptInv, HoldersFit, Reservations
<1>3. setKeyPool' \subseteq 1..nKeys
  BY <1>2 DEF ReturnKey, CryptInv, PoolFits
<1>4. holder' \in [Holders -> Reservations]
  BY CryptFacts DEF ReturnKey, CryptInv, HoldersFit
<1>5. retired' \subseteq 1..nKeys /\ given' = given /\ op' \in AnyOpType
  BY <1>1 DEF CryptInv, KeysFit, history, Shape
<1>6. OpFits'
  BY <1>1 DEF OpFits
<1> QED
  BY <1>1, <1>3, <1>4, <1>5, <1>6, CryptFile

LEMMA LockCrypt ==
  ASSUME CryptInv, Flags', Lock
  PROVE  CryptInv'
<1>1. UNCHANGED <<file, txn, mapKeys, mapCryptedKeys, fUseCrypto, setKeyPool, op, nKeys, holder, history>>
  BY DEF Lock
<1>2. setKeyPool' \subseteq 1..nKeys /\ retired' \subseteq 1..nKeys /\ given' = given /\ op' \in AnyOpType
  BY <1>1 DEF CryptInv, KeysFit, PoolFits, history, Shape
<1>3. holder' \in [Holders -> Reservations]
  BY <1>1 DEF CryptInv, HoldersFit
<1>4. OpFits'
  BY <1>1 DEF CryptInv, OpFits, Known
<1> QED
  BY <1>1, <1>2, <1>3, <1>4, CryptFile

LEMMA NewPoolCrypt ==
  ASSUME KeyPoolAssumption, CryptInv, Flags', NewPoolClear \/ NewPoolDone
  PROVE  CryptInv'
<1>1. op.pc \in {"erase", "newpool"}
      /\ UNCHANGED <<file, txn, mapKeys, mapCryptedKeys, fUseCrypto, nKeys, holder, given>>
  BY DEF NewPoolClear, NewPoolDone, history
<1>2. op' \in AnyOpType /\ op'.pc \in {"newpool", "idle"} /\ (op'.pc = "newpool" => op'.size = 0)
  <2>1. op' = Idle \/ op' = [op EXCEPT !.pc = "newpool", !.size = 0]
    BY DEF NewPoolClear, NewPoolDone
  <2>2. LET o == [op EXCEPT !.pc = "newpool", !.size = 0]
        IN o \in AnyOpType /\ o.pc = "newpool" /\ o.size = 0
    BY DEF CryptInv, Shape, AnyOpType
  <2> QED
    BY <2>1, <2>2, AnyOps
<1>3. OpFits'
  BY <1>1, <1>2, CryptFacts DEF OpFits
<1>4. setKeyPool' \subseteq 1..nKeys
  BY DEF NewPoolClear, NewPoolDone, CryptInv, PoolFits
<1>5. retired' \subseteq 1..nKeys
  BY DEF NewPoolClear, NewPoolDone, CryptInv, KeysFit, history
<1>6. holder' \in [Holders -> Reservations]
  BY <1>1 DEF CryptInv, HoldersFit
<1> QED
  BY <1>1, <1>2, <1>3, <1>4, <1>5, <1>6, CryptFile

\* An entry of the file is erased.
LEMMA EraseCrypt ==
  ASSUME CryptInv, NEW i, file' = ErasePool(file, i), nKeys' = nKeys, setKeyPool' \subseteq setKeyPool
  PROVE  /\ file' \in FileType /\ file'.key = file.key /\ file'.ckey = file.ckey
         /\ file'.defaultkey = file.defaultkey /\ PoolFits' /\ Known' = Known
<1>1. file \in FileType
  BY DEF CryptInv, Shape
<1>2. /\ file' \in FileType /\ file'.key = file.key /\ file'.ckey = file.ckey
      /\ file'.defaultkey = file.defaultkey
      /\ DOMAIN file'.pool = DOMAIN file.pool \ {i}
      /\ \A j \in DOMAIN file'.pool : file'.pool[j] = file.pool[j]
  BY <1>1, EraseFacts
<1>3. Known' = Known
  BY <1>2 DEF Known
<1>4. PoolFits'
  BY <1>2, <1>3 DEF CryptInv, PoolFits
<1> QED
  BY <1>2, <1>3, <1>4

\* The step of KeepKey, which can come in the middle of any other operation.
LEMMA KeepKeyCrypt ==
  ASSUME CryptInv, Flags', NEW h \in Holders, KeepKey(h)
  PROVE  CryptInv'
<1>1. UNCHANGED <<txn, mapKeys, mapCryptedKeys, fUseCrypto, setKeyPool, op, nKeys, retired>>
      /\ holder' = [holder EXCEPT ![h] = NoReservation]
  BY DEF KeepKey, memory
<1>2. file' = file \/ file' = ErasePool(file, holder[h].nIndex)
  BY DEF KeepKey
<1>3. /\ file' \in FileType /\ file'.key = file.key /\ file'.ckey = file.ckey
      /\ file'.defaultkey = file.defaultkey /\ PoolFits' /\ Known' = Known
  <2>1. CASE file' = file
    BY <1>1, <2>1 DEF CryptInv, Shape, PoolFits, Known
  <2>2. CASE file' = ErasePool(file, holder[h].nIndex)
    BY <1>1, <2>2, EraseCrypt
  <2> QED
    BY <1>2, <2>1, <2>2
<1>4. HoldersFit'
  BY <1>1, <1>3, CryptFacts DEF CryptInv, HoldersFit, Reservations
<1>5. given' \subseteq Known
  <2>1. holder[h].vchPubKey \in Known \cup {NoKey}
    BY DEF CryptInv, HoldersFit, Reservations
  <2> QED
    BY <2>1 DEF KeepKey, CryptInv, KeysFit
<1>6. OpFits' /\ op' \in AnyOpType /\ retired' \subseteq 1..nKeys
  BY <1>1, <1>3 DEF CryptInv, OpFits, Shape, KeysFit
<1> QED
  BY <1>1, <1>3, <1>4, <1>5, <1>6, CryptKeeps

LEMMA GetKeyCrypt ==
  ASSUME KeyPoolAssumption, CryptInv, Flags', GetKeyFromPool
  PROVE  CryptInv'
<1> DEFINE i == Min(setKeyPool)
<1>1. op.pc = "reserve"
      /\ UNCHANGED <<txn, mapKeys, mapCryptedKeys, fUseCrypto, holder, nKeys, retired>>
      /\ setKeyPool' \subseteq setKeyPool
  BY DEF GetKeyFromPool
<1>2. file' = file \/ file' = ErasePool(file, i)
  BY DEF GetKeyFromPool
<1>3. /\ file' \in FileType /\ file'.key = file.key /\ file'.ckey = file.ckey
      /\ file'.defaultkey = file.defaultkey /\ PoolFits' /\ Known' = Known
  <2>1. CASE file' = file
    BY <1>1, <2>1 DEF CryptInv, Shape, PoolFits, Known
  <2>2. CASE file' = ErasePool(file, i)
    BY <1>1, <2>2, EraseCrypt
  <2> QED
    BY <1>2, <2>1, <2>2
<1>4. HoldersFit'
  BY <1>1, <1>3 DEF CryptInv, HoldersFit, Reservations
<1>5. Readable(i) => file.pool[i] \in Known
  BY DEF Readable, CryptInv, PoolFits
<1>6. given' \subseteq Known /\ retired' \subseteq 1..nKeys
  BY <1>1, <1>5 DEF GetKeyFromPool, CryptInv, KeysFit
<1>7. op' \in AnyOpType /\ op'.pc \in {"idle", "setdefault"} /\ (op'.pc = "setdefault" => op'.key \in Known)
  <2>1. op' = Idle \/ (Readable(i) /\ op' = [op EXCEPT !.pc = "setdefault", !.key = file.pool[i]])
    BY DEF GetKeyFromPool
  <2>2. CASE op' = Idle
    BY <2>2, AnyOps
  <2>3. CASE Readable(i) /\ op' = [op EXCEPT !.pc = "setdefault", !.key = file.pool[i]]
    <3>1. file.pool[i] \in Known /\ file.pool[i] \in Nat
      BY <1>5, <2>3, CryptFacts DEF CryptInv, KeysFit
    <3>2. \A k \in Nat : LET o == [op EXCEPT !.pc = "setdefault", !.key = k]
                         IN o \in AnyOpType /\ o.pc = "setdefault" /\ o.key = k
      BY DEF CryptInv, Shape, AnyOpType, Ops
    <3> HIDE DEF i
    <3>3. op' \in AnyOpType /\ op'.pc = "setdefault" /\ op'.key = file.pool[i]
      BY <2>3, <3>1, <3>2, Zenon
    <3> QED
      BY <3>1, <3>3
  <2> QED
    BY <2>1, <2>2, <2>3
<1>8. OpFits'
  BY <1>3, <1>7 DEF OpFits
<1> QED
  BY <1>1, <1>3, <1>4, <1>6, <1>7, <1>8, CryptKeeps

LEMMA SetDefaultCrypt ==
  ASSUME KeyPoolAssumption, CryptInv, Flags', SetDefaultKey
  PROVE  CryptInv'
<1>1. /\ op.pc = "setdefault" /\ op.key \in Known /\ op.key \in Nat
      /\ UNCHANGED <<txn, mapKeys, mapCryptedKeys, fUseCrypto, setKeyPool, holder, nKeys, given, retired>>
  BY DEF SetDefaultKey, CryptInv, OpFits, Shape, AnyOpType, memory, history
<1>2. /\ file' \in FileType /\ file'.key = file.key /\ file'.ckey = file.ckey
      /\ file'.pool = file.pool /\ file'.defaultkey = op.key
  BY <1>1 DEF SetDefaultKey, CryptInv, Shape, FileType
<1>3. op' \in AnyOpType /\ op'.pc = "idle"
  BY AnyOps DEF SetDefaultKey
<1>4. Known' = Known
  BY <1>2 DEF Known
<1>5. PoolFits' /\ HoldersFit' /\ OpFits'
  BY <1>1, <1>2, <1>3, <1>4 DEF CryptInv, PoolFits, HoldersFit, Reservations, OpFits
<1>6. given' \subseteq Known /\ retired' \subseteq 1..nKeys
  BY <1>1 DEF CryptInv, KeysFit
<1> QED
  BY <1>1, <1>2, <1>3, <1>5, <1>6, CryptKeeps

LEMMA NewPoolEraseCrypt ==
  ASSUME KeyPoolAssumption, CryptInv, Flags', NEW i, NewPoolErase(i)
  PROVE  CryptInv'
<1>1. /\ op.pc = "erase" /\ file' = ErasePool(file, i)
      /\ UNCHANGED <<txn, mapKeys, mapCryptedKeys, fUseCrypto, setKeyPool, holder, nKeys, given, retired>>
  BY DEF NewPoolErase, memory, history
<1>2. /\ file' \in FileType /\ file'.key = file.key /\ file'.ckey = file.ckey
      /\ file'.defaultkey = file.defaultkey /\ PoolFits' /\ Known' = Known
  BY <1>1, EraseCrypt
<1>3. op' \in AnyOpType /\ op'.pc = "erase"
  BY DEF NewPoolErase, CryptInv, Shape, AnyOpType
<1>4. HoldersFit' /\ OpFits'
  BY <1>1, <1>2, <1>3 DEF CryptInv, HoldersFit, Reservations, OpFits
<1>5. given' \subseteq Known /\ retired' \subseteq 1..nKeys
  BY <1>1 DEF CryptInv, KeysFit
<1> QED
  BY <1>1, <1>2, <1>3, <1>4, <1>5, CryptKeeps

\* An entry is written: its index is at most the number of keys and its key is recorded.
LEMMA FileWritten ==
  ASSUME file \in FileType, NEW e \in Nat, NEW c \in Nat, file' = WritePool(file, e, c)
  PROVE  /\ file' \in FileType /\ file'.key = file.key /\ file'.ckey = file.ckey
         /\ file'.defaultkey = file.defaultkey
         /\ DOMAIN file'.pool = DOMAIN file.pool \cup {e}
         /\ \A j \in DOMAIN file'.pool : file'.pool[j] = IF j = e THEN c ELSE file.pool[j]
  BY WriteFacts

LEMMA WriteCrypt ==
  ASSUME CryptInv, NEW e, e \in 1..nKeys, op.key \in Known,
         file' = WritePool(file, e, op.key), nKeys' = nKeys, setKeyPool' = setKeyPool \cup {e}
  PROVE  /\ file' \in FileType /\ file'.key = file.key /\ file'.ckey = file.ckey
         /\ file'.defaultkey = file.defaultkey /\ PoolFits' /\ Known' = Known
<1>1. file \in FileType /\ e \in Nat /\ op.key \in Nat
  BY CryptFacts DEF CryptInv, Shape, AnyOpType
<1>2. /\ file' \in FileType /\ file'.key = file.key /\ file'.ckey = file.ckey
      /\ file'.defaultkey = file.defaultkey
      /\ DOMAIN file'.pool = DOMAIN file.pool \cup {e}
      /\ \A j \in DOMAIN file'.pool : file'.pool[j] = IF j = e THEN op.key ELSE file.pool[j]
  BY <1>1, FileWritten
<1>3. Known' = Known
  BY <1>2 DEF Known
<1>4. PoolFits'
  BY <1>2, <1>3 DEF CryptInv, PoolFits
<1> QED
  BY <1>2, <1>3, <1>4

LEMMA TopUpWriteCrypt ==
  ASSUME KeyPoolAssumption, CryptInv, Flags', TopUpWrite
  PROVE  CryptInv'
<1>1. /\ op.pc = "topupwrite" /\ file' = WritePool(file, NEnd, op.key)
      /\ setKeyPool' = setKeyPool \cup {NEnd} /\ op.key \in Known
      /\ UNCHANGED <<txn, mapKeys, mapCryptedKeys, fUseCrypto, holder, nKeys, given, retired>>
  BY DEF TopUpWrite, history, CryptInv, OpFits
<1>2. NEnd \in 1..nKeys
  <2>1. nKeys \in Nat /\ nKeys > 0 /\ setKeyPool \subseteq 1..(nKeys - 1)
    BY <1>1, CryptFacts DEF CryptInv, OpFits
  <2>2. CASE setKeyPool = {}
    BY <2>1, <2>2 DEF NEnd
  <2>3. CASE setKeyPool # {}
    <3>1. Max(setKeyPool) \in setKeyPool
      BY <2>3, CryptFacts, MaxFacts
    <3>2. NEnd = Max(setKeyPool) + 1
      BY <2>3 DEF NEnd
    <3>3. Max(setKeyPool) \in 1..(nKeys - 1)
      BY <2>1, <3>1
    <3> DEFINE m == Max(setKeyPool)
    <3>4. m \in 1..(nKeys - 1) /\ NEnd = m + 1
      BY <3>2, <3>3
    <3> HIDE DEF m
    <3> QED
      BY <2>1, <3>4
  <2> QED
    BY <2>2, <2>3
<1>3. /\ file' \in FileType /\ file'.key = file.key /\ file'.ckey = file.ckey
      /\ file'.defaultkey = file.defaultkey /\ PoolFits' /\ Known' = Known
  BY <1>1, <1>2, WriteCrypt
<1>4. op' \in AnyOpType /\ op'.pc = "topup"
  <2>1. op' = [op EXCEPT !.pc = "topup", !.key = NoKey]
    BY Zenon DEF TopUpWrite
  <2>2. \A k \in Nat : LET o == [op EXCEPT !.pc = "topup", !.key = k]
                       IN o \in AnyOpType /\ o.pc = "topup"
    BY DEF CryptInv, Shape, AnyOpType, Ops
  <2>3. NoKey \in Nat
    BY DEF NoKey
  <2> QED
    BY <2>1, <2>2, <2>3, Zenon
<1>5. HoldersFit' /\ OpFits'
  BY <1>1, <1>3, <1>4 DEF CryptInv, HoldersFit, Reservations, OpFits
<1>6. given' \subseteq Known /\ retired' \subseteq 1..nKeys
  BY <1>1 DEF CryptInv, KeysFit
<1> QED
  BY <1>1, <1>3, <1>4, <1>5, <1>6, CryptKeeps

LEMMA NewPoolWriteCrypt ==
  ASSUME KeyPoolAssumption, CryptInv, Flags', NewPoolWrite
  PROVE  CryptInv'
<1>1. /\ op.pc = "newwrite" /\ file' = WritePool(file, op.size + 1, op.key)
      /\ setKeyPool' = setKeyPool \cup {op.size + 1} /\ op.key \in Known
      /\ UNCHANGED <<txn, mapKeys, mapCryptedKeys, fUseCrypto, holder, nKeys, given, retired>>
  BY DEF NewPoolWrite, history, CryptInv, OpFits
<1>2. op.size + 1 \in 1..nKeys /\ op.size \in Nat /\ nKeys \in Nat
  BY <1>1, CryptFacts DEF CryptInv, OpFits, Shape, AnyOpType
<1>3. /\ file' \in FileType /\ file'.key = file.key /\ file'.ckey = file.ckey
      /\ file'.defaultkey = file.defaultkey /\ PoolFits' /\ Known' = Known
  BY <1>1, <1>2, WriteCrypt
<1>4. op' \in AnyOpType /\ op'.pc = "newpool" /\ op'.size = op.size + 1
  <2>1. op' = [op EXCEPT !.pc = "newpool", !.size = op.size + 1, !.key = NoKey]
    BY DEF NewPoolWrite
  <2>2. op \in AnyOpType /\ NoKey \in Nat
    BY DEF CryptInv, Shape, NoKey
  <2>3. \A n, k \in Nat : LET o == [op EXCEPT !.pc = "newpool", !.size = n, !.key = k]
                          IN o \in AnyOpType /\ o.pc = "newpool" /\ o.size = n
    BY <2>2 DEF AnyOpType
  <2>4. op.size + 1 \in Nat
    BY <1>2
  <2> QED
    BY <2>1, <2>2, <2>3, <2>4, Zenon
<1>5. HoldersFit'
  BY <1>1, <1>3 DEF CryptInv, HoldersFit, Reservations
<1>6. OpFits'
  BY <1>1, <1>2, <1>4 DEF OpFits
<1>7. given' \subseteq Known /\ retired' \subseteq 1..nKeys
  BY <1>1 DEF CryptInv, KeysFit
<1> QED
  BY <1>1, <1>3, <1>4, <1>5, <1>6, <1>7, CryptKeeps

\* A new key, whose secret is recorded plain or encrypted before an entry names it.
LEMMA GenerateCrypt ==
  ASSUME KeyPoolAssumption, CryptInv, Flags', TopUpGenerate \/ NewPoolGenerate
  PROVE  CryptInv'
<1>1. /\ op.pc \in {"topup", "newpool"} /\ GenerateNewKey
      /\ UNCHANGED <<txn, fUseCrypto, setKeyPool, holder, given, retired>>
  BY DEF TopUpGenerate, NewPoolGenerate, history
<1>2. nKeys \in Nat /\ nKeys' = nKeys + 1 /\ nKeys' \in 0..MaxKeys
      /\ \A n \in 1..nKeys : n \in 1..(nKeys + 1)
  <2>1. nKeys \in 0..MaxKeys /\ nKeys < MaxKeys /\ nKeys' = nKeys + 1 /\ MaxKeys \in Nat
    BY <1>1 DEF CryptInv, Shape, GenerateNewKey, KeyPoolAssumption
  <2> QED
    BY <2>1
<1>3. /\ file' \in FileType /\ file'.pool = file.pool /\ file'.defaultkey = file.defaultkey
      /\ Known' = Known \cup {nKeys + 1}
      /\ fUseCrypto = FALSE =>
            /\ file'.key = file.key \cup {nKeys + 1} /\ file'.ckey = file.ckey
            /\ mapKeys' = mapKeys \cup {nKeys + 1} /\ mapCryptedKeys' = mapCryptedKeys
      /\ fUseCrypto = TRUE =>
            /\ file'.ckey = file.ckey \cup {nKeys + 1} /\ file'.key = file.key
            /\ mapCryptedKeys' = mapCryptedKeys \cup {nKeys + 1} /\ mapKeys' = mapKeys
  <2>0. file \in FileType /\ (fUseCrypto = FALSE \/ fUseCrypto = TRUE)
    BY DEF CryptInv, Shape, Flags
  <2>1. CASE fUseCrypto = FALSE
    <3>1. file' = [file EXCEPT !.key = @ \cup {nKeys + 1}]
          /\ mapKeys' = mapKeys \cup {nKeys + 1} /\ mapCryptedKeys' = mapCryptedKeys
      BY <1>1, <2>1 DEF GenerateNewKey
    <3>2. /\ file' \in FileType /\ file'.pool = file.pool /\ file'.defaultkey = file.defaultkey
          /\ file'.key = file.key \cup {nKeys + 1} /\ file'.ckey = file.ckey
      BY <1>2, <2>0, <3>1 DEF FileType
    <3> QED
      BY <2>1, <3>1, <3>2 DEF Known
  <2>2. CASE fUseCrypto = TRUE
    <3>1. file' = [file EXCEPT !.ckey = @ \cup {nKeys + 1}]
          /\ mapCryptedKeys' = mapCryptedKeys \cup {nKeys + 1} /\ mapKeys' = mapKeys
      BY <1>1, <2>2 DEF GenerateNewKey
    <3>2. /\ file' \in FileType /\ file'.pool = file.pool /\ file'.defaultkey = file.defaultkey
          /\ file'.ckey = file.ckey \cup {nKeys + 1} /\ file'.key = file.key
      BY <1>2, <2>0, <3>1 DEF FileType
    <3> QED
      BY <2>2, <3>1, <3>2 DEF Known
  <2> QED
    BY <2>0, <2>1, <2>2
<1>4. /\ op' \in AnyOpType /\ op'.key = nKeys + 1 /\ op'.size = op.size
      /\ op'.pc = (IF op.pc = "topup" THEN "topupwrite" ELSE "newwrite")
  <2>1. \A p \in {"topupwrite", "newwrite"}, k \in Nat :
            LET o == [op EXCEPT !.pc = p, !.key = k]
            IN o \in AnyOpType /\ o.pc = p /\ o.key = k /\ o.size = op.size
    BY DEF CryptInv, Shape, AnyOpType, Ops
  <2>2. nKeys + 1 \in Nat
    BY <1>2
  <2>3. CASE TopUpGenerate
    <3>1. op.pc = "topup" /\ op' = [op EXCEPT !.pc = "topupwrite", !.key = nKeys + 1]
      BY <2>3 DEF TopUpGenerate
    <3>2. op' \in AnyOpType /\ op'.pc = "topupwrite" /\ op'.key = nKeys + 1 /\ op'.size = op.size
      BY <2>1, <2>2, <3>1, Zenon
    <3> QED
      BY <3>1, <3>2
  <2>4. CASE NewPoolGenerate
    <3>1. op.pc = "newpool" /\ op' = [op EXCEPT !.pc = "newwrite", !.key = nKeys + 1]
      BY <2>4 DEF NewPoolGenerate
    <3>2. op' \in AnyOpType /\ op'.pc = "newwrite" /\ op'.key = nKeys + 1 /\ op'.size = op.size
      BY <2>1, <2>2, <3>1, Zenon
    <3> QED
      BY <3>1, <3>2
  <2> QED
    BY <2>3, <2>4
<1>5. Shape' /\ txn' = txn
  BY <1>1, <1>2, <1>3, <1>4 DEF CryptInv, Shape
<1>6. PoolFits'
  BY <1>1, <1>2, <1>3 DEF CryptInv, PoolFits
<1>7. HoldersFit'
  <2>1. \A r \in Reservations : r \in Reservations'
    BY <1>2, <1>3 DEF Reservations
  <2> QED
    BY <1>1, <2>1 DEF CryptInv, HoldersFit
<1>8. KeysFit'
  <2>1. Known' \subseteq 1..nKeys'
    <3>1. \A k \in Known : k \in 1..nKeys
      BY DEF CryptInv, KeysFit
    <3>2. Known' = Known \cup {nKeys + 1} /\ nKeys + 1 \in 1..nKeys'
      BY <1>2, <1>3
    <3> QED
      BY <1>2, <3>1, <3>2
  <2> QED
    BY <1>1, <1>2, <1>3, <2>1 DEF CryptInv, KeysFit
<1>9. OpFits'
  <2>1. op'.key \in Known'
    BY <1>3, <1>4
  <2>2. op.pc = "topup" => setKeyPool' \subseteq 1..(nKeys' - 1) /\ nKeys' > 0
    BY <1>1, <1>2 DEF CryptInv, PoolFits
  <2>3. op.pc = "newpool" => op'.size < nKeys'
    BY <1>2, <1>4 DEF CryptInv, OpFits, Shape, AnyOpType
  <2> QED
    BY <1>1, <1>4, <2>1, <2>2, <2>3 DEF OpFits
<1>10. Ciphered'
  <2>1. op'.pc # "encrypt" /\ op.pc # "encrypt"
    BY <1>1, <1>4
  <2>2. fUseCrypto' = fUseCrypto
    BY <1>1
  <2>3. CASE fUseCrypto = FALSE
    BY <1>3, <2>1, <2>2, <2>3 DEF CryptInv, Ciphered
  <2>4. CASE fUseCrypto = TRUE
    BY <1>3, <2>1, <2>2, <2>4 DEF CryptInv, Ciphered
  <2> QED
    BY <2>3, <2>4 DEF CryptInv, Flags
<1>11. TxnFits'
  BY <1>1, <1>2, <1>4, <1>5 DEF CryptInv, TxnFits
<1> QED
  BY <1>5, <1>6, <1>7, <1>8, <1>9, <1>10, <1>11 DEF CryptInv

\* The file with the keys that are recorded and the holders as they were.
LEMMA EncryptWalletCrypt ==
  ASSUME KeyPoolAssumption, CryptInv, Flags', EncryptWallet
  PROVE  CryptInv'
<1>1. /\ op.pc = "idle" /\ fUseCrypto = FALSE /\ txn' = file
      /\ UNCHANGED <<file, mapKeys, mapCryptedKeys, setKeyPool, holder, nKeys, given, retired>>
  BY DEF EncryptWallet, history, CryptInv, Flags
<1>2. fUseCrypto' = TRUE
  BY Zenon DEF EncryptWallet
<1>3. file.ckey = {} /\ mapCryptedKeys = {} /\ mapKeys = file.key
  BY <1>1 DEF CryptInv, Ciphered
<1>4. op' \in AnyOpType /\ op'.pc = "encrypt" /\ op'.todo = mapKeys
  <2>1. Idle \in AnyOpType /\ mapKeys \in SUBSET Nat
    BY <1>3, AnyOps DEF CryptInv, Shape, FileType
  <2>2. \A T \in SUBSET Nat : LET o == [Idle EXCEPT !.pc = "encrypt", !.todo = T]
                              IN o \in AnyOpType /\ o.pc = "encrypt" /\ o.todo = T
    BY <2>1 DEF AnyOpType, Ops
  <2>3. op' = [Idle EXCEPT !.pc = "encrypt", !.todo = mapKeys]
    BY Zenon DEF EncryptWallet
  <2> QED
    BY <2>1, <2>2, <2>3, Zenon
<1>5. Known' = Known /\ Reservations' = Reservations
  BY <1>1 DEF Known, Reservations
<1>6. Shape' /\ PoolFits' /\ HoldersFit' /\ KeysFit'
  BY <1>1, <1>4, <1>5 DEF CryptInv, Shape, PoolFits, HoldersFit, KeysFit
<1>7. OpFits'
  BY <1>4 DEF OpFits
<1>8. Ciphered'
  BY <1>1, <1>2, <1>3, <1>4 DEF Ciphered
<1>9. TxnFits'
  BY <1>1, <1>4 DEF TxnFits, CryptInv, PoolFits, KeysFit
<1> QED
  BY <1>6, <1>7, <1>8, <1>9 DEF CryptInv

\* A key of the list goes from the plain to the encrypted keys of the transaction.
LEMMA AddCryptedKeyCrypt ==
  ASSUME KeyPoolAssumption, CryptInv, Flags', NEW k, AddCryptedKey(k)
  PROVE  CryptInv'
<1>1. /\ op.pc = "encrypt" /\ k \in op.todo /\ mapCryptedKeys' = mapCryptedKeys \cup {k}
      /\ UNCHANGED <<file, mapKeys, fUseCrypto, setKeyPool, holder, nKeys, given, retired>>
  BY DEF AddCryptedKey, history
<1>2. op' \in AnyOpType /\ op'.pc = "encrypt" /\ op'.todo = op.todo \ {k} /\ k \in Nat
  BY <1>1 DEF AddCryptedKey, CryptInv, Shape, AnyOpType
<1>3. /\ txn' \in FileType /\ txn'.ckey = txn.ckey \cup {k} /\ txn'.key = txn.key \ {k}
      /\ txn'.pool = txn.pool /\ txn'.defaultkey = txn.defaultkey
  BY <1>2 DEF AddCryptedKey, CryptInv, Shape, FileType
<1>5. Known' = Known /\ Reservations' = Reservations
  BY <1>1 DEF Known, Reservations
<1>6. Shape' /\ PoolFits' /\ HoldersFit' /\ KeysFit'
  BY <1>1, <1>2, <1>3, <1>5 DEF CryptInv, Shape, PoolFits, HoldersFit, KeysFit
<1>7. OpFits'
  BY <1>2 DEF OpFits
<1>8. Ciphered'
  BY <1>1, <1>2, <1>3 DEF CryptInv, Ciphered
<1>9. TxnFits'
  BY <1>1, <1>2, <1>3 DEF TxnFits, CryptInv
<1> QED
  BY <1>6, <1>7, <1>8, <1>9 DEF CryptInv

\* The transaction has every key encrypted when it commits.
LEMMA EncryptCommitCrypt ==
  ASSUME KeyPoolAssumption, CryptInv, Flags', EncryptCommit
  PROVE  CryptInv'
<1>1. /\ op.pc = "encrypt" /\ op.todo = {} /\ mapKeys' = {} /\ txn' = EmptyFile
      /\ UNCHANGED <<mapCryptedKeys, fUseCrypto, setKeyPool, holder, nKeys, given, retired>>
  BY DEF EncryptCommit, history
<1>2. /\ fUseCrypto = TRUE /\ file.ckey = {} /\ txn.key = {} /\ txn.ckey = mapCryptedKeys
      /\ mapCryptedKeys = file.key /\ txn.defaultkey = file.defaultkey
  BY <1>1 DEF CryptInv, Ciphered
<1>3. /\ file' \in FileType /\ file'.key = {} /\ file'.ckey = mapCryptedKeys
      /\ file'.pool = file.pool /\ file'.defaultkey = file.defaultkey
  <2>1. file' = [txn EXCEPT !.pool = file.pool]
    BY Zenon DEF EncryptCommit
  <2> QED
    BY <1>2, <2>1 DEF CryptInv, Shape, FileType
<1>4. op' \in AnyOpType /\ op'.pc = "erase"
  <2>1. \A T \in SUBSET Nat : LET o == [op EXCEPT !.pc = "erase", !.todo = T]
                              IN o \in AnyOpType /\ o.pc = "erase"
    BY DEF CryptInv, Shape, AnyOpType
  <2>2. op' = [op EXCEPT !.pc = "erase", !.todo = setKeyPool] /\ setKeyPool \in SUBSET Nat
    BY CryptFacts DEF EncryptCommit
  <2> QED
    BY <2>1, <2>2, Zenon
<1>5. Known' = Known
  BY <1>2, <1>3 DEF Known
<1>6. Shape'
  BY <1>1, <1>3, <1>4, EmptyFacts DEF CryptInv, Shape
<1>7. PoolFits' /\ HoldersFit' /\ KeysFit'
  BY <1>1, <1>3, <1>5 DEF CryptInv, PoolFits, HoldersFit, Reservations, KeysFit
<1>8. OpFits'
  BY <1>4 DEF OpFits
<1>9. Ciphered'
  BY <1>1, <1>2, <1>3, <1>4 DEF Ciphered
<1>10. TxnFits'
  BY <1>1, EmptyFacts DEF TxnFits
<1> QED
  BY <1>6, <1>7, <1>8, <1>9, <1>10 DEF CryptInv

\* What LoadWallet reads, wherever the process was killed.
LEMMA RestartCrypt ==
  ASSUME KeyPoolAssumption, CryptInv, Flags', Restart
  PROVE  CryptInv'
<1>1. /\ UNCHANGED <<file, nKeys, given, retired>> /\ mapKeys' = file.key /\ mapCryptedKeys' = file.ckey
      /\ setKeyPool' = DOMAIN file.pool /\ txn' = EmptyFile
      /\ holder' = [h \in Holders |-> NoReservation]
  BY DEF Restart, history
<1>2. fUseCrypto' = (file.ckey # {})
  BY Zenon DEF Restart
<1>3. op' \in AnyOpType /\ op'.pc \in {"idle", "topup"}
  BY AnyOps DEF Restart
<1>4. file.ckey = {} \/ file.key = {}
  BY DEF CryptInv, Flags, Ciphered
<1>5. Known' = Known /\ Reservations' = Reservations
  BY <1>1 DEF Known, Reservations
<1>6. Shape'
  BY <1>1, <1>3, EmptyFacts DEF CryptInv, Shape
<1>7. PoolFits' /\ KeysFit'
  BY <1>1, <1>5 DEF CryptInv, PoolFits, KeysFit
<1>8. HoldersFit'
  BY <1>1, <1>5, CryptFacts DEF HoldersFit
<1>9. OpFits'
  BY <1>3 DEF OpFits
<1>10. Ciphered'
  <2>1. CASE file.ckey = {}
    <3>1. fUseCrypto' = FALSE
      BY <1>2, <2>1, Zenon
    <3> QED
      BY <1>1, <1>3, <2>1, <3>1 DEF Ciphered
  <2>2. CASE file.ckey # {}
    <3>1. fUseCrypto' = TRUE
      BY <1>2, <2>2, Zenon
    <3> QED
      BY <1>1, <1>3, <1>4, <2>2, <3>1 DEF Ciphered
  <2> QED
    BY <2>1, <2>2
<1>11. TxnFits'
  BY <1>1, EmptyFacts DEF TxnFits
<1> QED
  BY <1>6, <1>7, <1>8, <1>9, <1>10, <1>11 DEF CryptInv

LEMMA InitCrypt ==
  ASSUME KeyPoolAssumption, Init
  PROVE  CryptInv
<1>1. /\ file = EmptyFile /\ txn = EmptyFile /\ mapKeys = {} /\ mapCryptedKeys = {} /\ setKeyPool = {}
      /\ holder = [h \in Holders |-> NoReservation] /\ op = FirstRun /\ nKeys = 0
      /\ given = {} /\ retired = {}
  BY DEF Init
<1>2. fUseCrypto = FALSE /\ fLocked = FALSE
  BY DEF Init
<1>3. Flags
  BY <1>2 DEF Flags
<1>4. op \in AnyOpType /\ op.pc = "topup"
  BY <1>1, AnyOps
<1>5. Shape
  BY <1>1, <1>4, EmptyFacts DEF Shape, KeyPoolAssumption
<1>6. Known = {}
  BY <1>1, EmptyFacts DEF Known
<1>7. PoolFits /\ KeysFit /\ TxnFits
  BY <1>1, <1>6, EmptyFacts DEF PoolFits, KeysFit, TxnFits
<1>8. HoldersFit
  BY <1>1 DEF HoldersFit, Reservations, NoReservation
<1>9. OpFits /\ Ciphered
  BY <1>1, <1>2, <1>4, EmptyFacts DEF OpFits, Ciphered
<1> QED
  BY <1>3, <1>5, <1>7, <1>8, <1>9 DEF CryptInv

LEMMA FlagsStep ==
  ASSUME Flags, [Next]_vars
  PROVE  Flags'
<1>1. fLocked' = fLocked \/ fLocked' = TRUE \/ fLocked' = FALSE \/ fLocked' = (file.ckey # {})
  BY Zenon DEF Next, vars, memory, GetReservedKey, ReturnKey, KeepKey, GetNewAddress,
     GetOldestKeyPoolTime, BeginReserve, KeypoolRefill, Unlock, Lock, TopUpGenerate, TopUpWrite, TopUpThrow,
     TopUpDone, ReserveNothing, ReserveForHolder, GetKeyFromPool, ReserveOldest, SetDefaultKey,
     EncryptWallet, AddCryptedKey, EncryptCommit, NewPoolErase, NewPoolClear, NewPoolGenerate,
     NewPoolWrite, NewPoolDone, Restart
<1>2. fUseCrypto' = fUseCrypto \/ fUseCrypto' = TRUE \/ fUseCrypto' = (file.ckey # {})
  BY Zenon DEF Next, vars, memory, GetReservedKey, ReturnKey, KeepKey, GetNewAddress,
     GetOldestKeyPoolTime, BeginReserve, KeypoolRefill, Unlock, Lock, TopUpGenerate, TopUpWrite, TopUpThrow,
     TopUpDone, ReserveNothing, ReserveForHolder, GetKeyFromPool, ReserveOldest, SetDefaultKey,
     EncryptWallet, AddCryptedKey, EncryptCommit, NewPoolErase, NewPoolClear, NewPoolGenerate,
     NewPoolWrite, NewPoolDone, Restart
<1>3. fLocked' \in BOOLEAN
  BY <1>1, Zenon DEF Flags
<1>4. fUseCrypto' \in BOOLEAN
  BY <1>2, Zenon DEF Flags
<1> QED
  BY <1>3, <1>4 DEF Flags

LEMMA CryptStep ==
  ASSUME KeyPoolAssumption, CryptInv, [Next]_vars
  PROVE  CryptInv'
<1>0. Flags'
  BY FlagsStep DEF CryptInv
<1>1. ASSUME NEW h \in Holders, GetReservedKey(h) \/ ReturnKey(h) \/ KeepKey(h)
      PROVE  CryptInv'
  BY <1>0, <1>1, BeginCrypt, ReturnKeyCrypt, KeepKeyCrypt
<1>2. CASE GetNewAddress \/ GetOldestKeyPoolTime \/ Unlock \/ \E n \in Refills : KeypoolRefill(n)
  BY <1>0, <1>2, BeginCrypt
<1>3. CASE TopUpGenerate \/ TopUpWrite \/ TopUpThrow \/ TopUpDone \/ Lock
  BY <1>0, <1>3, GenerateCrypt, TopUpWriteCrypt, TopUpEndsCrypt, LockCrypt
<1>4. CASE ReserveNothing \/ ReserveForHolder \/ GetKeyFromPool \/ ReserveOldest \/ SetDefaultKey
  BY <1>0, <1>4, ReserveCrypt, GetKeyCrypt, SetDefaultCrypt
<1>5. CASE EncryptWallet \/ EncryptCommit \/ \E k \in Keys : AddCryptedKey(k)
  BY <1>0, <1>5, EncryptWalletCrypt, EncryptCommitCrypt, AddCryptedKeyCrypt
<1>6. CASE NewPoolClear \/ NewPoolGenerate \/ NewPoolWrite \/ NewPoolDone \/ \E i \in setKeyPool : NewPoolErase(i)
  BY <1>0, <1>6, NewPoolCrypt, GenerateCrypt, NewPoolWriteCrypt, NewPoolEraseCrypt
<1>7. CASE Restart
  BY <1>0, <1>7, RestartCrypt
<1>8. CASE UNCHANGED vars
  <2>1. UNCHANGED <<file, txn, mapKeys, mapCryptedKeys, fUseCrypto, fLocked, setKeyPool, holder, op, nKeys,
                    given, retired>>
    BY <1>8 DEF vars, memory, history
  <2>2. Known' = Known /\ Reservations' = Reservations
    BY <2>1 DEF Known, Reservations
  <2>3. Shape' /\ PoolFits' /\ HoldersFit' /\ KeysFit' /\ OpFits'
    BY <2>1, <2>2 DEF CryptInv, Shape, PoolFits, HoldersFit, KeysFit, OpFits
  <2>4. Ciphered' /\ TxnFits'
    BY <2>1 DEF CryptInv, Ciphered, TxnFits
  <2> QED
    BY <1>0, <2>3, <2>4 DEF CryptInv
<1> QED
  BY <1>1, <1>2, <1>3, <1>4, <1>5, <1>6, <1>7, <1>8, Zenon DEF Next

-----------------------------------------------------------------------------
(* Both together *)

\* The records of keys change only when a key is made and when EncryptWallet commits.
LEMMA KeyRecords ==
  ASSUME CryptInv, [Next]_vars
  PROVE  (file'.key = file.key /\ file'.ckey = file.ckey) \/ GenerateNewKey \/ EncryptCommit
<1>0. file \in FileType
  BY DEF CryptInv, Shape
<1>1. ASSUME NEW i, file' = ErasePool(file, i)
      PROVE  file'.key = file.key /\ file'.ckey = file.ckey
  BY <1>0, <1>1 DEF ErasePool, FileType
<1>2. ASSUME NEW i, NEW k, file' = WritePool(file, i, k)
      PROVE  file'.key = file.key /\ file'.ckey = file.ckey
  BY <1>0, <1>2 DEF WritePool, FileType
<1>3. CASE \E h \in Holders : KeepKey(h)
  BY <1>1, <1>3 DEF KeepKey
<1>4. CASE TopUpWrite \/ NewPoolWrite
  BY <1>2, <1>4 DEF TopUpWrite, NewPoolWrite
<1>5. CASE GetKeyFromPool
  BY <1>1, <1>5 DEF GetKeyFromPool
<1>6. CASE SetDefaultKey
  <2>1. file' = [file EXCEPT !.defaultkey = op.key]
    BY <1>6 DEF SetDefaultKey
  <2> QED
    BY <1>0, <2>1 DEF FileType
<1>7. CASE \E i \in setKeyPool : NewPoolErase(i)
  BY <1>1, <1>7 DEF NewPoolErase
<1>8. CASE TopUpGenerate \/ NewPoolGenerate
  BY <1>8 DEF TopUpGenerate, NewPoolGenerate
<1>9. CASE EncryptCommit
  BY <1>9
<1>10. file' = file \/ TopUpGenerate \/ NewPoolGenerate \/ EncryptCommit \/ SetDefaultKey \/ GetKeyFromPool
       \/ TopUpWrite \/ NewPoolWrite \/ (\E h \in Holders : KeepKey(h)) \/ (\E i \in setKeyPool : NewPoolErase(i))
  BY Zenon DEF Next, vars, GetReservedKey, ReturnKey, GetNewAddress, GetOldestKeyPoolTime, KeypoolRefill,
     Unlock, Lock, TopUpThrow, TopUpDone, ReserveNothing, ReserveForHolder, ReserveOldest, EncryptWallet,
     AddCryptedKey, NewPoolClear, NewPoolDone, Restart
<1> QED
  BY <1>3, <1>4, <1>5, <1>6, <1>7, <1>8, <1>9, <1>10

\* No step takes a key away, and none adds a plain key to a wallet that is encrypted.
LEMMA KnownGrows ==
  ASSUME CryptInv, [Next]_vars
  PROVE  /\ Known \subseteq Known'
         /\ fUseCrypto = TRUE /\ op.pc # "encrypt" => file'.key = {}
<1>0. file \in FileType /\ txn \in FileType
  BY DEF CryptInv, Shape
<1>1. CASE file'.key = file.key /\ file'.ckey = file.ckey
  BY <1>1 DEF Known, CryptInv, Ciphered
<1>2. CASE GenerateNewKey
  <2>1. CASE fUseCrypto = TRUE
    <3>1. file' = [file EXCEPT !.ckey = @ \cup {nKeys + 1}]
      BY <1>2, <2>1 DEF GenerateNewKey
    <3>2. file'.key = file.key /\ file'.ckey = file.ckey \cup {nKeys + 1}
      BY <1>0, <3>1 DEF FileType
    <3> QED
      BY <2>1, <3>2 DEF Known, CryptInv, Ciphered
  <2>2. CASE fUseCrypto = FALSE
    <3>1. file' = [file EXCEPT !.key = @ \cup {nKeys + 1}]
      BY <1>2, <2>2 DEF GenerateNewKey
    <3>2. file'.ckey = file.ckey /\ file'.key = file.key \cup {nKeys + 1}
      BY <1>0, <3>1 DEF FileType
    <3> QED
      BY <2>2, <3>2 DEF Known
  <2> QED
    BY <2>1, <2>2 DEF CryptInv, Flags
<1>3. CASE EncryptCommit
  <2>1. op.pc = "encrypt" /\ op.todo = {} /\ file' = [txn EXCEPT !.pool = file.pool]
    BY <1>3 DEF EncryptCommit
  <2>2. file'.key = txn.key /\ file'.ckey = txn.ckey
    BY <1>0, <2>1 DEF FileType
  <2> QED
    BY <2>1, <2>2 DEF Known, CryptInv, Ciphered
<1> QED
  BY <1>1, <1>2, <1>3, KeyRecords

\* Before the wallet is encrypted it has filled its pool, and so has a key.
LEMMA NotEmptyStep ==
  ASSUME KeyPoolAssumption, GInv, [Next]_vars
  PROVE  NotEmpty'
<1>1. CASE Known # {}
  <2>1. Known \subseteq Known'
    BY KnownGrows DEF GInv
  <2> QED
    BY <1>1, <2>1 DEF NotEmpty
<1>2. CASE Known = {}
  <2>1. fUseCrypto = FALSE /\ op.pc = "topup" /\ ~IsLocked /\ Uncrypted
    BY <1>2 DEF GInv, NotEmpty, IsLocked, Uncrypted
  <2>2. setKeyPool = {}
    BY <1>2, <2>1 DEF GInv, IInv, Typed, CryptInv, PoolFits
  <2>3. Cardinality(setKeyPool) = 0 /\ op.size \in Nat
    BY <2>2, FS_EmptySet DEF GInv, CryptInv, Shape, AnyOpType
  <2>4. ~TopUpDone /\ ~TopUpThrow /\ ~Lock
    BY <2>1, <2>3 DEF TopUpDone, TopUpThrow, Lock
  <2>5. CASE TopUpGenerate
    <3>1. GenerateNewKey /\ file' = [file EXCEPT !.key = @ \cup {nKeys + 1}]
      BY <2>1, <2>5 DEF TopUpGenerate, GenerateNewKey
    <3>2. file'.key = file.key \cup {nKeys + 1}
      BY <3>1 DEF GInv, CryptInv, Shape, FileType
    <3> QED
      BY <3>2 DEF NotEmpty, Known
  <2>6. CASE Restart
    <3>1. file.ckey = {} /\ file.defaultkey = NoKey
      BY <1>2 DEF Known, GInv, CryptInv, KeysFit
    <3>2. fUseCrypto' = (file.ckey # {}) /\ op' = FirstRun
      BY <2>6, <3>1, Zenon DEF Restart
    <3>3. fUseCrypto' = FALSE
      BY <3>1, <3>2, Zenon
    <3> QED
      BY <3>2, <3>3, AnyOps DEF NotEmpty
  <2>7. CASE op' = op /\ fUseCrypto' = fUseCrypto
    BY <2>1, <2>7 DEF NotEmpty
  <2>8. (op' = op /\ fUseCrypto' = fUseCrypto) \/ TopUpGenerate \/ Restart
    <3>1. CASE \E h \in Holders : KeepKey(h)
      BY <3>1 DEF KeepKey, memory
    <3>2. CASE UNCHANGED vars
      BY <3>2 DEF vars, memory
    <3>3. ~SetDefaultKey /\ ~GetKeyFromPool /\ ~TopUpWrite /\ ~NewPoolWrite /\ ~NewPoolGenerate /\ ~NewPoolClear
          /\ ~NewPoolDone /\ ~EncryptCommit /\ ~EncryptWallet /\ ~Unlock /\ ~GetNewAddress
          /\ ~GetOldestKeyPoolTime /\ ~ReserveNothing /\ ~ReserveForHolder /\ ~ReserveOldest
      BY <2>1 DEF SetDefaultKey, GetKeyFromPool, TopUpWrite, NewPoolWrite, NewPoolGenerate, NewPoolClear,
         NewPoolDone, EncryptCommit, EncryptWallet, Unlock, GetNewAddress, GetOldestKeyPoolTime,
         ReserveNothing, ReserveForHolder, ReserveOldest
    <3>4. \A k : ~NewPoolErase(k) /\ ~AddCryptedKey(k) /\ ~KeypoolRefill(k) /\ ~GetReservedKey(k) /\ ~ReturnKey(k)
      BY <2>1 DEF NewPoolErase, AddCryptedKey, KeypoolRefill, GetReservedKey, ReturnKey
    <3> QED
      BY <2>4, <3>1, <3>2, <3>3, <3>4, Zenon DEF Next
  <2> QED
    BY <2>5, <2>6, <2>7, <2>8
<1> QED
  BY <1>1, <1>2

LEMMA GStep ==
  ASSUME KeyPoolAssumption, KeyPoolSize > 0, GInv, [Next]_vars
  PROVE  GInv'
<1>1. CryptInv'
  BY CryptStep DEF GInv
<1>2. NotEmpty'
  BY NotEmptyStep
<1>3. ASSUME Uncrypted' PROVE IInv'
  <2>0. fUseCrypto \in BOOLEAN /\ fUseCrypto' \in BOOLEAN
    BY <1>1 DEF GInv, CryptInv, Flags
  <2>1. CASE Uncrypted
    <3>1. IInv /\ mapKeys \subseteq Nat
      BY <2>0, <2>1 DEF GInv, CryptInv, Ciphered, Shape, FileType, Uncrypted
    <3>2. ~EncryptCommit
      <4>1. SUFFICES ASSUME EncryptCommit PROVE FALSE
        OBVIOUS
      <4>2. fUseCrypto = TRUE
        BY <4>1 DEF EncryptCommit, GInv, CryptInv, Ciphered
      <4> QED
        BY <1>3, <3>1, <4>1, <4>2, CommitEncrypts
    <3> QED
      BY <3>1, <3>2, PlainStep
  <2>2. CASE ~Uncrypted
    <3>1. fUseCrypto = TRUE /\ op.pc # "encrypt"
      BY <2>0, <2>2 DEF Uncrypted
    <3>2. file'.key = {} /\ Known \subseteq Known' /\ Known # {}
      BY <3>1, KnownGrows DEF GInv, NotEmpty
    <3>3. file'.ckey # {}
      BY <3>2 DEF Known
    <3> QED
      BY <1>1, <1>3, <3>3 DEF CryptInv, Ciphered, Uncrypted
  <2> QED
    BY <2>1, <2>2
<1> QED
  BY <1>1, <1>2, <1>3 DEF GInv

LEMMA InitG ==
  ASSUME KeyPoolAssumption, KeyPoolSize > 0, Init
  PROVE  GInv
<1>1. CryptInv /\ IInv
  BY InitCrypt, InitKeyPool
<1>2. NotEmpty
  BY AnyOps DEF Init, NotEmpty
<1> QED
  BY <1>1, <1>2 DEF GInv

\* What CryptInv says of TypeOK and of the file.
LEMMA CryptConsequences ==
  ASSUME KeyPoolAssumption, CryptInv
  PROVE  TypeOK /\ FileLoads /\ SecretsRecorded
<1>1. nKeys \in 0..MaxKeys /\ MaxKeys \in Nat /\ \A n \in 1..nKeys : n \in Keys
  BY DEF CryptInv, Shape, KeyPoolAssumption, Keys
<1>2. Known \subseteq Keys
  BY <1>1 DEF CryptInv, KeysFit
<1>3. FileOK(file)
  BY <1>1, <1>2 DEF FileOK, CryptInv, KeysFit, PoolFits, Known, Keys
<1>4. FileOK(txn)
  <2>1. CASE op.pc # "encrypt"
    BY <2>1, EmptyFacts DEF CryptInv, TxnFits, FileOK
  <2>2. CASE op.pc = "encrypt"
    <3>1. txn.key \cup txn.ckey = file.key /\ txn.defaultkey = file.defaultkey
      BY <2>2 DEF CryptInv, Ciphered
    <3> QED
      BY <1>1, <1>3, <3>1 DEF FileOK, CryptInv, TxnFits, Keys
  <2> QED
    BY <2>1, <2>2
<1>5. mapKeys \subseteq Keys /\ mapCryptedKeys \subseteq Keys
  BY <1>3 DEF FileOK, CryptInv, Flags, Ciphered
<1>6. setKeyPool \subseteq 1..MaxKeys /\ given \subseteq Keys /\ retired \subseteq Keys
  BY <1>1, <1>2 DEF CryptInv, PoolFits, KeysFit, Keys
<1>7. holder \in [Holders -> [nIndex : {NoIndex} \cup 1..MaxKeys, vchPubKey : Keys \cup {NoKey}]]
  <2>1. \A r \in Reservations : r \in [nIndex : {NoIndex} \cup 1..MaxKeys, vchPubKey : Keys \cup {NoKey}]
    BY <1>1, <1>2 DEF Reservations, Keys
  <2> QED
    BY <2>1 DEF CryptInv, HoldersFit
<1>8. TypeOK
  BY <1>1, <1>3, <1>4, <1>5, <1>6, <1>7 DEF TypeOK, CryptInv, Flags
<1>9. FileLoads
  BY DEF CryptInv, Flags, Ciphered, FileLoads
<1>10. SecretsRecorded
  BY DEF CryptInv, KeysFit, PoolFits, Known, SecretsRecorded
<1> QED
  BY <1>8, <1>9, <1>10

LEMMA PlainConsequences ==
  ASSUME IInv, ~fUseCrypto
  PROVE  NeverReissued /\ PoolReadable
<1>1. NeverReissued
  BY DEF IInv, Entries, Reserved, NeverReissued
<1>2. PoolReadable
  BY DEF IInv, Typed, Plain, Secrets, PoolReadable, Readable, HaveKey
<1> QED
  BY <1>1, <1>2

\* Whatever the size of the pool, whether the wallet is encrypted and whenever the process
\* is killed, also inside EncryptWallet: LoadWallet never finds plain and encrypted keys at
\* once, and the file has the secret of every key that was given away or can be reserved
\* (CWallet::EncryptWallet, AddCryptedKey, AddKeyPubKey before WritePool, LoadWallet).
THEOREM FileCorrect ==
  ASSUME KeyPoolAssumption
  PROVE  Spec => [](FileLoads /\ SecretsRecorded)
<1>1. CryptInv => FileLoads /\ SecretsRecorded
  BY CryptConsequences
<1>2. Init => CryptInv
  BY InitCrypt
<1>3. CryptInv /\ [Next]_vars => CryptInv'
  BY CryptStep
<1> QED
  BY <1>1, <1>2, <1>3, PTL DEF Spec

\* With a pool of at least one key, moreover, until the wallet is encrypted a key that was
\* used is not held by anyone nor offered again, whatever is reserved, kept, returned or
\* interrupted, and ReserveKeyFromKeyPool never throws (CReserveKey, KeepKey, TopUpKeyPool).
THEOREM KeysCorrect ==
  ASSUME KeyPoolAssumption, KeyPoolSize > 0
  PROVE  Spec => []KeysKept
<1>1. GInv => KeysKept
  <2>1. SUFFICES ASSUME GInv PROVE KeysKept
    OBVIOUS
  <2>2. TypeOK /\ FileLoads /\ SecretsRecorded
    BY <2>1, CryptConsequences DEF GInv
  <2>3. ~fUseCrypto => IInv
    BY <2>1 DEF GInv, Uncrypted, CryptInv, Flags
  <2>4. ~fUseCrypto => NeverReissued /\ PoolReadable
    BY <2>3, PlainConsequences
  <2> QED
    BY <2>2, <2>4 DEF KeysKept
<1>2. Init => GInv
  BY InitG
<1>3. GInv /\ [Next]_vars => GInv'
  BY GStep
<1> QED
  BY <1>1, <1>2, <1>3, PTL DEF Spec

-----------------------------------------------------------------------------
(* The lock of the wallet *)

Commands == [pc : {"idle", "topup", "arm", "lock", "try", "relock"},
             nSleepTime : {0} \cup Timeouts, fWasLocked : BOOLEAN]

Within == now + command.nSleepTime <= MaxTime

LockIInv == LockTypeOK /\ Within /\ AnnouncedTimeArmed

Guards == gui \in {"answered", "holds"} \/ timer # NoTimer \/ queued > 0 \/ missed

ChangeGuarded ==
    /\ Changing /\ ~command.fWasLocked => Guards
    /\ command.pc = "try" => locked

GuardedInv == LockIInv /\ ChangeGuarded /\ UnlockedGuarded

\* The record of no command is one of a command.
LEMMA IdleIsCommand == NoCommand \in Commands /\ NoCommand.pc = "idle" /\ NoCommand.nSleepTime = 0
  BY DEF NoCommand, Commands

\* Sleep times are natural numbers (the assumption on the time-outs).
LEMMA SleepTimesNat == ASSUME WalletUnlockAssumption PROVE \A t \in {0} \cup Timeouts : t \in Nat
<1>1. \A t \in Timeouts : t \in Nat
  BY WalletUnlockAssumption DEF WalletUnlockAssumption
<1>2. 0 \in Nat
  OBVIOUS
<1> QED BY <1>1, <1>2, Zenon

\* Every step leaves a command, or none, with its types.
LEMMA CommandStep ==
  ASSUME WalletUnlockAssumption, LockTypeOK, LockNext
  PROVE  command' \in Commands /\ command'.nSleepTime \in Nat
<1>0. command \in Commands /\ locked \in BOOLEAN
  BY DEF LockTypeOK, Commands
<1>1. ASSUME NEW c \in Commands, NEW p \in {"idle", "topup", "arm", "lock", "try", "relock"}
      PROVE  [c EXCEPT !.pc = p] \in Commands
  BY DEF Commands
<1>2. ASSUME NEW c \in Commands, NEW p \in {"idle", "topup", "arm", "lock", "try", "relock"},
             NEW b \in BOOLEAN
      PROVE  [c EXCEPT !.pc = p, !.fWasLocked = b] \in Commands
  BY DEF Commands
<1>3. ASSUME NEW c \in Commands, NEW p \in {"idle", "topup", "arm", "lock", "try", "relock"},
             NEW t \in Timeouts
      PROVE  [c EXCEPT !.pc = p, !.nSleepTime = t] \in Commands
  BY DEF Commands
<1>4. command' \in Commands
  <2>1. CASE \/ Tick \/ TimerDue \/ LockWallet \/ WalletLock
            \/ RequestUnlock \/ DialogUnlocks \/ DialogCancelled \/ ReadValid \/ UnlockContextEnds
    BY <1>0, <2>1 DEF Tick, TimerDue, LockWallet, WalletLock, RequestUnlock, DialogUnlocks,
                          DialogCancelled, ReadValid, UnlockContextEnds
  <2>2. CASE TopUpThrows \/ TimeoutThrows \/ ArmTimer \/ ChangeFails \/ ChangeDone
    BY IdleIsCommand, <2>2 DEF TopUpThrows, TimeoutThrows, ArmTimer, ChangeFails, ChangeDone
  <2>3. CASE TopUpReturns \/ ChangeLocks \/ ChangeUnlocks
    BY <1>0, <1>1, <2>3 DEF TopUpReturns, ChangeLocks, ChangeUnlocks
  <2>4. CASE \E t \in Timeouts : WalletPassphrase(t)
    BY IdleIsCommand, <1>3, <2>4 DEF WalletPassphrase
  <2>5. CASE ChangePassphrase
    BY IdleIsCommand, <1>0, <1>2, <2>5 DEF ChangePassphrase
  <2> QED BY <2>1, <2>2, <2>3, <2>4, <2>5 DEF LockNext, Timer, Context, Command
<1>5. command'.nSleepTime \in {0} \cup Timeouts
  BY <1>4 DEF Commands
<1> QED BY <1>4, <1>5, SleepTimesNat

\* A history of what was missed stays a Boolean.
LEMMA MissedStep == ASSUME LockTypeOK, LockNext PROVE missed' \in BOOLEAN
<1>1. missed \in BOOLEAN /\ locked \in BOOLEAN /\ Changing \in BOOLEAN
  BY DEF LockTypeOK, Changing
<1>2. CASE \/ Tick \/ TopUpThrows \/ TopUpReturns \/ TimerDue \/ ChangePassphrase \/ ChangeLocks
           \/ ChangeUnlocks \/ RequestUnlock \/ DialogUnlocks \/ DialogCancelled \/ \E t \in Timeouts : WalletPassphrase(t)
  <2>1. missed' = missed
    BY <1>2 DEF Tick, TopUpThrows, TopUpReturns, TimerDue, ChangePassphrase, ChangeLocks, ChangeUnlocks,
                RequestUnlock, DialogUnlocks, DialogCancelled, WalletPassphrase
  <2> QED BY <1>1, <2>1
<1>3. CASE ArmTimer \/ WalletLock \/ ChangeFails
  BY <1>3 DEF ArmTimer, WalletLock, ChangeFails
<1>4. CASE LockWallet \/ UnlockContextEnds
  <2>1. missed' = Changing
    BY <1>4 DEF LockWallet, UnlockContextEnds
  <2> QED BY <1>1, <2>1
<1>5. CASE TimeoutThrows \/ ChangeDone \/ ReadValid
  BY <1>1, <1>5 DEF TimeoutThrows, ChangeDone, ReadValid
<1> QED BY <1>2, <1>3, <1>4, <1>5 DEF LockNext, Timer, Context, Command

\* The initial state satisfies the inductive invariant.
LEMMA InitLock == ASSUME WalletUnlockAssumption, LockInit PROVE LockIInv
<1>1. MaxTime \in Nat \ {0} /\ MaxQueued \in Nat
  BY WalletUnlockAssumption DEF WalletUnlockAssumption
<1>2. command \in Commands /\ command.nSleepTime = 0
  BY IdleIsCommand DEF LockInit
<1>3. /\ now \in 1..MaxTime /\ until \in 0..MaxTime
      /\ nWalletUnlockTime \in 0..MaxTime /\ queued \in 0..MaxQueued
  BY <1>1 DEF LockInit
<1>4. LockTypeOK
  BY <1>2, <1>3 DEF LockInit, LockTypeOK, Commands
<1>5. Within
  BY <1>1, <1>2 DEF LockInit, Within
<1> QED BY <1>4, <1>5 DEF LockInit, LockIInv, AnnouncedTimeArmed

\* Every step of the commands, the timer, the clock and the interface preserves it.
LEMMA StepLock == ASSUME WalletUnlockAssumption, LockIInv, [LockNext]_lockVars PROVE LockIInv'
<1>1. CASE UNCHANGED lockVars
  BY <1>1 DEF lockVars, LockIInv, LockTypeOK, Within, AnnouncedTimeArmed
<1>2. ASSUME LockNext PROVE LockIInv'
  <2>1. command' \in Commands /\ command'.nSleepTime \in Nat /\ missed' \in BOOLEAN
    BY <1>2, CommandStep, MissedStep DEF LockIInv
  <2>2. /\ MaxTime \in Nat \ {0} /\ MaxQueued \in Nat /\ \A t \in Timeouts : t \in Nat
        /\ command \in Commands /\ command.nSleepTime \in Nat
    <3>1. MaxTime \in Nat \ {0} /\ MaxQueued \in Nat /\ \A t \in Timeouts : t \in Nat
      BY WalletUnlockAssumption DEF WalletUnlockAssumption
    <3>2. command \in Commands /\ command.nSleepTime \in {0} \cup Timeouts
      BY DEF LockIInv, LockTypeOK, Commands
    <3> QED BY <3>1, <3>2, SleepTimesNat, WalletUnlockAssumption
  <2>3. CASE Tick
    <3>1. LockTypeOK'
      BY <2>1, <2>2, <2>3 DEF Tick, LockIInv, LockTypeOK, Commands, NoTimer
    <3>2. Within'
      BY <2>1, <2>2, <2>3 DEF Tick, LockIInv, LockTypeOK, Within
    <3>3. AnnouncedTimeArmed'
      BY <2>1, <2>2, <2>3 DEF Tick, LockIInv, LockTypeOK, AnnouncedTimeArmed, NoTimer
    <3> QED BY <3>1, <3>2, <3>3 DEF LockIInv
  <2>4. CASE \E t \in Timeouts : WalletPassphrase(t)
    <3>1. LockTypeOK'
      BY <2>1, <2>2, <2>4, IdleIsCommand DEF WalletPassphrase, LockIInv, LockTypeOK, Commands, NoTimer
    <3>2. Within'
      BY <2>1, <2>2, <2>4, IdleIsCommand DEF WalletPassphrase, LockIInv, LockTypeOK, Within
    <3>3. AnnouncedTimeArmed'
      BY <2>1, <2>2, <2>4 DEF WalletPassphrase, LockIInv, LockTypeOK, AnnouncedTimeArmed, NoTimer
    <3> QED BY <3>1, <3>2, <3>3 DEF LockIInv
  <2>5. CASE TopUpThrows
    <3>1. LockTypeOK'
      BY <2>1, <2>2, <2>5, IdleIsCommand DEF TopUpThrows, LockIInv, LockTypeOK, Commands, NoTimer
    <3>2. Within'
      BY <2>1, <2>2, <2>5, IdleIsCommand DEF TopUpThrows, LockIInv, LockTypeOK, Within
    <3>3. AnnouncedTimeArmed'
      BY <2>1, <2>2, <2>5 DEF TopUpThrows, LockIInv, LockTypeOK, AnnouncedTimeArmed, NoTimer
    <3> QED BY <3>1, <3>2, <3>3 DEF LockIInv
  <2>6. CASE TopUpReturns
    <3>1. LockTypeOK'
      BY <2>1, <2>2, <2>6 DEF TopUpReturns, LockIInv, LockTypeOK, Commands, NoTimer
    <3>2. Within'
      BY <2>1, <2>2, <2>6 DEF TopUpReturns, LockIInv, LockTypeOK, Within
    <3>3. AnnouncedTimeArmed'
      BY <2>1, <2>2, <2>6 DEF TopUpReturns, LockIInv, LockTypeOK, AnnouncedTimeArmed, NoTimer
    <3> QED BY <3>1, <3>2, <3>3 DEF LockIInv
  <2>7. CASE TimeoutThrows
    <3>1. LockTypeOK'
      BY <2>1, <2>2, <2>7, IdleIsCommand DEF TimeoutThrows, LockIInv, LockTypeOK, Commands, NoTimer
    <3>2. Within'
      BY <2>1, <2>2, <2>7, IdleIsCommand DEF TimeoutThrows, LockIInv, LockTypeOK, Within
    <3>3. AnnouncedTimeArmed'
      BY <2>1, <2>2, <2>7 DEF TimeoutThrows, LockIInv, LockTypeOK, AnnouncedTimeArmed, NoTimer
    <3> QED BY <3>1, <3>2, <3>3 DEF LockIInv
  <2>8. CASE ArmTimer
    <3>1. LockTypeOK'
      BY <2>1, <2>2, <2>8 DEF ArmTimer, LockIInv, LockTypeOK, Commands, NoTimer, Within
    <3>2. Within'
      BY <2>1, <2>2, <2>8, IdleIsCommand DEF ArmTimer, LockIInv, LockTypeOK, Within
    <3>3. AnnouncedTimeArmed'
      BY <2>1, <2>2, <2>8 DEF ArmTimer, LockIInv, LockTypeOK, AnnouncedTimeArmed, NoTimer
    <3> QED BY <3>1, <3>2, <3>3 DEF LockIInv
  <2>9. CASE TimerDue
    <3>1. LockTypeOK'
      BY <2>1, <2>2, <2>9 DEF TimerDue, LockIInv, LockTypeOK, Commands, NoTimer
    <3>2. Within'
      BY <2>1, <2>2, <2>9 DEF TimerDue, LockIInv, LockTypeOK, Within
    <3>3. AnnouncedTimeArmed'
      BY <2>1, <2>2, <2>9 DEF TimerDue, LockIInv, LockTypeOK, AnnouncedTimeArmed, NoTimer
    <3> QED BY <3>1, <3>2, <3>3 DEF LockIInv
  <2>10. CASE LockWallet
    <3>1. LockTypeOK'
      BY <2>1, <2>2, <2>10 DEF LockWallet, LockIInv, LockTypeOK, Commands, NoTimer
    <3>2. Within'
      BY <2>1, <2>2, <2>10 DEF LockWallet, LockIInv, LockTypeOK, Within
    <3>3. AnnouncedTimeArmed'
      BY <2>1, <2>2, <2>10 DEF LockWallet, LockIInv, LockTypeOK, AnnouncedTimeArmed, NoTimer
    <3> QED BY <3>1, <3>2, <3>3 DEF LockIInv
  <2>11. CASE WalletLock
    <3>1. LockTypeOK'
      BY <2>1, <2>2, <2>11 DEF WalletLock, LockIInv, LockTypeOK, Commands, NoTimer
    <3>2. Within'
      BY <2>1, <2>2, <2>11 DEF WalletLock, LockIInv, LockTypeOK, Within
    <3>3. AnnouncedTimeArmed'
      BY <2>1, <2>2, <2>11 DEF WalletLock, LockIInv, LockTypeOK, AnnouncedTimeArmed, NoTimer
    <3> QED BY <3>1, <3>2, <3>3 DEF LockIInv
  <2>12. CASE ChangePassphrase
    <3>1. LockTypeOK'
      BY <2>1, <2>2, <2>12, IdleIsCommand DEF ChangePassphrase, LockIInv, LockTypeOK, Commands, NoTimer
    <3>2. Within'
      BY <2>1, <2>2, <2>12, IdleIsCommand DEF ChangePassphrase, LockIInv, LockTypeOK, Within
    <3>3. AnnouncedTimeArmed'
      BY <2>1, <2>2, <2>12 DEF ChangePassphrase, LockIInv, LockTypeOK, AnnouncedTimeArmed, NoTimer
    <3> QED BY <3>1, <3>2, <3>3 DEF LockIInv
  <2>13. CASE ChangeLocks
    <3>1. LockTypeOK'
      BY <2>1, <2>2, <2>13 DEF ChangeLocks, LockIInv, LockTypeOK, Commands, NoTimer
    <3>2. Within'
      BY <2>1, <2>2, <2>13 DEF ChangeLocks, LockIInv, LockTypeOK, Within
    <3>3. AnnouncedTimeArmed'
      BY <2>1, <2>2, <2>13 DEF ChangeLocks, LockIInv, LockTypeOK, AnnouncedTimeArmed, NoTimer
    <3> QED BY <3>1, <3>2, <3>3 DEF LockIInv
  <2>14. CASE ChangeFails
    <3>1. LockTypeOK'
      BY <2>1, <2>2, <2>14, IdleIsCommand DEF ChangeFails, LockIInv, LockTypeOK, Commands, NoTimer
    <3>2. Within'
      BY <2>1, <2>2, <2>14, IdleIsCommand DEF ChangeFails, LockIInv, LockTypeOK, Within
    <3>3. AnnouncedTimeArmed'
      BY <2>1, <2>2, <2>14 DEF ChangeFails, LockIInv, LockTypeOK, AnnouncedTimeArmed, NoTimer
    <3> QED BY <3>1, <3>2, <3>3 DEF LockIInv
  <2>15. CASE ChangeUnlocks
    <3>1. LockTypeOK'
      BY <2>1, <2>2, <2>15 DEF ChangeUnlocks, LockIInv, LockTypeOK, Commands, NoTimer
    <3>2. Within'
      BY <2>1, <2>2, <2>15 DEF ChangeUnlocks, LockIInv, LockTypeOK, Within
    <3>3. AnnouncedTimeArmed'
      BY <2>1, <2>2, <2>15 DEF ChangeUnlocks, LockIInv, LockTypeOK, AnnouncedTimeArmed, NoTimer
    <3> QED BY <3>1, <3>2, <3>3 DEF LockIInv
  <2>16. CASE ChangeDone
    <3>1. LockTypeOK'
      BY <2>1, <2>2, <2>16, IdleIsCommand DEF ChangeDone, LockIInv, LockTypeOK, Commands, NoTimer
    <3>2. Within'
      BY <2>1, <2>2, <2>16, IdleIsCommand DEF ChangeDone, LockIInv, LockTypeOK, Within
    <3>3. AnnouncedTimeArmed'
      BY <2>1, <2>2, <2>16 DEF ChangeDone, LockIInv, LockTypeOK, AnnouncedTimeArmed, NoTimer
    <3> QED BY <3>1, <3>2, <3>3 DEF LockIInv
  <2>17. CASE RequestUnlock
    <3>1. LockTypeOK'
      BY <2>1, <2>2, <2>17 DEF RequestUnlock, LockIInv, LockTypeOK, Commands, NoTimer
    <3>2. Within'
      BY <2>1, <2>2, <2>17 DEF RequestUnlock, LockIInv, LockTypeOK, Within
    <3>3. AnnouncedTimeArmed'
      BY <2>1, <2>2, <2>17 DEF RequestUnlock, LockIInv, LockTypeOK, AnnouncedTimeArmed, NoTimer
    <3> QED BY <3>1, <3>2, <3>3 DEF LockIInv
  <2>18. CASE UnlockContextEnds
    <3>1. LockTypeOK'
      BY <2>1, <2>2, <2>18 DEF UnlockContextEnds, LockIInv, LockTypeOK, Commands, NoTimer
    <3>2. Within'
      BY <2>1, <2>2, <2>18 DEF UnlockContextEnds, LockIInv, LockTypeOK, Within
    <3>3. AnnouncedTimeArmed'
      BY <2>1, <2>2, <2>18 DEF UnlockContextEnds, LockIInv, LockTypeOK, AnnouncedTimeArmed, NoTimer
    <3> QED BY <3>1, <3>2, <3>3 DEF LockIInv
  <2>19. CASE DialogUnlocks
    <3>1. LockTypeOK'
      BY <2>1, <2>2, <2>19 DEF DialogUnlocks, LockIInv, LockTypeOK, Commands, NoTimer
    <3>2. Within'
      BY <2>1, <2>2, <2>19 DEF DialogUnlocks, LockIInv, LockTypeOK, Within
    <3>3. AnnouncedTimeArmed'
      BY <2>1, <2>2, <2>19 DEF DialogUnlocks, LockIInv, LockTypeOK, AnnouncedTimeArmed, NoTimer
    <3> QED BY <3>1, <3>2, <3>3 DEF LockIInv
  <2>20. CASE DialogCancelled
    <3>1. LockTypeOK'
      BY <2>1, <2>2, <2>20 DEF DialogCancelled, LockIInv, LockTypeOK, Commands, NoTimer
    <3>2. Within'
      BY <2>1, <2>2, <2>20 DEF DialogCancelled, LockIInv, LockTypeOK, Within
    <3>3. AnnouncedTimeArmed'
      BY <2>1, <2>2, <2>20 DEF DialogCancelled, LockIInv, LockTypeOK, AnnouncedTimeArmed, NoTimer
    <3> QED BY <3>1, <3>2, <3>3 DEF LockIInv
  <2>21. CASE ReadValid
    <3>1. LockTypeOK'
      BY <2>1, <2>2, <2>21 DEF ReadValid, LockIInv, LockTypeOK, Commands, NoTimer
    <3>2. Within'
      BY <2>1, <2>2, <2>21 DEF ReadValid, LockIInv, LockTypeOK, Within
    <3>3. AnnouncedTimeArmed'
      BY <2>1, <2>2, <2>21 DEF ReadValid, LockIInv, LockTypeOK, AnnouncedTimeArmed, NoTimer
    <3> QED BY <3>1, <3>2, <3>3 DEF LockIInv
  <2> QED
    BY <1>2, <2>3, <2>4, <2>5, <2>6, <2>7, <2>8, <2>9, <2>10,
       <2>11, <2>12, <2>13, <2>14, <2>15, <2>16, <2>17, <2>18, <2>19, <2>20, <2>21
    DEF LockNext, Timer, Context, Command
<1> QED BY <1>1, <1>2

\* A step preserves that an unlocked wallet is guarded, also through a change of the
\* passphrase.
LEMMA StepGuarded ==
  ASSUME WalletUnlockAssumption, GuardedInv, [LockNext]_lockVars
  PROVE  GuardedInv'
<1>1. LockIInv'
  BY StepLock DEF GuardedInv
<1>2. CASE UNCHANGED lockVars
  BY <1>1, <1>2 DEF lockVars, GuardedInv, ChangeGuarded, Changing, Guards, UnlockedGuarded
<1>3. ASSUME LockNext PROVE ChangeGuarded' /\ UnlockedGuarded'
  <2>types. command \in Commands /\ timer \in {NoTimer} \cup 0..MaxTime /\ queued \in 0..MaxQueued
    BY DEF GuardedInv, LockIInv, LockTypeOK, Commands
  <2>nats. now \in Nat /\ command.nSleepTime \in Nat
    <3>1. command.nSleepTime \in {0} \cup Timeouts
      BY <2>types DEF Commands
    <3>2. now \in 1..MaxTime /\ MaxTime \in Nat
      BY WalletUnlockAssumption DEF WalletUnlockAssumption, GuardedInv, LockIInv, LockTypeOK
    <3>3. now \in Nat
      BY <3>2
    <3> QED BY <3>1, <3>3, SleepTimesNat, WalletUnlockAssumption
  <2>0. CASE \E t \in Timeouts : WalletPassphrase(t)
    BY <2>types, <2>0, IdleIsCommand
    DEF WalletPassphrase, Commands, GuardedInv, ChangeGuarded, Changing, Guards, UnlockedGuarded, NoTimer
  <2>1. CASE Tick
    BY <2>types, <2>nats, <2>1, IdleIsCommand
    DEF Tick, Commands, GuardedInv, ChangeGuarded, Changing, Guards, UnlockedGuarded, NoTimer
  <2>2. CASE TopUpThrows
    BY <2>types, <2>nats, <2>2, IdleIsCommand
    DEF TopUpThrows, Commands, GuardedInv, ChangeGuarded, Changing, Guards, UnlockedGuarded, NoTimer
  <2>3. CASE TopUpReturns
    BY <2>types, <2>nats, <2>3, IdleIsCommand
    DEF TopUpReturns, Commands, GuardedInv, ChangeGuarded, Changing, Guards, UnlockedGuarded, NoTimer
  <2>4. CASE TimeoutThrows
    BY <2>types, <2>nats, <2>4, IdleIsCommand
    DEF TimeoutThrows, Commands, GuardedInv, ChangeGuarded, Changing, Guards, UnlockedGuarded, NoTimer
  <2>5. CASE ArmTimer
    BY <2>types, <2>nats, <2>5, IdleIsCommand
    DEF ArmTimer, Commands, GuardedInv, ChangeGuarded, Changing, Guards, UnlockedGuarded, NoTimer
  <2>6. CASE TimerDue
    BY <2>types, <2>nats, <2>6, IdleIsCommand
    DEF TimerDue, Commands, GuardedInv, ChangeGuarded, Changing, Guards, UnlockedGuarded, NoTimer
  <2>7. CASE LockWallet
    BY <2>types, <2>nats, <2>7, IdleIsCommand
    DEF LockWallet, Commands, GuardedInv, ChangeGuarded, Changing, Guards, UnlockedGuarded, NoTimer
  <2>8. CASE WalletLock
    BY <2>types, <2>nats, <2>8, IdleIsCommand
    DEF WalletLock, Commands, GuardedInv, ChangeGuarded, Changing, Guards, UnlockedGuarded, NoTimer
  <2>9. CASE ChangePassphrase
    BY <2>types, <2>nats, <2>9, IdleIsCommand
    DEF ChangePassphrase, Commands, GuardedInv, ChangeGuarded, Changing, Guards, UnlockedGuarded, NoTimer
  <2>10. CASE ChangeLocks
    BY <2>types, <2>nats, <2>10, IdleIsCommand
    DEF ChangeLocks, Commands, GuardedInv, ChangeGuarded, Changing, Guards, UnlockedGuarded, NoTimer
  <2>11. CASE ChangeFails
    BY <2>types, <2>nats, <2>11, IdleIsCommand
    DEF ChangeFails, Commands, GuardedInv, ChangeGuarded, Changing, Guards, UnlockedGuarded, NoTimer
  <2>12. CASE ChangeUnlocks
    BY <2>types, <2>nats, <2>12, IdleIsCommand
    DEF ChangeUnlocks, Commands, GuardedInv, ChangeGuarded, Changing, Guards, UnlockedGuarded, NoTimer
  <2>13. CASE ChangeDone
    BY <2>types, <2>nats, <2>13, IdleIsCommand
    DEF ChangeDone, Commands, GuardedInv, ChangeGuarded, Changing, Guards, UnlockedGuarded, NoTimer
  <2>14. CASE RequestUnlock
    BY <2>types, <2>nats, <2>14, IdleIsCommand
    DEF RequestUnlock, Commands, GuardedInv, ChangeGuarded, Changing, Guards, UnlockedGuarded, NoTimer
  <2>15. CASE UnlockContextEnds
    BY <2>types, <2>nats, <2>15, IdleIsCommand
    DEF UnlockContextEnds, Commands, GuardedInv, ChangeGuarded, Changing, Guards, UnlockedGuarded, NoTimer
  <2>16. CASE DialogUnlocks
    BY <2>types, <2>nats, <2>16, IdleIsCommand
    DEF DialogUnlocks, Commands, GuardedInv, ChangeGuarded, Changing, Guards, UnlockedGuarded, NoTimer
  <2>17. CASE DialogCancelled
    BY <2>types, <2>nats, <2>17, IdleIsCommand
    DEF DialogCancelled, Commands, GuardedInv, ChangeGuarded, Changing, Guards, UnlockedGuarded, NoTimer
  <2>18. CASE ReadValid
    BY <2>types, <2>nats, <2>18, IdleIsCommand
    DEF ReadValid, Commands, GuardedInv, ChangeGuarded, Changing, Guards, UnlockedGuarded, NoTimer
  <2> QED
    BY <1>3, <2>0, <2>1, <2>2, <2>3, <2>4, <2>5, <2>6, <2>7, <2>8, <2>9, <2>10, <2>11, <2>12, <2>13, <2>14, <2>15, <2>16,
       <2>17, <2>18
    DEF LockNext, Timer, Context, Command
<1> QED BY <1>1, <1>2, <1>3 DEF GuardedInv

\* An announced lock time has a timer or a due handler behind it, and an unlocked wallet has
\* a command, a context, a timer or a due handler that will lock it, unless that has run
\* while the passphrase was changed or walletpassphrase threw (walletpassphrase, LockWallet,
\* ChangeWalletPassphrase, UnlockContext).
THEOREM LockCorrect == ASSUME WalletUnlockAssumption PROVE LockSpec => []LockArmed
<1>1. LockInit => GuardedInv
  BY InitLock, IdleIsCommand DEF LockInit, GuardedInv, ChangeGuarded, Changing, Guards, UnlockedGuarded
<1>2. GuardedInv /\ [LockNext]_lockVars => GuardedInv'
  BY StepGuarded
<1>3. GuardedInv => LockArmed
  BY DEF GuardedInv, LockIInv, LockArmed
<1> QED BY <1>1, <1>2, <1>3, PTL DEF LockSpec

-----------------------------------------------------------------------------
(* The database of the wallet.  The file is counted as in use by each CDB and
   by Rewrite, so that what finds it not in use (a flush, a backup, Rewrite, a
   shutdown) closes the handle under no CDB (CountRight); while Rewrite holds
   cs_db no CDB is open (RewriteAlone), and the copy has every record but
   those still to do (Files); a file without a use count needs no log
   (Detached), which is what lets a shutdown remove it. *)
Using == {t \in Threads : cdb[t] # "none"}
Counting == {t \in Threads : cdb[t] = "counting"}
RewriteUses == IF rw.pc = "copy" THEN 1 ELSE 0
(* CloseDb would leave a CDB dangling: no CDB is. *)
CDBStates == {"none", "open", "counting", "closing"}
FileContents == [Records -> -1..MaxWrites]

DbTyped ==
    /\ cdb \in [Threads -> CDBStates]
    /\ handle \in BOOLEAN /\ crypted \in BOOLEAN
    /\ phase \in {"init", "running", "stopping", "stopped"}
    /\ rw \in [pc : {"none", "copy", "rename"}, todo : SUBSET Records]
    /\ dat \in FileContents /\ backup \in FileContents
    /\ written \in [Records -> 0..MaxWrites]
    /\ nWrites \in Nat /\ nKills \in Nat

CountRight ==
    mapFileUseCount = Cardinality(Using) + RewriteUses
        \/ (mapFileUseCount = NoEntry /\ Cardinality(Using) + RewriteUses = 0)

RewriteAlone ==
    rw.pc # "none" => CanRewrite /\ phase # "stopped" /\ \A t \in Threads : cdb[t] = "none"

HandleOpen == \A t \in Threads : cdb[t] \in {"open", "counting"} => handle

Detached == mapFileUseCount = NoEntry => dat = db

Copied == [r \in Records |-> IF r \in rw.todo THEN 0 ELSE written[r]]

Files ==
    /\ rw.pc = "none" => db = written /\ rewrite = Gone
    /\ rw.pc = "copy" => db = written /\ rewrite = Copied
    /\ rw.pc = "rename" => db = Gone /\ rewrite = written

(* Every value written has been counted: a bound of the model. *)
Room ==
    /\ nWrites <= MaxWrites
    /\ \A r \in Records : written[r] + Cardinality(Counting) <= nWrites

DbIInv == DbTyped /\ CountRight /\ RewriteAlone /\ HandleOpen /\ Detached /\ Files /\ Room

(* The number of CDBs is a natural number, 0 when there are none. *)
LEMMA CDBsCounted ==
    ASSUME WalletDBAssumption, DbTyped
    PROVE  /\ IsFiniteSet(Using) /\ IsFiniteSet(Counting)
           /\ Cardinality(Using) \in Nat /\ Cardinality(Counting) \in Nat
           /\ Cardinality(Using) = 0 => \A t \in Threads : cdb[t] = "none"
           /\ (\A t \in Threads : cdb[t] = "none") => Cardinality(Using) = 0 /\ Cardinality(Counting) = 0
<1>1. IsFiniteSet(Threads) BY DEF WalletDBAssumption
<1>2. Using \subseteq Threads /\ Counting \subseteq Threads BY DEF Using, Counting
<1>3. IsFiniteSet(Using) /\ IsFiniteSet(Counting) BY <1>1, <1>2, FS_Subset
<1>4. Cardinality(Using) \in Nat /\ Cardinality(Counting) \in Nat BY <1>3, FS_CardinalityType
<1>5. Cardinality(Using) = 0 => \A t \in Threads : cdb[t] = "none"
  <2>1. Cardinality(Using) = 0 => Using = {} BY <1>3, FS_EmptySet
  <2> QED BY <2>1 DEF Using
<1>6. (\A t \in Threads : cdb[t] = "none") => Cardinality(Using) = 0 /\ Cardinality(Counting) = 0
  <2>1. (\A t \in Threads : cdb[t] = "none") => Using = {} /\ Counting = {} BY DEF Using, Counting
  <2> QED BY <2>1, FS_EmptySet
<1> QED BY <1>3, <1>4, <1>5, <1>6

(* A CDB that is opened is one more; one that is closed is one less. *)
LEMMA CDBOpened ==
    ASSUME WalletDBAssumption, DbTyped, NEW t \in Threads, cdb[t] = "none",
           cdb' = [cdb EXCEPT ![t] = "open"]
    PROVE  Cardinality(Using)' = Cardinality(Using) + 1 /\ Counting' = Counting
<1>1. Using' = Using \cup {t} /\ t \notin Using /\ Counting' = Counting BY DEF Using, Counting, DbTyped
<1>2. IsFiniteSet(Using) BY CDBsCounted
<1>3. Cardinality(Using \cup {t}) = Cardinality(Using) + 1 BY <1>1, <1>2, FS_AddElement
<1> QED BY <1>1, <1>3

LEMMA CDBGone ==
    ASSUME WalletDBAssumption, DbTyped, NEW t \in Threads, cdb[t] = "closing",
           cdb' = [cdb EXCEPT ![t] = "none"]
    PROVE  /\ Cardinality(Using)' = Cardinality(Using) - 1
           /\ Cardinality(Using) >= 1
           /\ Counting' = Counting
<1>1. Using' = Using \ {t} /\ t \in Using /\ Counting' = Counting BY DEF Using, Counting, DbTyped
<1>2. IsFiniteSet(Using) /\ Cardinality(Using) \in Nat BY CDBsCounted
<1>3. Cardinality(Using \ {t}) = Cardinality(Using) - 1 BY <1>1, <1>2, FS_RemoveElement
<1>4. Cardinality(Using) # 0 BY <1>1, <1>2, FS_EmptySet
<1> QED BY <1>1, <1>2, <1>3, <1>4

(* A CDB that writes is counted while it writes. *)
LEMMA CDBCounts ==
    ASSUME WalletDBAssumption, DbTyped, NEW t \in Threads, cdb[t] = "open",
           cdb' = [cdb EXCEPT ![t] = "counting"]
    PROVE  Using' = Using /\ Cardinality(Counting)' = Cardinality(Counting) + 1
<1>1. Counting' = Counting \cup {t} /\ t \notin Counting /\ Using' = Using BY DEF Using, Counting, DbTyped
<1>2. IsFiniteSet(Counting) BY CDBsCounted
<1>3. Cardinality(Counting \cup {t}) = Cardinality(Counting) + 1 BY <1>1, <1>2, FS_AddElement
<1> QED BY <1>1, <1>3

LEMMA CDBCounted ==
    ASSUME WalletDBAssumption, DbTyped, NEW t \in Threads, cdb[t] = "counting",
           cdb' = [cdb EXCEPT ![t] = "open"]
    PROVE  /\ Using' = Using
           /\ Cardinality(Counting)' = Cardinality(Counting) - 1
           /\ Cardinality(Counting) >= 1
<1>1. Counting' = Counting \ {t} /\ t \in Counting /\ Using' = Using BY DEF Using, Counting, DbTyped
<1>2. IsFiniteSet(Counting) /\ Cardinality(Counting) \in Nat BY CDBsCounted
<1>3. Cardinality(Counting \ {t}) = Cardinality(Counting) - 1 BY <1>1, <1>2, FS_RemoveElement
<1>4. Cardinality(Counting) # 0 BY <1>1, <1>2, FS_EmptySet
<1> QED BY <1>1, <1>2, <1>3, <1>4

(* A CDB being closed still counts as open. *)
LEMMA CDBCloses ==
    ASSUME DbTyped, NEW t \in Threads, cdb[t] \in {"open", "dangling"},
           cdb' = [cdb EXCEPT ![t] = "closing"]
    PROVE  Using' = Using /\ Counting' = Counting
BY DEF Using, Counting, DbTyped, CDBStates

(* What is read from the wallet, or from a file that is not there. *)
LEMMA FileTypes ==
    ASSUME WalletDBAssumption, DbTyped, Files
    PROVE  /\ Empty \in FileContents /\ Gone \in FileContents
           /\ Empty \in [Records -> 0..MaxWrites]
           /\ written \in FileContents /\ written # Gone
           /\ db \in FileContents /\ rewrite \in FileContents
<1>1. MaxWrites \in Nat BY DEF WalletDBAssumption
<1>2. Empty \in FileContents /\ Gone \in FileContents /\ Empty \in [Records -> 0..MaxWrites]
  BY <1>1 DEF Empty, Gone, FileContents
<1>3. written \in [Records -> 0..MaxWrites] BY DEF DbTyped
<1>4. written \in FileContents
  <2>1. \A n \in 0..MaxWrites : n \in -1..MaxWrites BY <1>1
  <2> QED BY <1>3, <2>1 DEF FileContents
<1>5. written # Gone
  <2>1. PICK r \in Records : TRUE BY DEF WalletDBAssumption
  <2>2. written[r] \in 0..MaxWrites BY <1>3
  <2>3. Gone[r] = -1 BY DEF Gone
  <2>4. written[r] # -1 BY <1>1, <2>2
  <2> QED BY <2>3, <2>4
<1>6. Copied \in FileContents
  <2>1. \A r \in Records : (IF r \in rw.todo THEN 0 ELSE written[r]) \in -1..MaxWrites
    <3>1. \A r \in Records : written[r] \in 0..MaxWrites BY <1>3
    <3> QED BY <1>1, <3>1
  <2> QED BY <2>1 DEF Copied, FileContents
<1>7. rw.pc \in {"none", "copy", "rename"} BY DEF DbTyped
<1> QED BY <1>2, <1>4, <1>5, <1>6, <1>7 DEF Files

(* What no step of a CDB but a write, and no step of the flushing thread, changes. *)
LEMMA ContentKept ==
    ASSUME DbTyped, Files, UNCHANGED <<content, rw, written>>
    PROVE  Files' /\ Copied' = Copied
BY DEF content, Files, Copied

(* The CDBs of the threads. *)
LEMMA CDBOpenStep ==
    ASSUME WalletDBAssumption, DbIInv, NEW t \in Threads, CDBOpen(t)
    PROVE  DbIInv'
<1> USE DEF CDBOpen
<1>1. DbTyped' BY DEF DbIInv, DbTyped, CDBStates, content, bounds, FileContents
<1>2. CountRight'
  <2>1. Cardinality(Using)' = Cardinality(Using) + 1 BY CDBOpened DEF DbIInv
  <2>2. RewriteUses' = RewriteUses /\ RewriteUses = 0 BY DEF RewriteUses, csDb
  <2>3. Cardinality(Using) \in Nat BY CDBsCounted DEF DbIInv
  <2>4. mapFileUseCount' = IF mapFileUseCount = NoEntry THEN 1 ELSE mapFileUseCount + 1 OBVIOUS
  <2> QED BY <2>1, <2>2, <2>3, <2>4 DEF CountRight, DbIInv, NoEntry
<1>3. RewriteAlone' BY DEF RewriteAlone, csDb
<1>4. HandleOpen' BY DEF HandleOpen
<1>5. Detached'
  <2>1. Cardinality(Using) \in Nat BY CDBsCounted DEF DbIInv
  <2>2. mapFileUseCount' # NoEntry
    BY <2>1 DEF CountRight, DbIInv, NoEntry, RewriteUses
  <2> QED BY <2>2 DEF Detached
<1>6. Files' BY ContentKept DEF DbIInv
<1>7. Room'
  <2>1. Counting' = Counting BY CDBOpened DEF DbIInv
  <2> QED BY <2>1 DEF DbIInv, Room, bounds
<1> QED BY <1>1, <1>2, <1>3, <1>4, <1>5, <1>6, <1>7 DEF DbIInv

LEMMA CountUpdateStep ==
    ASSUME WalletDBAssumption, DbIInv, NEW t \in Threads, CountUpdate(t)
    PROVE  DbIInv'
<1> USE DEF CountUpdate
<1>1. DbTyped' BY DEF DbIInv, DbTyped, CDBStates, content, FileContents
<1>2. CountRight'
  <2>1. Using' = Using BY CDBCounts DEF DbIInv
  <2> QED BY <2>1 DEF CountRight, DbIInv, RewriteUses
<1>3. RewriteAlone' BY DEF RewriteAlone, DbIInv
<1>4. HandleOpen' BY DEF HandleOpen, DbIInv, DbTyped
<1>5. Detached' BY DEF Detached, DbIInv, content
<1>6. Files' BY ContentKept DEF DbIInv
<1>7. Room'
  <2>1. Cardinality(Counting)' = Cardinality(Counting) + 1 BY CDBCounts DEF DbIInv
  <2>2. Cardinality(Counting) \in Nat BY CDBsCounted DEF DbIInv
  <2>3. nWrites \in Nat /\ MaxWrites \in Nat BY DEF DbIInv, DbTyped, WalletDBAssumption
  <2>4. \A r \in Records : written[r] \in 0..MaxWrites BY DEF DbIInv, DbTyped
  <2> QED BY <2>1, <2>2, <2>3, <2>4 DEF DbIInv, Room
<1> QED BY <1>1, <1>2, <1>3, <1>4, <1>5, <1>6, <1>7 DEF DbIInv

LEMMA WriteStep ==
    ASSUME WalletDBAssumption, DbIInv, NEW t \in Threads, NEW r \in Records, Write(t, r)
    PROVE  DbIInv'
<1> USE DEF Write
<1>1. rw.pc = "none" /\ db = written BY DEF DbIInv, RewriteAlone, Files
<1>2. /\ Cardinality(Counting) \in Nat /\ nWrites \in Nat /\ MaxWrites \in Nat
      /\ \A s \in Records : written[s] \in 0..MaxWrites
  BY CDBsCounted DEF DbIInv, DbTyped, WalletDBAssumption
<1>3. /\ Cardinality(Counting)' = Cardinality(Counting) - 1
      /\ Cardinality(Counting) >= 1
      /\ Using' = Using
  BY CDBCounted DEF DbIInv
<1>4. written' = [written EXCEPT ![r] = @ + 1] /\ db' = written' BY <1>1
<1>5. DOMAIN written = Records BY DEF DbIInv, DbTyped
<1>6. \A s \in Records : written'[s] = IF s = r THEN written[s] + 1 ELSE written[s]
  BY <1>4, <1>5
<1>7. \A s \in Records : written[s] + Cardinality(Counting) <= nWrites /\ nWrites <= MaxWrites
  BY DEF DbIInv, Room
<1>8. \A s \in Records : written'[s] \in 0..MaxWrites /\ written'[s] + (Cardinality(Counting) - 1) <= nWrites
  BY <1>2, <1>3, <1>6, <1>7
<1>9. written' \in [Records -> 0..MaxWrites] BY <1>4, <1>5, <1>8
<1>10. DbTyped' BY <1>9 DEF DbIInv, DbTyped, CDBStates, bounds, FileContents
<1>11. CountRight' BY <1>3 DEF CountRight, DbIInv, RewriteUses
<1>12. RewriteAlone' BY <1>1 DEF RewriteAlone
<1>13. HandleOpen' BY DEF HandleOpen, DbIInv, DbTyped
<1>14. Detached'
  <2>1. \E s \in Threads : cdb[s] # "none" OBVIOUS
  <2>2. Cardinality(Using) # 0 BY <2>1, CDBsCounted DEF DbIInv
  <2>3. mapFileUseCount # NoEntry
    BY <2>2, CDBsCounted DEF DbIInv, CountRight, RewriteUses, NoEntry
  <2> QED BY <2>3 DEF Detached, NoEntry
<1>15. Files' BY <1>1, <1>4 DEF Files, DbIInv
<1>16. Room' BY <1>3, <1>7, <1>8 DEF Room, bounds
<1> QED BY <1>10, <1>11, <1>12, <1>13, <1>14, <1>15, <1>16 DEF DbIInv

LEMMA CDBCloseStep ==
    ASSUME WalletDBAssumption, DbIInv, NEW t \in Threads, CDBClose(t)
    PROVE  DbIInv'
<1> USE DEF CDBClose
<1>1. DbTyped' BY DEF DbIInv, DbTyped, CDBStates, content, bounds, FileContents
<1>2. Using' = Using /\ Counting' = Counting BY CDBCloses DEF DbIInv
<1>3. CountRight' BY <1>2 DEF CountRight, DbIInv, RewriteUses
<1>4. RewriteAlone' BY DEF RewriteAlone, DbIInv
<1>5. HandleOpen' BY DEF HandleOpen, DbIInv, DbTyped
<1>6. Detached' BY DEF Detached, DbIInv, content
<1>7. Files' BY ContentKept DEF DbIInv
<1>8. Room' BY <1>2 DEF DbIInv, Room, bounds
<1> QED BY <1>1, <1>3, <1>4, <1>5, <1>6, <1>7, <1>8 DEF DbIInv

LEMMA CDBClosedStep ==
    ASSUME WalletDBAssumption, DbIInv, NEW t \in Threads, CDBClosed(t)
    PROVE  DbIInv'
<1> USE DEF CDBClosed
<1>1. DbTyped' BY DEF DbIInv, DbTyped, CDBStates, content, bounds, FileContents
<1>2. /\ Cardinality(Using)' = Cardinality(Using) - 1
      /\ Cardinality(Using) >= 1 /\ Cardinality(Using) \in Nat
      /\ Counting' = Counting
  BY CDBGone, CDBsCounted DEF DbIInv
<1>3. RewriteUses' = RewriteUses /\ RewriteUses = 0 BY DEF RewriteUses, csDb
<1>4. mapFileUseCount = Cardinality(Using) BY <1>2, <1>3 DEF CountRight, DbIInv
<1>5. CountRight' BY <1>2, <1>3, <1>4 DEF CountRight
<1>6. RewriteAlone' BY DEF RewriteAlone, csDb
<1>7. HandleOpen' BY DEF HandleOpen, DbIInv, DbTyped
<1>8. Detached' BY <1>2, <1>4 DEF Detached, NoEntry
<1>9. Files' BY ContentKept DEF DbIInv
<1>10. Room' BY <1>2 DEF DbIInv, Room, bounds
<1> QED BY <1>1, <1>5, <1>6, <1>7, <1>8, <1>9, <1>10 DEF DbIInv

(* When no CDB is in use, detaching wallet.dat changes no CDB. *)
LEMMA DetachKeeps ==
    ASSUME WalletDBAssumption, DbIInv, csDb, ~InUse, Detach
    PROVE  /\ cdb' = cdb /\ Using' = Using /\ Counting' = Counting
           /\ \A t \in Threads : cdb[t] = "none"
           /\ db = written /\ dat' = written
           /\ mapFileUseCount' = NoEntry /\ handle' = FALSE
           /\ Cardinality(Using) + RewriteUses = 0
<1>1. RewriteUses = 0 BY DEF RewriteUses, csDb
<1>2. Cardinality(Using) = 0
  BY <1>1, CDBsCounted DEF DbIInv, CountRight, InUse, NoEntry
<1>3. \A t \in Threads : cdb[t] = "none" BY <1>2, CDBsCounted DEF DbIInv
<1>4. cdb' = [t \in Threads |-> cdb[t]] BY <1>3 DEF Detach, CloseDb
<1>5. cdb' = cdb BY <1>4 DEF DbIInv, DbTyped
<1>6. Using' = Using /\ Counting' = Counting BY <1>5 DEF Using, Counting
<1>7. db = written BY DEF DbIInv, Files, csDb
<1> QED BY <1>1, <1>2, <1>3, <1>5, <1>6, <1>7 DEF Detach, CloseDb

(* The flushing thread, a backup and a shutdown leave the rest as it is. *)
LEMMA DetachStep ==
    ASSUME WalletDBAssumption, DbIInv, csDb, ~InUse, Detach,
           UNCHANGED <<rewrite, crypted, rw, nWrites, nKills, written>>,
           db' = written, backup' \in {backup, dat'}, phase' \in {"running", "stopping", "stopped"}
    PROVE  DbIInv'
<1>1. /\ cdb' = cdb /\ Using' = Using /\ Counting' = Counting
      /\ \A t \in Threads : cdb[t] = "none"
      /\ dat' = written
      /\ mapFileUseCount' = NoEntry /\ handle' = FALSE
      /\ Cardinality(Using) + RewriteUses = 0
  BY DetachKeeps
<1>2. written \in FileContents BY FileTypes DEF DbIInv
<1>3. DbTyped' BY <1>1, <1>2 DEF DbIInv, DbTyped, FileContents
<1>4. CountRight' BY <1>1 DEF CountRight, RewriteUses
<1>5. RewriteAlone' BY DEF RewriteAlone, csDb
<1>6. HandleOpen' BY <1>1 DEF HandleOpen
<1>7. Detached' BY <1>1 DEF Detached
<1>8. Files' BY DEF Files, csDb, DbIInv
<1>9. Room' BY <1>1 DEF Room, DbIInv
<1> QED BY <1>3, <1>4, <1>5, <1>6, <1>7, <1>8, <1>9 DEF DbIInv

(* The flushing thread and the backups. *)
LEMMA FlushesStep ==
    ASSUME WalletDBAssumption, DbIInv, FlusherFlushes \/ BackupWallet
    PROVE  DbIInv'
<1>1. csDb /\ ~InUse /\ Detach BY DEF FlusherFlushes, BackupWallet, InUse
<1>2. db = written BY <1>1, DetachKeeps
<1>3. /\ UNCHANGED <<rewrite, crypted, rw, nWrites, nKills, written>> /\ db' = written
      /\ phase' = "running" /\ backup' \in {backup, dat'}
  BY <1>2 DEF FlusherFlushes, BackupWallet, bounds
<1> QED BY <1>1, <1>3, DetachStep

LEMMA FlusherLooksStep ==
    ASSUME WalletDBAssumption, DbIInv, StartFlusher \/ FlusherSees
    PROVE  DbIInv'
<1>1. /\ UNCHANGED <<content, mapFileUseCount, handle, cdb, rw, nWrites, nKills, written>>
      /\ phase' = "running"
  BY DEF StartFlusher, FlusherSees, bounds
<1>2. Using' = Using /\ Counting' = Counting BY <1>1 DEF Using, Counting
<1>3. DbTyped' BY <1>1 DEF DbIInv, DbTyped, content, FileContents
<1>4. CountRight' BY <1>1, <1>2 DEF DbIInv, CountRight, RewriteUses
<1>5. RewriteAlone' BY <1>1 DEF DbIInv, RewriteAlone
<1>6. HandleOpen' BY <1>1 DEF DbIInv, HandleOpen
<1>7. Detached' BY <1>1 DEF DbIInv, Detached, content
<1>8. Files' BY <1>1, ContentKept DEF DbIInv
<1>9. Room' BY <1>1, <1>2 DEF DbIInv, Room
<1> QED BY <1>3, <1>4, <1>5, <1>6, <1>7, <1>8, <1>9 DEF DbIInv

(* Rewrite begins when no CDB is in use, and none is opened until it ends. *)
LEMMA RewriteStep ==
    ASSUME WalletDBAssumption, DbIInv, Rewrite
    PROVE  DbIInv'
<1> USE DEF Rewrite
<1>1. RewriteUses = 0 BY DEF RewriteUses, csDb
<1>2. Cardinality(Using) = 0
  BY <1>1, CDBsCounted DEF DbIInv, CountRight, InUse, NoEntry
<1>3. \A t \in Threads : cdb[t] = "none" BY <1>2, CDBsCounted DEF DbIInv
<1>4. db = written /\ rewrite = Gone BY DEF DbIInv, Files, csDb
<1>5. db \in FileContents BY FileTypes DEF DbIInv
<1>6. Using' = Using /\ Counting' = Counting BY DEF Using, Counting
<1>7. DbTyped' BY <1>5 DEF DbIInv, DbTyped, FileContents, bounds
<1>8. CountRight' BY <1>2, <1>6 DEF CountRight, RewriteUses
<1>9. RewriteAlone' BY <1>3 DEF RewriteAlone
<1>10. HandleOpen' BY DEF HandleOpen
<1>11. Detached' BY DEF Detached
<1>12. Empty = Copied'
  <2>1. \A r \in Records : r \notin {s \in Records : db[s] > 0} => written[r] = 0
    BY <1>4 DEF DbIInv, DbTyped, WalletDBAssumption
  <2> QED BY <2>1 DEF Empty, Copied
<1>13. Files' BY <1>4, <1>12 DEF Files
<1>14. Room' BY <1>6 DEF Room, DbIInv, bounds
<1> QED BY <1>7, <1>8, <1>9, <1>10, <1>11, <1>13, <1>14 DEF DbIInv

(* A record is put once, and takes the value that the wallet has. *)
LEMMA RewriteCopyStep ==
    ASSUME WalletDBAssumption, DbIInv, NEW r \in Records, RewriteCopy(r)
    PROVE  DbIInv'
<1> USE DEF RewriteCopy
<1>1. db = written /\ rewrite = Copied BY DEF DbIInv, Files
<1>2. rewrite[r] = 0 BY <1>1 DEF Copied
<1>3. Put(r) = written[r] BY <1>1, <1>2 DEF Put
<1>4. rw'.pc = "copy" /\ rw'.todo = rw.todo \ {r} /\ rw' \in [pc : {"none", "copy", "rename"}, todo : SUBSET Records]
  BY DEF DbIInv, DbTyped
<1>5. Copied' = [s \in Records |-> IF s \in rw.todo \ {r} THEN 0 ELSE written[s]] BY <1>4 DEF Copied
<1>6. rewrite' = Copied'
  <2>1. rewrite' = [s \in Records |-> IF s = r THEN written[r] ELSE Copied[s]]
    BY <1>1, <1>3 DEF Copied
  <2>2. \A s \in Records : (IF s = r THEN written[r] ELSE Copied[s]) = IF s \in rw.todo \ {r} THEN 0 ELSE written[s]
    BY DEF Copied
  <2> QED BY <2>1, <2>2, <1>5
<1>7. Using' = Using /\ Counting' = Counting BY DEF Using, Counting
<1>8. DbTyped' BY <1>4 DEF DbIInv, DbTyped, FileContents, bounds
<1>9. CountRight' BY <1>4, <1>7 DEF DbIInv, CountRight, RewriteUses
<1>10. RewriteAlone' BY <1>4 DEF DbIInv, RewriteAlone
<1>11. HandleOpen' BY DEF DbIInv, HandleOpen
<1>12. Detached' BY DEF DbIInv, Detached
<1>13. Files' BY <1>1, <1>4, <1>6 DEF Files
<1>14. Room' BY <1>7 DEF Room, DbIInv, bounds
<1> QED BY <1>8, <1>9, <1>10, <1>11, <1>12, <1>13, <1>14 DEF DbIInv

(* When all is copied the copy is the wallet. *)
LEMMA RewriteRemoveStep ==
    ASSUME WalletDBAssumption, DbIInv, RewriteRemove
    PROVE  DbIInv'
<1> USE DEF RewriteRemove
<1>1. rw'.pc = "rename" /\ rw' \in [pc : {"none", "copy", "rename"}, todo : SUBSET Records]
  BY DEF DbIInv, DbTyped
<1>2. \A t \in Threads : cdb[t] = "none" BY DEF DbIInv, RewriteAlone
<1>3. Using' = Using /\ Counting' = Counting BY DEF Using, Counting
<1>4. Cardinality(Using) = 0 BY <1>2, CDBsCounted DEF DbIInv
<1>5. rewrite = written
  <2>1. rewrite = Copied BY DEF DbIInv, Files
  <2>2. Copied = [r \in Records |-> written[r]] BY DEF Copied
  <2> QED BY <2>1, <2>2 DEF DbIInv, DbTyped
<1>6. Gone \in FileContents BY FileTypes DEF DbIInv
<1>7. DbTyped' BY <1>1, <1>6 DEF DbIInv, DbTyped, FileContents, bounds
<1>8. CountRight' BY <1>1, <1>3, <1>4 DEF CountRight, RewriteUses
<1>9. RewriteAlone' BY <1>1 DEF DbIInv, RewriteAlone
<1>10. HandleOpen' BY <1>2 DEF HandleOpen
<1>11. Detached' BY DEF Detached
<1>12. Files' BY <1>1, <1>5 DEF Files
<1>13. Room' BY <1>3 DEF Room, DbIInv, bounds
<1> QED BY <1>7, <1>8, <1>9, <1>10, <1>11, <1>12, <1>13 DEF DbIInv

LEMMA RewriteRenameStep ==
    ASSUME WalletDBAssumption, DbIInv, RewriteRename
    PROVE  DbIInv'
<1> USE DEF RewriteRename
<1>1. rewrite = written BY DEF DbIInv, Files
<1>2. \A t \in Threads : cdb[t] = "none" BY DEF DbIInv, RewriteAlone
<1>3. Using' = Using /\ Counting' = Counting BY DEF Using, Counting
<1>4. written \in FileContents BY FileTypes DEF DbIInv
<1>5. DbTyped' BY <1>1, <1>4 DEF DbIInv, DbTyped, FileContents, bounds, NoRewrite
<1>6. CountRight' BY <1>3 DEF DbIInv, CountRight, RewriteUses, NoRewrite
<1>7. RewriteAlone' BY DEF RewriteAlone, NoRewrite
<1>8. HandleOpen' BY <1>2 DEF HandleOpen
<1>9. Detached' BY DEF Detached
<1>10. Files' BY <1>1 DEF Files, NoRewrite
<1>11. Room' BY <1>3 DEF Room, DbIInv, bounds
<1> QED BY <1>5, <1>6, <1>7, <1>8, <1>9, <1>10, <1>11 DEF DbIInv

(* A shutdown that finds the file in use, or the log already gone, leaves what
   it can of the database as it was. *)
LEMMA ShutdownStep ==
    ASSUME WalletDBAssumption, DbIInv, ShutdownBegins \/ ShutdownEnds
    PROVE  DbIInv'
<1>1. /\ csDb /\ phase' \in {"stopping", "stopped"}
      /\ UNCHANGED <<rewrite, crypted, rw, nWrites, nKills, written, backup>>
  BY DEF ShutdownBegins, ShutdownEnds, bounds
<1>2. db = written BY <1>1 DEF DbIInv, Files, csDb
<1>3. CASE mapFileUseCount = 0
  <2>1. Detach /\ ~InUse BY <1>3 DEF ShutdownBegins, ShutdownEnds, InUse
  <2>2. dat' = db BY <2>1 DEF Detach
  <2>3. db' = db BY <1>3, <2>2 DEF ShutdownBegins, ShutdownEnds, InUse
  <2> QED BY <1>1, <1>2, <2>1, <2>3, DetachStep
<1>4. CASE mapFileUseCount # 0
  <2>1. UNCHANGED <<dat, mapFileUseCount, handle, cdb>>
    BY <1>4 DEF ShutdownBegins, ShutdownEnds
  <2>2. db' = db
    <3>1. CASE ShutdownBegins BY <3>1 DEF ShutdownBegins
    <3>2. CASE ShutdownEnds /\ InUse BY <3>2 DEF ShutdownEnds
    <3>3. CASE ShutdownEnds /\ ~InUse
      <4>1. mapFileUseCount = NoEntry
        BY <1>4, <3>3, CDBsCounted DEF DbIInv, CountRight, InUse, RewriteUses
      <4>2. dat = db BY <4>1 DEF DbIInv, Detached
      <4> QED BY <2>1, <3>3, <4>2 DEF ShutdownEnds
    <3> QED BY <3>1, <3>2, <3>3
  <2>3. Using' = Using /\ Counting' = Counting BY <2>1 DEF Using, Counting
  <2>4. DbTyped' BY <1>1, <2>1 DEF DbIInv, DbTyped, FileContents
  <2>5. CountRight' BY <1>1, <2>1, <2>3 DEF DbIInv, CountRight, RewriteUses
  <2>6. RewriteAlone' BY <1>1 DEF RewriteAlone, csDb
  <2>7. HandleOpen' BY <2>1 DEF DbIInv, HandleOpen
  <2>8. Detached' BY <2>1, <2>2 DEF DbIInv, Detached
  <2>9. Files' BY <1>1, <2>2 DEF DbIInv, Files, csDb
  <2>10. Room' BY <1>1, <2>3 DEF DbIInv, Room
  <2> QED BY <2>4, <2>5, <2>6, <2>7, <2>8, <2>9, <2>10 DEF DbIInv
<1> QED BY <1>3, <1>4

(* The next start finds what was written: nothing is killed that Rewrite is
   part of the way through. *)
LEMMA StartStep ==
    ASSUME WalletDBAssumption, CanRewrite => MaxKills = 0, DbIInv, DbRestart \/ Kill
    PROVE  DbIInv'
<1>1. rw.pc = "none"
  <2>1. CASE DbRestart BY <2>1 DEF DbRestart, DbIInv, RewriteAlone
  <2>2. CASE Kill
    <3>1. MaxKills # 0 BY <2>2 DEF Kill, DbIInv, DbTyped
    <3> QED BY <3>1 DEF DbIInv, RewriteAlone
  <2> QED BY <2>1, <2>2
<1>2. db = written /\ rewrite = Gone BY <1>1 DEF DbIInv, Files
<1>3. db # Gone BY <1>2, FileTypes DEF DbIInv
<1>4. /\ db' = db /\ dat' = dat /\ crypted' \in BOOLEAN
      /\ mapFileUseCount' = 0 /\ handle' = TRUE
      /\ cdb' = [t \in Threads |-> "none"]
      /\ rw' = NoRewrite /\ phase' = "init"
      /\ UNCHANGED <<rewrite, backup, nWrites, written>>
      /\ nKills' \in {nKills, nKills + 1}
  BY <1>3 DEF DbRestart, Kill, Start
<1>5. nKills' \in Nat BY <1>4 DEF DbIInv, DbTyped
<1>6. DbTyped' BY <1>4, <1>5 DEF DbIInv, DbTyped, FileContents, CDBStates, NoRewrite
<1>7. Cardinality(Using)' = 0 /\ Cardinality(Counting)' = 0
  <2>1. Using' = {} /\ Counting' = {} BY <1>4 DEF Using, Counting
  <2> QED BY <2>1, FS_EmptySet
<1>8. CountRight' BY <1>4, <1>7 DEF CountRight, RewriteUses, NoRewrite
<1>9. RewriteAlone' BY <1>4 DEF RewriteAlone, NoRewrite
<1>10. HandleOpen' BY <1>4 DEF HandleOpen
<1>11. Detached' BY <1>4 DEF Detached, NoEntry
<1>12. Files' BY <1>2, <1>4 DEF Files, NoRewrite
<1>13. Room'
  <2>1. nWrites' = nWrites /\ written' = written BY <1>4
  <2>2. \A r \in Records : written[r] + Cardinality(Counting) <= nWrites /\ nWrites <= MaxWrites
    BY DEF DbIInv, Room
  <2>3. nWrites <= MaxWrites BY DEF DbIInv, Room
  <2>4. /\ Cardinality(Counting) \in Nat /\ nWrites \in Nat /\ MaxWrites \in Nat
        /\ \A r \in Records : written[r] \in 0..MaxWrites
    BY CDBsCounted DEF DbIInv, DbTyped, WalletDBAssumption
  <2> QED BY <1>7, <2>1, <2>2, <2>3, <2>4 DEF Room
<1> QED BY <1>6, <1>8, <1>9, <1>10, <1>11, <1>12, <1>13 DEF DbIInv

(* The invariant holds at first and every step keeps it. *)
LEMMA InitDb == ASSUME WalletDBAssumption, DbInit PROVE DbIInv
<1> USE DEF DbInit
<1>1. DbTyped
  <2>1. MaxWrites \in Nat BY DEF WalletDBAssumption
  <2>2. Empty \in FileContents /\ Gone \in FileContents /\ Empty \in [Records -> 0..MaxWrites]
    BY <2>1 DEF Empty, Gone, FileContents
  <2> QED BY <2>2 DEF DbTyped, CDBStates, NoRewrite
<1>2. Cardinality(Using) = 0 /\ Cardinality(Counting) = 0 BY <1>1, CDBsCounted
<1>3. CountRight BY <1>2 DEF CountRight, RewriteUses, NoRewrite
<1>4. RewriteAlone BY DEF RewriteAlone, NoRewrite
<1>5. HandleOpen BY DEF HandleOpen
<1>6. Detached BY DEF Detached
<1>7. Files BY DEF Files, NoRewrite
<1>8. Room
  <2>1. \A r \in Records : written[r] = 0 BY DEF Empty
  <2> QED BY <1>2, <2>1 DEF Room, WalletDBAssumption
<1> QED BY <1>1, <1>3, <1>4, <1>5, <1>6, <1>7, <1>8 DEF DbIInv

LEMMA StepDb ==
    ASSUME WalletDBAssumption, CanRewrite => MaxKills = 0, DbIInv, [DbNext]_dbVars
    PROVE  DbIInv'
<1>1. CASE UNCHANGED dbVars
  <2>1. UNCHANGED <<db, dat, rewrite, backup, crypted, mapFileUseCount, handle, cdb, rw, phase, nWrites, nKills, written>>
    BY <1>1 DEF dbVars, content, bounds
  <2>2. Using' = Using /\ Counting' = Counting BY <2>1 DEF Using, Counting
  <2> QED BY <2>1, <2>2 DEF DbIInv, DbTyped, CountRight, RewriteAlone, HandleOpen, Detached, Files, Copied, Room,
         RewriteUses, FileContents
<1>2. CASE \E t \in Threads : CDBOpen(t) \/ CountUpdate(t) \/ Scope(t)
  BY <1>2, CDBOpenStep, CountUpdateStep, WriteStep, CDBCloseStep, CDBClosedStep DEF Scope
<1>3. CASE Flusher \/ BackupWallet BY <1>3, FlushesStep, FlusherLooksStep DEF Flusher
<1>4. CASE Rewrite \/ Rewriting
  BY <1>4, RewriteStep, RewriteCopyStep, RewriteRemoveStep, RewriteRenameStep DEF Rewriting
<1>5. CASE ShutdownBegins \/ ShutdownEnds BY <1>5, ShutdownStep
<1>6. CASE DbRestart \/ Kill BY <1>6, StartStep
<1> QED BY <1>1, <1>2, <1>3, <1>4, <1>5, <1>6 DEF DbNext

(* What the invariant says of the properties that the runs check. *)
LEMMA DbConsequences ==
    ASSUME WalletDBAssumption, DbIInv
    PROVE  DbTypeOK /\ NoDanglingHandle /\ NothingLost
<1>1. written \in FileContents /\ db \in FileContents /\ rewrite \in FileContents
  BY FileTypes DEF DbIInv
<1>2. {db, dat, rewrite, backup, written} \subseteq [Records -> -1..MaxWrites]
  BY <1>1 DEF DbIInv, DbTyped, FileContents
<1>3. cdb \in [Threads -> {"none", "open", "counting", "closing", "dangling"}]
  BY DEF DbIInv, DbTyped, CDBStates
<1>4. Users = Cardinality(Using) + RewriteUses BY DEF Users, Using, RewriteUses
<1>5. DbTypeOK BY <1>2, <1>3, <1>4 DEF DbTypeOK, DbIInv, DbTyped, CountRight
<1>6. NoDanglingHandle BY DEF NoDanglingHandle, DbIInv, DbTyped, CDBStates, HandleOpen
<1>7. NothingLost BY DEF NothingLost, DbIInv, DbTyped, Files
<1> QED BY <1>5, <1>6, <1>7

(* Only BackupWallet changes the backup, and it copies what was written. *)
LEMMA BackupStep ==
    ASSUME WalletDBAssumption, DbIInv, [DbNext]_dbVars, backup' # backup
    PROVE  backup' = written
<1>1. BackupWallet
  BY DEF DbNext, dbVars, content, Scope, Flusher, Rewriting, CDBOpen, CountUpdate, Write, CDBClose,
         CDBClosed, StartFlusher, FlusherSees, FlusherFlushes, Rewrite, RewriteCopy, RewriteRemove,
         RewriteRename, ShutdownBegins, ShutdownEnds, DbRestart, Kill, Start
<1>2. db = written BY <1>1 DEF BackupWallet, DbIInv, Files, csDb
<1> QED BY <1>1, <1>2 DEF BackupWallet, Detach

(* DatabaseSafe, for every set of threads, records and numbers of steps: no handle is closed
   under a CDB, nothing written is lost and a backup is complete, provided that the process is
   not killed in a run in which Rewrite may be called (the code does not keep it then: section
   4 of the README). *)
THEOREM DatabaseCorrect ==
    ASSUME WalletDBAssumption, CanRewrite => MaxKills = 0
    PROVE  DbSpec => DatabaseSafe
<1>1. DbInit => DbIInv BY InitDb
<1>2. DbIInv /\ [DbNext]_dbVars => DbIInv' BY StepDb
<1>3. DbIInv => DbTypeOK /\ NoDanglingHandle /\ NothingLost BY DbConsequences
<1>4. DbIInv /\ [DbNext]_dbVars => [backup' # backup => backup' = written]_dbVars BY BackupStep
<1> QED BY <1>1, <1>2, <1>3, <1>4, PTL DEF DbSpec, DatabaseSafe, BackupComplete
=============================================================================
