------------------------------ MODULE KeyPool ------------------------------
(***************************************************************************)
(* The wallet's keys and its key pool (src/wallet.cpp, src/walletdb.cpp,   *)
(* src/crypter.cpp): keys are generated ahead of their use, reserved by a  *)
(* CReserveKey, and then kept or returned; the wallet can be encrypted,    *)
(* locked and unlocked; and the process can be killed between any two      *)
(* writes to wallet.dat and started again from what was written.           *)
(*                                                                         *)
(* cs_wallet is held from the first to the last step of an operation of    *)
(* op.  Lock and KeepKey do not take it and happen between any two steps.  *)
(***************************************************************************)
EXTENDS Integers, FiniteSets, FiniteSetsExt

CONSTANTS Holders,      \* the CReserveKeys: miner threads, getwork, pending sends
          KeyPoolSize,  \* -keypool
          Refills,      \* the sizes given to keypoolrefill
          Encryption,   \* whether encryptwallet is called
          MaxKeys       \* bound on the keys ever generated

KeyPoolAssumption ==
    /\ KeyPoolSize \in Nat
    /\ Refills \subseteq Nat \ {0}
    /\ Encryption \in BOOLEAN
    /\ MaxKeys \in Nat

VARIABLES
    file,           \* wallet.dat: its key, ckey, pool and defaultkey records
    txn,            \* the file as pwalletdbEncryption's transaction sees it
    mapKeys,        \* the plain keys in memory
    mapCryptedKeys, \* the encrypted keys in memory
    fUseCrypto,
    fLocked,        \* vMasterKey is empty
    setKeyPool,     \* the indices that can be reserved
    holder,         \* each CReserveKey: its nIndex and vchPubKey
    op,             \* the operation that holds cs_wallet
    nKeys,          \* keys generated so far; a key is its number
    given,          \* history: the keys shown to the world
    retired         \* history: the keys NewKeyPool replaced

memory == <<mapKeys, mapCryptedKeys, fUseCrypto, fLocked, setKeyPool>>
history == <<given, retired>>
vars == <<file, txn, memory, holder, op, nKeys, history>>

NoKey == 0                      \* an invalid CPubKey
Keys == 1..MaxKeys
NoIndex == -1
NoReservation == [nIndex |-> NoIndex, vchPubKey |-> NoKey]
Idle == [pc |-> "idle", who |-> "none", size |-> 0, key |-> NoKey, todo |-> {}]
EmptyFile == [key |-> {}, ckey |-> {}, pool |-> <<>>, defaultkey |-> NoKey]

IsLocked == fUseCrypto /\ fLocked
HaveKey(k) == k \in IF fUseCrypto THEN mapCryptedKeys ELSE mapKeys

WritePool(f, i, k) == [f EXCEPT !.pool = [j \in DOMAIN @ \cup {i} |-> IF j = i THEN k ELSE @[j]]]
ErasePool(f, i) == [f EXCEPT !.pool = [j \in DOMAIN @ \ {i} |-> @[j]]]

(* The first start creates the default key from the pool. *)
FirstRun == [Idle EXCEPT !.pc = "topup", !.who = "first", !.size = KeyPoolSize]

Init ==
    /\ file = EmptyFile
    /\ txn = EmptyFile
    /\ mapKeys = {}
    /\ mapCryptedKeys = {}
    /\ fUseCrypto = FALSE
    /\ fLocked = FALSE
    /\ setKeyPool = {}
    /\ holder = [h \in Holders |-> NoReservation]
    /\ op = FirstRun
    /\ nKeys = 0
    /\ given = {}
    /\ retired = {}

-----------------------------------------------------------------------------
(* Operations that take cs_wallet begin here. *)

(* A caller that needs a key tops the pool up first, if the wallet is not
   locked, and then takes the oldest entry. *)
BeginReserve(who) ==
    op' = [Idle EXCEPT !.pc = IF IsLocked THEN "reserve" ELSE "topup",
                       !.who = who, !.size = KeyPoolSize]

(* CReserveKey::GetReservedKey; a reservation that is held is only read. *)
GetReservedKey(h) ==
    /\ op.pc = "idle"
    /\ holder[h].nIndex = NoIndex
    /\ BeginReserve(h)
    /\ UNCHANGED <<file, txn, memory, holder, nKeys, history>>

(* getnewaddress. *)
GetNewAddress ==
    /\ op.pc = "idle"
    /\ BeginReserve("rpc")
    /\ UNCHANGED <<file, txn, memory, holder, nKeys, history>>

(* getinfo, by way of GetOldestKeyPoolTime: reserves and returns. *)
GetOldestKeyPoolTime ==
    /\ op.pc = "idle"
    /\ BeginReserve("oldest")
    /\ UNCHANGED <<file, txn, memory, holder, nKeys, history>>

(* keypoolrefill. *)
KeypoolRefill(size) ==
    /\ op.pc = "idle"
    /\ ~IsLocked
    /\ op' = [Idle EXCEPT !.pc = "topup", !.size = size]
    /\ UNCHANGED <<file, txn, memory, holder, nKeys, history>>

(* walletpassphrase: unlocks and tops the pool up. *)
Unlock ==
    /\ op.pc = "idle"
    /\ IsLocked
    /\ fLocked' = FALSE
    /\ op' = [Idle EXCEPT !.pc = "topup", !.size = KeyPoolSize]
    /\ UNCHANGED <<file, txn, mapKeys, mapCryptedKeys, fUseCrypto, setKeyPool, holder, nKeys, history>>

(* encryptwallet: a transaction is opened and the master key written in it. *)
EncryptWallet ==
    /\ Encryption
    /\ op.pc = "idle"
    /\ ~fUseCrypto
    /\ fUseCrypto' = TRUE
    /\ fLocked' = TRUE
    /\ txn' = file
    /\ op' = [Idle EXCEPT !.pc = "encrypt", !.todo = mapKeys]
    /\ UNCHANGED <<file, mapKeys, mapCryptedKeys, setKeyPool, holder, nKeys, history>>

(* CReserveKey::ReturnKey, also by its destructor. *)
ReturnKey(h) ==
    /\ op.pc = "idle"
    /\ holder[h] # NoReservation
    /\ setKeyPool' = IF holder[h].nIndex = NoIndex THEN setKeyPool
                     ELSE setKeyPool \cup {holder[h].nIndex}
    /\ holder' = [holder EXCEPT ![h] = NoReservation]
    /\ UNCHANGED <<file, txn, mapKeys, mapCryptedKeys, fUseCrypto, fLocked, op, nKeys, history>>

-----------------------------------------------------------------------------
(* TopUpKeyPool, and the reservation that follows it. *)

(* Mutant: only an encrypted wallet records the secret of a new key. *)
GenerateNewKey_Unrecorded ==
    /\ nKeys < MaxKeys
    /\ nKeys' = nKeys + 1
    /\ IF fUseCrypto
       THEN /\ mapCryptedKeys' = mapCryptedKeys \cup {nKeys + 1}
            /\ file' = [file EXCEPT !.ckey = @ \cup {nKeys + 1}]
            /\ UNCHANGED mapKeys
       ELSE /\ mapKeys' = mapKeys \cup {nKeys + 1}
            /\ UNCHANGED <<file, mapCryptedKeys>>

(* GenerateNewKey: the secret is recorded before anything refers to it. *)
GenerateNewKey ==
    /\ nKeys < MaxKeys
    /\ nKeys' = nKeys + 1
    /\ IF fUseCrypto
       THEN /\ mapCryptedKeys' = mapCryptedKeys \cup {nKeys + 1}
            /\ file' = [file EXCEPT !.ckey = @ \cup {nKeys + 1}]
            /\ UNCHANGED mapKeys
       ELSE /\ mapKeys' = mapKeys \cup {nKeys + 1}
            /\ file' = [file EXCEPT !.key = @ \cup {nKeys + 1}]
            /\ UNCHANGED mapCryptedKeys

(* The index after the last one of the pool. *)
NEnd == IF setKeyPool = {} THEN 1 ELSE Max(setKeyPool) + 1

TopUpGenerate ==
    /\ op.pc = "topup"
    /\ Cardinality(setKeyPool) < op.size + 1
    /\ ~IsLocked
    /\ GenerateNewKey
    /\ op' = [op EXCEPT !.pc = "topupwrite", !.key = nKeys + 1]
    /\ UNCHANGED <<txn, fUseCrypto, fLocked, setKeyPool, holder, history>>

TopUpWrite ==
    /\ op.pc = "topupwrite"
    /\ file' = WritePool(file, NEnd, op.key)
    /\ setKeyPool' = setKeyPool \cup {NEnd}
    /\ op' = [op EXCEPT !.pc = "topup", !.key = NoKey]
    /\ UNCHANGED <<txn, mapKeys, mapCryptedKeys, fUseCrypto, fLocked, holder, nKeys, history>>

(* The wallet was locked while the pool was filled: AddKey fails and throws. *)
TopUpThrow ==
    /\ op.pc = "topup"
    /\ Cardinality(setKeyPool) < op.size + 1
    /\ IsLocked
    /\ op' = Idle
    /\ UNCHANGED <<file, txn, memory, holder, nKeys, history>>

TopUpDone ==
    /\ op.pc = "topup"
    /\ Cardinality(setKeyPool) >= op.size + 1
    /\ op' = IF op.who = "none" THEN Idle ELSE [op EXCEPT !.pc = "reserve"]
    /\ UNCHANGED <<file, txn, memory, holder, nKeys, history>>

(* The entry of an index, if it can be read and its key is known. *)
Readable(i) == i \in DOMAIN file.pool /\ HaveKey(file.pool[i])

(* The pool is empty: the wallet is locked.  A CReserveKey falls back on the
   default key; GetKeyFromPool fails. *)
ReserveNothing ==
    /\ op.pc = "reserve"
    /\ setKeyPool = {}
    /\ holder' = IF op.who \in Holders
                 THEN [holder EXCEPT ![op.who] = [nIndex |-> NoIndex, vchPubKey |-> file.defaultkey]]
                 ELSE holder
    /\ op' = Idle
    /\ UNCHANGED <<file, txn, memory, nKeys, history>>

(* ReserveKeyFromKeyPool takes the oldest index out of the set and reads its
   entry.  When that throws, a CReserveKey has the index and no key. *)
ReserveForHolder ==
    /\ op.pc = "reserve"
    /\ op.who \in Holders
    /\ setKeyPool # {}
    /\ LET i == Min(setKeyPool)
       IN  /\ setKeyPool' = setKeyPool \ {i}
           /\ holder' = [holder EXCEPT ![op.who] =
                  [nIndex |-> i, vchPubKey |-> IF Readable(i) THEN file.pool[i] ELSE NoKey]]
    /\ op' = Idle
    /\ UNCHANGED <<file, txn, mapKeys, mapCryptedKeys, fUseCrypto, fLocked, nKeys, history>>

(* GetKeyFromPool reserves and keeps.  Its key is used at once, or becomes
   the default key. *)
GetKeyFromPool ==
    /\ op.pc = "reserve"
    /\ op.who \in {"rpc", "first"}
    /\ setKeyPool # {}
    /\ LET i == Min(setKeyPool)
       IN  /\ setKeyPool' = setKeyPool \ {i}
           /\ file' = IF Readable(i) THEN ErasePool(file, i) ELSE file
           /\ given' = IF Readable(i) THEN given \cup {file.pool[i]} ELSE given
           /\ op' = IF op.who = "first" /\ Readable(i)
                    THEN [op EXCEPT !.pc = "setdefault", !.key = file.pool[i]]
                    ELSE Idle
    /\ UNCHANGED <<txn, mapKeys, mapCryptedKeys, fUseCrypto, fLocked, holder, nKeys, retired>>

(* An entry that cannot be read is not returned: the call throws first. *)
ReserveOldest ==
    /\ op.pc = "reserve"
    /\ op.who = "oldest"
    /\ setKeyPool # {}
    /\ setKeyPool' = {i \in setKeyPool : i = Min(setKeyPool) => Readable(i)}
    /\ op' = Idle
    /\ UNCHANGED <<file, txn, mapKeys, mapCryptedKeys, fUseCrypto, fLocked, holder, nKeys, history>>

SetDefaultKey ==
    /\ op.pc = "setdefault"
    /\ file' = [file EXCEPT !.defaultkey = op.key]
    /\ op' = Idle
    /\ UNCHANGED <<txn, memory, holder, nKeys, history>>

-----------------------------------------------------------------------------
(* Without cs_wallet. *)

(* CReserveKey::KeepKey, as CommitTransaction and CheckWork call it: the entry
   is erased and the transaction or block that pays to the key goes out. *)
KeepKey(h) ==
    /\ holder[h].vchPubKey # NoKey
    /\ file' = IF holder[h].nIndex = NoIndex THEN file
               ELSE ErasePool(file, holder[h].nIndex)
    /\ given' = given \cup {holder[h].vchPubKey}
    /\ holder' = [holder EXCEPT ![h] = NoReservation]
    /\ UNCHANGED <<txn, memory, op, nKeys, retired>>

(* CCryptoKeyStore::Lock, by the timer of walletpassphrase or the menu. *)
Lock ==
    /\ fUseCrypto
    /\ ~fLocked
    /\ fLocked' = TRUE
    /\ UNCHANGED <<file, txn, mapKeys, mapCryptedKeys, fUseCrypto, setKeyPool, holder, op, nKeys, history>>

-----------------------------------------------------------------------------
(* The rest of EncryptWallet. *)

(* One key of EncryptKeys: AddCryptedKey writes by way of the transaction. *)
AddCryptedKey(k) ==
    /\ op.pc = "encrypt"
    /\ k \in op.todo
    /\ mapCryptedKeys' = mapCryptedKeys \cup {k}
    /\ txn' = [txn EXCEPT !.ckey = @ \cup {k}, !.key = @ \ {k}]
    /\ op' = [op EXCEPT !.todo = @ \ {k}]
    /\ UNCHANGED <<file, mapKeys, fUseCrypto, fLocked, setKeyPool, holder, nKeys, history>>

(* mapKeys is cleared, the transaction commits (entries erased meanwhile by
   KeepKey stay erased), and the wallet is locked and unlocked. *)
EncryptCommit ==
    /\ op.pc = "encrypt"
    /\ op.todo = {}
    /\ mapKeys' = {}
    /\ file' = [txn EXCEPT !.pool = file.pool]
    /\ txn' = EmptyFile
    /\ fLocked' = FALSE
    /\ op' = [op EXCEPT !.pc = "erase", !.todo = setKeyPool]
    /\ UNCHANGED <<mapCryptedKeys, fUseCrypto, setKeyPool, holder, nKeys, history>>

(* NewKeyPool erases the entries of the indices in the set ... *)
NewPoolErase(i) ==
    /\ op.pc = "erase"
    /\ i \in op.todo
    /\ file' = ErasePool(file, i)
    /\ op' = [op EXCEPT !.todo = @ \ {i}]
    /\ UNCHANGED <<txn, memory, holder, nKeys, history>>

NewPoolClear ==
    /\ op.pc = "erase"
    /\ op.todo = {}
    /\ setKeyPool' = {}
    /\ op' = [op EXCEPT !.pc = "newpool", !.size = 0]
    /\ UNCHANGED <<file, txn, mapKeys, mapCryptedKeys, fUseCrypto, fLocked, holder, nKeys, history>>

(* ... and fills the pool from index 1; op.size counts the keys written. *)
NewPoolGenerate ==
    /\ op.pc = "newpool"
    /\ op.size < KeyPoolSize
    /\ ~IsLocked
    /\ GenerateNewKey
    /\ op' = [op EXCEPT !.pc = "newwrite", !.key = nKeys + 1]
    /\ UNCHANGED <<txn, fUseCrypto, fLocked, setKeyPool, holder, history>>

NewPoolWrite ==
    /\ op.pc = "newwrite"
    /\ file' = WritePool(file, op.size + 1, op.key)
    /\ setKeyPool' = setKeyPool \cup {op.size + 1}
    /\ op' = [op EXCEPT !.pc = "newpool", !.size = @ + 1, !.key = NoKey]
    /\ UNCHANGED <<txn, mapKeys, mapCryptedKeys, fUseCrypto, fLocked, holder, nKeys, history>>

(* The pool is full, or the wallet was locked meanwhile; it is locked. *)
NewPoolDone ==
    /\ op.pc = "newpool"
    /\ op.size < KeyPoolSize => IsLocked
    /\ fLocked' = TRUE
    /\ retired' = IF op.size < KeyPoolSize THEN retired
                  ELSE (1..nKeys) \ {file.pool[i] : i \in setKeyPool \cap DOMAIN file.pool}
    /\ op' = Idle
    /\ UNCHANGED <<file, txn, mapKeys, mapCryptedKeys, fUseCrypto, setKeyPool, holder, nKeys, given>>

-----------------------------------------------------------------------------
(* The process is killed, or stops, and LoadWallet reads the file.  A wallet
   without a default key is a new one. *)
Restart ==
    /\ mapKeys' = file.key
    /\ mapCryptedKeys' = file.ckey
    /\ fUseCrypto' = (file.ckey # {})
    /\ fLocked' = (file.ckey # {})
    /\ setKeyPool' = DOMAIN file.pool
    /\ txn' = EmptyFile
    /\ holder' = [h \in Holders |-> NoReservation]
    /\ op' = IF file.defaultkey = NoKey THEN FirstRun ELSE Idle
    /\ UNCHANGED <<file, nKeys, history>>

Next ==
    \/ \E h \in Holders : GetReservedKey(h) \/ ReturnKey(h) \/ KeepKey(h)
    \/ GetNewAddress
    \/ GetOldestKeyPoolTime
    \/ \E n \in Refills : KeypoolRefill(n)
    \/ Unlock \/ Lock
    \/ TopUpGenerate \/ TopUpWrite \/ TopUpThrow \/ TopUpDone
    \/ ReserveNothing \/ ReserveForHolder \/ GetKeyFromPool \/ ReserveOldest
    \/ SetDefaultKey
    \/ EncryptWallet
    \/ \E k \in Keys : AddCryptedKey(k)
    \/ EncryptCommit
    \/ \E i \in setKeyPool : NewPoolErase(i)
    \/ NewPoolClear \/ NewPoolGenerate \/ NewPoolWrite \/ NewPoolDone
    \/ Restart

Spec == Init /\ [][Next]_vars

-----------------------------------------------------------------------------
FileOK(f) ==
    /\ f.key \subseteq Keys
    /\ f.ckey \subseteq Keys
    /\ f.defaultkey \in Keys \cup {NoKey}
    /\ DOMAIN f.pool \subseteq 1..MaxKeys
    /\ \A i \in DOMAIN f.pool : f.pool[i] \in Keys

(* The pool's indices start at 1 and its entries name generated keys. *)
TypeOK ==
    /\ FileOK(file) /\ FileOK(txn)
    /\ mapKeys \subseteq Keys /\ mapCryptedKeys \subseteq Keys
    /\ fUseCrypto \in BOOLEAN /\ fLocked \in BOOLEAN
    /\ setKeyPool \subseteq 1..MaxKeys
    /\ holder \in [Holders -> [nIndex : {NoIndex} \cup 1..MaxKeys, vchPubKey : Keys \cup {NoKey}]]
    /\ nKeys \in 0..MaxKeys
    /\ given \subseteq Keys /\ retired \subseteq Keys

(* A key that was kept, and so was used in a transaction, a block or an
   address, is not held by anyone and has no entry in the file from which a
   later start could offer it again. *)
NeverReissued ==
    /\ \A h \in Holders : holder[h].nIndex # NoIndex => holder[h].vchPubKey \notin given
    /\ \A i \in DOMAIN file.pool : file.pool[i] \notin given

(* ReserveKeyFromKeyPool never throws "read failed" or "unknown key in key
   pool": each index of the set has an entry whose key the wallet has. *)
PoolReadable == \A i \in setKeyPool : Readable(i)

(* Whenever the process is killed, LoadWallet can read the file: it never has
   plain and encrypted keys at once, which LoadKey and LoadCryptedKey refuse. *)
FileLoads == file.key = {} \/ file.ckey = {}

(* The file always has the secret of every key that was shown to the world and
   of every key the pool can still offer, whenever the process is killed. *)
SecretsRecorded ==
    given \cup {file.pool[i] : i \in DOMAIN file.pool} \subseteq file.key \cup file.ckey

\* A key that was kept is not held or offered again, and the index of every key in the pool
\* can be read, until the wallet is encrypted (ReserveKeyFromKeyPool, KeepKey, ReturnKey);
\* and whenever EncryptWallet or another operation is cut short, LoadWallet can read the
\* file, which has the secret of every key in use.
KeysKept ==
    /\ TypeOK /\ FileLoads /\ SecretsRecorded
    /\ ~fUseCrypto => NeverReissued /\ PoolReadable

(* NewKeyPool: "Mark old keypool keys as used, and generate all new keys". *)
\* The code does not keep this (README, section 4).
OldKeysRetired ==
    \A i \in setKeyPool \cap DOMAIN file.pool : file.pool[i] \notin retired
=============================================================================
