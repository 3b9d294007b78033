------------------------------ MODULE WalletDB ------------------------------
(***************************************************************************)
(* The Berkeley database that keeps wallet.dat (src/db.cpp,                *)
(* src/walletdb.cpp): threads open and close CDB objects that share one    *)
(* handle and a use count; what they write is in the log until a           *)
(* checkpoint detaches wallet.dat from it.  That is done by the flushing   *)
(* thread, by backups, by Rewrite and at shutdown, all of which close the  *)
(* handle and must not do so under a CDB that is in use.                   *)
(*                                                                         *)
(* The process can be killed at any time.  What is in the log is recovered *)
(* at the next start (DB_RECOVER).                                         *)
(***************************************************************************)
EXTENDS Integers, FiniteSets

CONSTANTS Threads,     \* the threads that open CDBs
          Early,       \* those that run before the flushing thread starts
          Records,     \* the records of the wallet
          CanRewrite,  \* whether EncryptWallet, and so Rewrite, is called
          MaxOpens,    \* bound on the CDBs opened
          MaxWrites,   \* bound on the writes
          MaxKills     \* bound on kills

WalletDBAssumption ==
    /\ IsFiniteSet(Threads) /\ Early \subseteq Threads
    /\ Records # {}
    /\ CanRewrite \in BOOLEAN
    /\ MaxOpens \in Nat
    /\ MaxWrites \in Nat
    /\ MaxKills \in Nat

VARIABLES
    db,               \* what the program reads: wallet.dat and the log
    dat,              \* what wallet.dat has without the log
    rewrite,          \* wallet.dat.rewrite
    backup,           \* the last backup
    crypted,          \* the wallet is encrypted
    mapFileUseCount,  \* of wallet.dat; NoEntry when it has none
    handle,           \* mapDb has an open handle
    cdb,              \* the CDB of each thread
    rw,               \* CDB::Rewrite, which holds cs_db to its end
    nWalletDBUpdated,
    nRead,            \* the count a thread has read to increment it
    nLastSeen,
    nLastFlushed,
    phase,            \* of the process
    nOpens,
    nWrites,
    nKills,
    written           \* history: the wallet as it was last written

content == <<db, dat, rewrite, backup, crypted>>
flusher == <<nLastSeen, nLastFlushed>>
bounds == <<nOpens, nWrites, nKills>>
dbVars == <<content, mapFileUseCount, handle, cdb, rw, nWalletDBUpdated, nRead, flusher, phase, bounds, written>>

NoEntry == -1
Empty == [r \in Records |-> 0]
Gone == [r \in Records |-> -1]        \* the file does not exist
NoRewrite == [pc |-> "none", todo |-> {}]

DbInit ==
    /\ db = Empty /\ dat = Empty /\ rewrite = Gone /\ backup = Gone
    /\ crypted = FALSE
    /\ mapFileUseCount = 0
    /\ handle = TRUE
    /\ cdb = [t \in Threads |-> "none"]
    /\ rw = NoRewrite
    /\ nRead = [t \in Threads |-> 0]
    /\ nWalletDBUpdated = 0 /\ nLastSeen = 0 /\ nLastFlushed = 0
    /\ phase = "init"
    /\ nOpens = 0 /\ nWrites = 0 /\ nKills = 0
    /\ written = Empty

csDb == rw.pc = "none"                \* cs_db is free
InUse == mapFileUseCount > 0

-----------------------------------------------------------------------------
(* CDB::CDB: counts the file as used, and opens the handle if need be. *)
CDBOpen(t) ==
    /\ phase # "stopped"
    /\ phase = "init" => t \in Early
    /\ csDb
    /\ nOpens < MaxOpens
    /\ cdb[t] = "none"
    /\ cdb' = [cdb EXCEPT ![t] = "open"]
    /\ mapFileUseCount' = IF mapFileUseCount = NoEntry THEN 1 ELSE mapFileUseCount + 1
    /\ handle' = TRUE
    /\ nOpens' = nOpens + 1
    /\ UNCHANGED <<content, rw, nWalletDBUpdated, nRead, flusher, phase, nWrites, nKills, written>>

(* CWalletDB's writes count the update, without a lock: the count is read ... *)
CountUpdate(t) ==
    /\ cdb[t] = "open"
    /\ nWrites < MaxWrites
    /\ nWrites' = nWrites + 1
    /\ cdb' = [cdb EXCEPT ![t] = "counting"]
    /\ nRead' = [nRead EXCEPT ![t] = nWalletDBUpdated]
    /\ UNCHANGED <<content, mapFileUseCount, handle, rw, nWalletDBUpdated, flusher, phase, nOpens, nKills, written>>

(* ... and written, and the record with it.  Each value written is a new one. *)
Write(t, r) ==
    /\ cdb[t] = "counting"
    /\ cdb' = [cdb EXCEPT ![t] = "open"]
    /\ nWalletDBUpdated' = nRead[t] + 1
    /\ nRead' = [nRead EXCEPT ![t] = 0]
    /\ db' = [db EXCEPT ![r] = @ + 1]
    /\ written' = db'
    /\ UNCHANGED <<dat, rewrite, backup, crypted, mapFileUseCount, handle, rw, flusher, phase, bounds>>

(* CDB::Close: forgets the handle, checkpoints, and then stops counting. *)
CDBClose(t) ==
    /\ cdb[t] \in {"open", "dangling"}
    /\ cdb' = [cdb EXCEPT ![t] = "closing"]
    /\ UNCHANGED <<content, mapFileUseCount, handle, rw, nWalletDBUpdated, nRead, flusher, phase, bounds, written>>

CDBClosed(t) ==
    /\ cdb[t] = "closing"
    /\ csDb
    /\ cdb' = [cdb EXCEPT ![t] = "none"]
    /\ mapFileUseCount' = mapFileUseCount - 1
    /\ UNCHANGED <<content, handle, rw, nWalletDBUpdated, nRead, flusher, phase, bounds, written>>

-----------------------------------------------------------------------------
(* CDBEnv::CloseDb deletes the handle that every open CDB points to. *)
CloseDb ==
    /\ handle' = FALSE
    /\ cdb' = [t \in Threads |-> IF cdb[t] \in {"open", "counting"} THEN "dangling" ELSE cdb[t]]

(* CloseDb and CheckpointLSN, after which wallet.dat needs no log, and the
   entry of the use count is erased. *)
Detach ==
    /\ CloseDb
    /\ dat' = db
    /\ mapFileUseCount' = NoEntry

(* ThreadFlushWalletDB starts, at the end of AppInit2. *)
StartFlusher ==
    /\ phase = "init"
    /\ phase' = "running"
    /\ nLastSeen' = nWalletDBUpdated
    /\ nLastFlushed' = nWalletDBUpdated
    /\ UNCHANGED <<content, mapFileUseCount, handle, cdb, rw, nWalletDBUpdated, nRead, bounds, written>>

(* A round of the thread in which the wallet was seen to change. *)
FlusherSees ==
    /\ phase = "running"
    /\ nLastSeen # nWalletDBUpdated
    /\ nLastSeen' = nWalletDBUpdated
    /\ UNCHANGED <<content, mapFileUseCount, handle, cdb, rw, nWalletDBUpdated, nRead, nLastFlushed, phase, bounds, written>>

(* Mutant: the thread takes note of the flush only when it is not needed. *)
FlusherFlushes_Equal ==
    /\ phase = "running"
    /\ nLastFlushed = nWalletDBUpdated
    /\ csDb
    /\ mapFileUseCount = 0
    /\ Detach
    /\ UNCHANGED <<db, rewrite, backup, crypted, rw, nWalletDBUpdated, nRead, flusher, phase, bounds, written>>

(* A round two seconds after the last change: flushes if no CDB is open. *)
FlusherFlushes ==
    /\ phase = "running"
    /\ nLastSeen = nWalletDBUpdated
    /\ nLastFlushed # nWalletDBUpdated
    /\ csDb
    /\ mapFileUseCount = 0
    /\ nLastFlushed' = nWalletDBUpdated
    /\ Detach
    /\ UNCHANGED <<db, rewrite, backup, crypted, rw, nWalletDBUpdated, nRead, nLastSeen, phase, bounds, written>>

(* BackupWallet waits until the file is not in use. *)
BackupWallet ==
    /\ phase = "running"
    /\ csDb
    /\ ~InUse
    /\ Detach
    /\ backup' = dat'
    /\ UNCHANGED <<db, rewrite, crypted, rw, nWalletDBUpdated, nRead, flusher, phase, bounds, written>>

-----------------------------------------------------------------------------
(* CDB::Rewrite, called once the keys are encrypted.  Its own CDB counts. *)
Rewrite ==
    /\ CanRewrite
    /\ phase = "running"
    /\ ~crypted
    /\ crypted' = TRUE
    /\ csDb
    /\ ~InUse
    /\ dat' = db
    /\ mapFileUseCount' = 1
    /\ handle' = TRUE
    /\ rewrite' = IF rewrite = Gone THEN Empty ELSE rewrite
    /\ rw' = [pc |-> "copy", todo |-> {r \in Records : db[r] > 0}]
    /\ UNCHANGED <<db, backup, cdb, nWalletDBUpdated, nRead, flusher, phase, bounds, written>>

(* A put with DB_NOOVERWRITE. *)
Put(r) == IF rewrite[r] > 0 THEN rewrite[r] ELSE db[r]

RewriteCopy(r) ==
    /\ rw.pc = "copy"
    /\ r \in rw.todo
    /\ rewrite' = [rewrite EXCEPT ![r] = Put(r)]
    /\ rw' = [rw EXCEPT !.todo = @ \ {r}]
    /\ UNCHANGED <<db, dat, backup, crypted, mapFileUseCount, handle, cdb, nWalletDBUpdated, nRead, flusher, phase, bounds, written>>

(* Both databases are closed and wallet.dat removed ... *)
RewriteRemove ==
    /\ rw.pc = "copy"
    /\ rw.todo = {}
    /\ handle' = FALSE
    /\ mapFileUseCount' = 0
    /\ db' = Gone
    /\ dat' = Gone
    /\ rw' = [rw EXCEPT !.pc = "rename"]
    /\ UNCHANGED <<rewrite, backup, crypted, cdb, nWalletDBUpdated, nRead, flusher, phase, bounds, written>>

(* ... and the copy takes its name. *)
RewriteRename ==
    /\ rw.pc = "rename"
    /\ db' = rewrite
    /\ dat' = rewrite
    /\ rewrite' = Gone
    /\ rw' = NoRewrite
    /\ UNCHANGED <<backup, crypted, mapFileUseCount, handle, cdb, nWalletDBUpdated, nRead, flusher, phase, bounds, written>>

-----------------------------------------------------------------------------
(* Shutdown: the threads are joined, and CDBEnv::Flush(false) detaches the
   file if it is not in use. *)
ShutdownBegins ==
    /\ phase = "running"
    /\ csDb
    /\ phase' = "stopping"
    /\ IF mapFileUseCount = 0 THEN Detach
       ELSE UNCHANGED <<dat, mapFileUseCount, handle, cdb>>
    /\ UNCHANGED <<db, rewrite, backup, crypted, rw, nWalletDBUpdated, nRead, flusher, bounds, written>>

(* Mutant: the log is removed although the file is in use. *)
ShutdownEnds_InUse ==
    /\ phase = "stopping"
    /\ csDb
    /\ phase' = "stopped"
    /\ IF mapFileUseCount = 0 THEN Detach
       ELSE UNCHANGED <<dat, mapFileUseCount, handle, cdb>>
    /\ db' = dat'
    /\ UNCHANGED <<rewrite, backup, crypted, rw, nWalletDBUpdated, nRead, flusher, bounds, written>>

(* CDBEnv::Flush(true), after the last writes: when no file is in use the
   environment is closed and the directory of its log removed. *)
ShutdownEnds ==
    /\ phase = "stopping"
    /\ csDb
    /\ phase' = "stopped"
    /\ IF InUse
       THEN UNCHANGED <<db, dat, mapFileUseCount, handle, cdb>>
       ELSE /\ IF mapFileUseCount = 0 THEN Detach
               ELSE UNCHANGED <<dat, mapFileUseCount, handle, cdb>>
            /\ db' = dat'
    /\ UNCHANGED <<rewrite, backup, crypted, rw, nWalletDBUpdated, nRead, flusher, bounds, written>>

(* The next start.  LoadWallet opens wallet.dat, creates it if there is none,
   and closes its CDB. *)
Start ==
    /\ db' = IF db = Gone THEN Empty ELSE db
    /\ dat' = IF db = Gone THEN Empty ELSE dat
    /\ crypted' = (crypted /\ db # Gone)
    /\ mapFileUseCount' = 0
    /\ handle' = TRUE
    /\ cdb' = [t \in Threads |-> "none"]
    /\ rw' = NoRewrite
    /\ nRead' = [t \in Threads |-> 0]
    /\ nWalletDBUpdated' = 0 /\ nLastSeen' = 0 /\ nLastFlushed' = 0
    /\ phase' = "init"
    /\ UNCHANGED <<rewrite, backup, nOpens, nWrites, written>>

DbRestart ==
    /\ phase = "stopped"
    /\ Start
    /\ UNCHANGED nKills

Kill ==
    /\ phase # "stopped"
    /\ nKills < MaxKills
    /\ nKills' = nKills + 1
    /\ Start

(* What goes on by itself: ThreadFlushWalletDB runs every half second, Rewrite
   comes to its end, and a CDB is closed at the end of its scope. *)
Flusher == StartFlusher \/ FlusherSees \/ FlusherFlushes
Rewriting == RewriteRemove \/ RewriteRename \/ \E r \in Records : RewriteCopy(r)
Scope(t) == CDBClose(t) \/ CDBClosed(t) \/ \E r \in Records : Write(t, r)

DbNext ==
    \/ \E t \in Threads : CDBOpen(t) \/ CountUpdate(t) \/ Scope(t)
    \/ Flusher
    \/ BackupWallet
    \/ Rewrite \/ Rewriting
    \/ ShutdownBegins \/ ShutdownEnds
    \/ DbRestart \/ Kill

DbSpec == DbInit /\ [][DbNext]_dbVars

-----------------------------------------------------------------------------
(* The use count is that of the CDBs, Rewrite's included. *)
Users == Cardinality({t \in Threads : cdb[t] # "none"}) + (IF rw.pc = "copy" THEN 1 ELSE 0)

DbTypeOK ==
    /\ {db, dat, rewrite, backup, written} \subseteq [Records -> -1..MaxWrites]
    /\ cdb \in [Threads -> {"none", "open", "counting", "closing", "dangling"}]
    /\ handle \in BOOLEAN /\ crypted \in BOOLEAN
    /\ mapFileUseCount = Users \/ (mapFileUseCount = NoEntry /\ Users = 0)
    /\ phase \in {"init", "running", "stopping", "stopped"}

(* No CDB uses a handle that was deleted: the flushing thread, a backup and a
   shutdown close the handle only when the use count is 0. *)
NoDanglingHandle == \A t \in Threads : cdb[t] # "dangling" /\ (cdb[t] \in {"open", "counting"} => handle)

(* What was written to the wallet can be read until it is written again: no
   kill, no removal of the log at shutdown and no Rewrite loses a record. *)
NothingLost == rw.pc # "rename" => db = written

(* A backup has everything that was written when it was made. *)
BackupComplete == [][backup' # backup => backup' = written]_dbVars

(* No handle is closed under a CDB, no record is lost by a kill, a shutdown or Rewrite, and
   a backup has all that was written (CDBEnv, CDB::Rewrite, BackupWallet). *)
\* With Rewrite and kills the code does not keep this (README, section 4).
DatabaseSafe == [](DbTypeOK /\ NoDanglingHandle /\ NothingLost) /\ BackupComplete

(* Once the flushing thread knows of an update, wallet.dat gets all of it,
   unless the program stops first. *)
UpdatesFlushed ==
    (phase = "running" /\ nLastFlushed # nWalletDBUpdated) ~> (dat = db \/ phase # "running")

(* AppInit2: "Run a thread to flush wallet periodically".  While it runs,
   wallet.dat gets what was written. *)
\* The code does not keep this (README, section 4).
WrittenFlushed == (phase = "running") ~> (dat = db \/ phase # "running")
=============================================================================
