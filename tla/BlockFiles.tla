------------------------------ MODULE BlockFiles ------------------------------
(***************************************************************************)
(* Block and undo files (main.cpp, main.h): where blk and rev files get    *)
(* their data, when it is committed to disk, what a kill or a power loss   *)
(* leaves of it, and -reindex.                                             *)
(*                                                                         *)
(* Every record takes one unit.  A file is what reading it gives now; its  *)
(* durable content is what a power loss leaves for certain.  The block     *)
(* tree database is its last value and the earlier ones that are not yet   *)
(* synced over; mapBlockIndex has what the database has.                   *)
(***************************************************************************)
EXTENDS Integers, FiniteSets, FiniteSetsExt

CONSTANTS
    Blocks,
    Parent,              \* block -> its parent, or None for the first block
    None,
    MaxFile,             \* bound: the last file number
    MAX_BLOCKFILE_SIZE,
    MaxUndo,             \* bound: the records of an undo file
    Ibd,                 \* values of IsInitialBlockDownload at the start
    Faults,              \* a subset of {"kill", "power", "torn", "full", "reindex"}
    MaxFaults            \* bound: how many of them

Files == 0..MaxFile
Positions == 0..Max({MAX_BLOCKFILE_SIZE, MaxUndo})
Torn(b) == <<"torn", b>> \* the header of b and damaged transactions

ASSUME BlockFilesAssumption ==
    /\ Parent \in [Blocks -> Blocks \cup {None}] /\ None \notin Blocks
    /\ \A S \in (SUBSET Blocks) \ {{}} : \E b \in S : Parent[b] \notin S \* hashPrevBlock makes no cycle
    /\ MaxFile \in Nat /\ MAX_BLOCKFILE_SIZE \in Nat \ {0} /\ MaxUndo \in Nat /\ MaxFaults \in Nat
    /\ Ibd \subseteq BOOLEAN

VARIABLES
    pc,                  \* "off", "idle", or the step of the thread that holds cs_main
    nLastBlockFile, infoLastBlockFile,
    db, dbPast,          \* the block tree database, and its values a power loss may bring back
    tip,                 \* the best block of pcoinsTip
    coinsDb, coinsPast,  \* the best block in the coins database, and those a loss may bring back
    blk, blkDurable, rev, revDurable,
    cur,                 \* the block and the position in hand
    scan,                \* the next place -reindex reads, or None
    ibd, faults,
    exposed,             \* history: a power loss hit data written in the initial download
    gap,                 \* history: -reindex read files with a gap, a duplicate or an orphan
    missed,              \* history: -reindex, continued, skipped a block that is not in the index
    back                 \* history: a start with a last file before one that has records

memVars  == <<nLastBlockFile, infoLastBlockFile, tip, cur, scan, ibd>>
dbVars   == <<db, dbPast>>
coinVars == <<coinsDb, coinsPast>>
fileVars == <<blk, blkDurable, rev, revDurable>>
histVars == <<faults, exposed, gap, missed, back>>
vars == <<pc, memVars, dbVars, coinVars, fileVars, histVars>>

NoInfo == [nSize |-> 0, nUndoSize |-> 0]
EmptyDb == [info |-> [f \in Files |-> NoInfo], last |-> 0, index |-> [b \in {} |-> 0], reindexing |-> FALSE]
Nothing == [f \in Files |-> [p \in Positions |-> None]]
Place(f, p) == [file |-> f, pos |-> p]

Init ==
    /\ pc = "idle" /\ nLastBlockFile = 0 /\ infoLastBlockFile = NoInfo
    /\ db = EmptyDb /\ dbPast = {} /\ tip = None /\ coinsDb = None /\ coinsPast = {}
    /\ blk = Nothing /\ blkDurable = Nothing /\ rev = Nothing /\ revDurable = Nothing
    /\ cur = None /\ scan = None /\ ibd \in Ibd /\ faults = 0
    /\ exposed = FALSE /\ gap = FALSE /\ missed = FALSE /\ back = FALSE
-----------------------------------------------------------------------------
(* The chain *)

mapBlockIndex == DOMAIN db.index
HaveParent(b) == Parent[b] = None \/ Parent[b] \in mapBlockIndex
Ancestors(b) == LET up[x \in Blocks \cup {None}] == IF x = None THEN {} ELSE {x} \cup up[Parent[x]] IN up[b]
nHeight(b) == Cardinality(Ancestors(b))

\* The blocks FindMostWorkChain may choose.
Best == {b \in mapBlockIndex : \A x \in mapBlockIndex : nHeight(x) <= nHeight(b)}
Settled == Best = {} \/ tip \in Best

\* A write to the database, and one that is synced.
Write(new) == db' = new /\ dbPast' = dbPast \cup {db}
Sync == dbPast' = {} /\ UNCHANGED db
-----------------------------------------------------------------------------
(* Files *)

\* FileCommit: what is in file f is durable.
Committed(durable, file, f) == [durable EXCEPT ![f] = file[f]]

\* Mutant of Truncated: the last record is cut off.
Truncated_Short(content, n) == [p \in Positions |-> IF p < n - 1 THEN content[p] ELSE None]

Truncated(content, n) == [p \in Positions |-> IF p < n THEN content[p] ELSE None]

\* Mutant of FlushBlockFile: the block file is not committed.
FlushBlockFile_UndoOnly(f) ==
    /\ revDurable' = Committed(revDurable, rev, f)
    /\ UNCHANGED <<blk, blkDurable, rev>>

\* FlushBlockFile(false).
FlushBlockFile(f) ==
    /\ blkDurable' = Committed(blkDurable, blk, f)
    /\ revDurable' = Committed(revDurable, rev, f)
    /\ UNCHANGED <<blk, rev>>

\* The information on the last file, or on the one that becomes it.
BlockInfo(f) == IF f = nLastBlockFile THEN infoLastBlockFile ELSE db.info[f]

\* FlushBlockFile(true), for the files that are left.
FinalizeBlockFiles(left) ==
    /\ blk' = [f \in Files |-> IF f \in left THEN Truncated(blk[f], BlockInfo(f).nSize) ELSE blk[f]]
    /\ rev' = [f \in Files |-> IF f \in left THEN Truncated(rev[f], BlockInfo(f).nUndoSize) ELSE rev[f]]
    /\ blkDurable' = [f \in Files |-> IF f \in left THEN blk'[f] ELSE blkDurable[f]]
    /\ revDurable' = [f \in Files |-> IF f \in left THEN rev'[f] ELSE revDurable[f]]
-----------------------------------------------------------------------------
(* AcceptBlock *)

\* The loop condition of FindBlockPos.
Fits(f) == BlockInfo(f).nSize + 1 < MAX_BLOCKFILE_SIZE

\* FindBlockPos: the last file or the first one after it that is not full.
FindBlockPos(b) ==
    /\ pc = "idle" /\ scan = None /\ b \notin mapBlockIndex /\ HaveParent(b)
    /\ \E f \in nLastBlockFile..MaxFile :
          LET new == [BlockInfo(f) EXCEPT !.nSize = @ + 1]
          IN /\ Fits(f) /\ \A g \in nLastBlockFile..(f - 1) : ~Fits(g)
             /\ FinalizeBlockFiles(nLastBlockFile..(f - 1))
             /\ nLastBlockFile' = f /\ infoLastBlockFile' = new
             /\ \/ /\ Write([db EXCEPT !.info[f] = new])
                   /\ cur' = [block |-> b, at |-> Place(f, BlockInfo(f).nSize), known |-> FALSE]
                   /\ pc' = IF f = nLastBlockFile THEN "write" ELSE "last"
                   /\ UNCHANGED faults
                \/ /\ "full" \in Faults /\ faults < MaxFaults \* out of disk space
                   /\ faults' = faults + 1 /\ UNCHANGED <<pc, cur, dbVars>>
    /\ UNCHANGED <<tip, scan, ibd, coinVars, exposed, gap, missed, back>>

\* WriteLastBlockFile.
WriteLastBlockFile ==
    /\ pc = "last"
    /\ Write([db EXCEPT !.last = nLastBlockFile])
    /\ pc' = IF cur.known THEN "index" ELSE "write"
    /\ UNCHANGED <<memVars, coinVars, fileVars, histVars>>

\* Whether the writers commit "before returning".
CommitNow == ~ibd

\* WriteBlockToDisk.
WriteBlockToDisk ==
    /\ pc = "write"
    /\ blk' = [blk EXCEPT ![cur.at.file][cur.at.pos] = cur.block]
    /\ blkDurable' = IF CommitNow THEN Committed(blkDurable, blk', cur.at.file) ELSE blkDurable
    /\ pc' = "index"
    /\ UNCHANGED <<memVars, dbVars, coinVars, rev, revDurable, histVars>>

Entry(at) == [at |-> at, undo |-> None]
WithEntry(d, b, e) == [d EXCEPT !.index = [x \in DOMAIN @ \cup {b} |-> IF x = b THEN e ELSE @[x]]]

\* AddToBlockIndex; ActivateBestChain follows.
AddToBlockIndex ==
    /\ pc = "index"
    /\ Write(WithEntry(db, cur.block, Entry(cur.at)))
    /\ pc' = "activate" /\ cur' = None
    /\ UNCHANGED <<nLastBlockFile, infoLastBlockFile, tip, scan, ibd, coinVars, fileVars, histVars>>
-----------------------------------------------------------------------------
(* ActivateBestChain *)

CanRead(b) == blk[db.index[b].at.file][db.index[b].at.pos] = b
CanUndo(b) == LET u == db.index[b].undo IN u # None /\ rev[u.file][u.pos] = b
DataOf(b) == blk[db.index[b].at.file][db.index[b].at.pos]

\* Nothing to do.
ActivateReturns ==
    /\ pc = "activate" /\ Settled
    /\ pc' = "idle"
    /\ UNCHANGED <<memVars, dbVars, coinVars, fileVars, histVars>>

\* FindMostWorkChain and the next block to connect; a block that cannot be read
\* ends in AbortNode.
Towards(b) ==
    /\ pc = "activate" /\ ~Settled
    /\ \E x \in Best : b \in Ancestors(x) /\ Parent[b] = tip
    /\ IF DataOf(b) \in {b, Torn(b)}
       THEN pc' = "connect" /\ cur' = [block |-> b, at |-> db.index[b].at, known |-> TRUE]
       ELSE pc' = "off" /\ cur' = None
    /\ UNCHANGED <<nLastBlockFile, infoLastBlockFile, tip, scan, ibd, dbVars, coinVars, fileVars, histVars>>

\* CheckBlock finds the block damaged: it is not marked invalid, and ActivateBestChain
\* starts again.
ConnectCorrupted ==
    /\ pc = "connect" /\ DataOf(cur.block) = Torn(cur.block)
    /\ pc' = "activate" /\ cur' = None
    /\ UNCHANGED <<nLastBlockFile, infoLastBlockFile, tip, scan, ibd, dbVars, coinVars, fileVars, histVars>>

\* WriteChainState with tip b: in the initial download only now and then.
WriteChainState(b) ==
    \/ /\ FlushBlockFile(nLastBlockFile)
       /\ Sync
       /\ coinsDb' = b /\ coinsPast' = coinsPast \cup {coinsDb}
    \/ ibd /\ UNCHANGED <<fileVars, dbVars, coinVars>>

\* The information FindUndoPos goes by.
UndoInfo(f) == IF f = nLastBlockFile THEN infoLastBlockFile ELSE db.info[f]

MoreUndo(info) == [info EXCEPT !.nUndoSize = @ + 1]

\* FindUndoPos, in the file of the block.
FindUndoPos ==
    /\ pc = "connect" /\ CanRead(cur.block) /\ db.index[cur.block].undo = None
    /\ LET f == cur.at.file
           new == MoreUndo(UndoInfo(f))
       IN /\ UndoInfo(f).nUndoSize < MaxUndo
          /\ Write([db EXCEPT !.info[f] = new])
          /\ infoLastBlockFile' = IF f = nLastBlockFile THEN new ELSE infoLastBlockFile
          /\ cur' = [cur EXCEPT !.at = Place(f, UndoInfo(f).nUndoSize)]
    /\ pc' = "undo"
    /\ UNCHANGED <<nLastBlockFile, tip, scan, ibd, coinVars, fileVars, histVars>>

\* CBlockUndo::WriteToDisk.
WriteUndo ==
    /\ pc = "undo"
    /\ rev' = [rev EXCEPT ![cur.at.file][cur.at.pos] = cur.block]
    /\ revDurable' = IF CommitNow THEN Committed(revDurable, rev', cur.at.file) ELSE revDurable
    /\ pc' = "status"
    /\ UNCHANGED <<memVars, dbVars, coinVars, blk, blkDurable, histVars>>

\* The index entry with nUndoPos; the rest of ConnectBlock.
WriteUndoPos ==
    /\ pc = "status"
    /\ Write(WithEntry(db, cur.block, [db.index[cur.block] EXCEPT !.undo = cur.at]))
    /\ pc' = "flush"
    /\ UNCHANGED <<memVars, coinVars, fileVars, histVars>>

\* A block that was connected before has its undo data.
ReconnectBlock ==
    /\ pc = "connect" /\ CanRead(cur.block) /\ db.index[cur.block].undo # None
    /\ pc' = "flush"
    /\ UNCHANGED <<memVars, dbVars, coinVars, fileVars, histVars>>

\* The end of ConnectTip.
ConnectTip ==
    /\ pc = "flush"
    /\ WriteChainState(cur.block)
    /\ tip' = cur.block /\ pc' = "activate" /\ cur' = None
    /\ UNCHANGED <<nLastBlockFile, infoLastBlockFile, scan, ibd, histVars>>

\* DisconnectTip; without the block the node stops, without its undo data it goes on
\* with the chain it has.
DisconnectTip ==
    /\ pc = "activate" /\ ~Settled /\ tip # None
    /\ \E x \in Best : tip \notin Ancestors(x)
    /\ IF CanRead(tip) /\ CanUndo(tip)
       THEN WriteChainState(Parent[tip]) /\ tip' = Parent[tip] /\ UNCHANGED pc
       ELSE pc' = (IF CanRead(tip) THEN "idle" ELSE "off") /\ UNCHANGED <<tip, dbVars, coinVars, fileVars>>
    /\ UNCHANGED <<nLastBlockFile, infoLastBlockFile, cur, scan, ibd, histVars>>

LeaveInitialDownload ==
    /\ pc = "idle" /\ ibd /\ ibd' = FALSE
    /\ UNCHANGED <<pc, nLastBlockFile, infoLastBlockFile, tip, cur, scan, dbVars, coinVars, fileVars, histVars>>
-----------------------------------------------------------------------------
(* Faults and starts *)

Fault(kind) == kind \in Faults /\ faults < MaxFaults /\ faults' = faults + 1

\* The process ends; what it has written stays.
Kill ==
    /\ pc # "off" /\ Fault("kill")
    /\ pc' = "off"
    /\ UNCHANGED <<memVars, dbVars, coinVars, fileVars, exposed, gap, missed, back>>

\* What a power loss makes of the files: each record that is not durable stays or is
\* lost; a block may also be damaged (undo data has a checksum, and is lost then).
AfterLoss(file, durable, tears) ==
    LET volatile == {x \in Files \X Positions : file[x[1]][x[2]] # durable[x[1]][x[2]]}
        damageable == {x \in volatile : tears /\ file[x[1]][x[2]] \in Blocks}
    IN {[f \in Files |-> [p \in Positions |->
            IF <<f, p>> \in lost THEN durable[f][p]
            ELSE IF <<f, p>> \in torn THEN Torn(file[f][p]) ELSE file[f][p]]] :
        lost \in SUBSET volatile, torn \in SUBSET damageable}

PowerLoss ==
    /\ Fault("power")
    /\ pc' = "off"
    /\ db' \in dbPast \cup {db} /\ dbPast' = {}
    /\ coinsDb' \in coinsPast \cup {coinsDb} /\ coinsPast' = {}
    /\ blk' \in AfterLoss(blk, blkDurable, "torn" \in Faults) /\ blkDurable' = blk'
    /\ rev' \in AfterLoss(rev, revDurable, FALSE) /\ revDurable' = rev'
    /\ exposed' = (exposed \/ blk # blkDurable \/ rev # revDurable)
    /\ UNCHANGED <<memVars, gap, missed, back>>

\* LoadBlockIndexDB and VerifyDB succeed.
LoadOk ==
    /\ coinsDb = None \/ coinsDb \in mapBlockIndex
    /\ \A b \in Ancestors(coinsDb) : CanRead(b) /\ (db.index[b].undo # None => CanUndo(b))

\* The blocks in the files one after the other, each of them once and after its parent.
Before(x, y) == x.file < y.file \/ (x.file = y.file /\ x.pos < y.pos)
FilesClean ==
    /\ \A f \in Files : \A p \in Positions : blk[f][p] # None => \A q \in 0..p : blk[f][q] \in Blocks
    /\ \A f, g \in Files, p, q \in Positions :
          blk[f][p] # None /\ blk[f][p] = blk[g][q] => f = g /\ p = q
    /\ \A f \in Files, p \in Positions : blk[f][p] # None /\ Parent[blk[f][p]] # None =>
          \E g \in Files, q \in Positions :
             blk[g][q] = Parent[blk[f][p]] /\ Before(Place(g, q), Place(f, p))

\* What LoadExternalBlockFile skips of a file as the "already indexed part" when it opens
\* it, and whether a block in there is not in the index: its size was recorded, and the
\* process ended before its entry.
Skipped(at) == at.pos < db.info[at.file].nSize
SkipsUnindexed ==
    \E f \in Files, p \in Positions : Skipped(Place(f, p)) /\ blk[f][p] \in Blocks \ mapBlockIndex

\* A file after the one the database calls the last has records.
RecordsAfterLast == \E f \in Files : f > db.last /\ blk[f] # Nothing[f]

\* A start, which continues a reindexing that was interrupted.
Start ==
    /\ pc = "off" /\ LoadOk
    /\ nLastBlockFile' = db.last /\ infoLastBlockFile' = db.info[db.last]
    /\ tip' = coinsDb /\ cur' = None /\ ibd' \in Ibd
    /\ scan' = IF db.reindexing THEN Place(0, db.info[0].nSize) ELSE None
    /\ pc' = "activate"
    /\ gap' = (gap \/ (db.reindexing /\ ~FilesClean))
    /\ missed' = (missed \/ (db.reindexing /\ SkipsUnindexed))
    /\ back' = (back \/ (~db.reindexing /\ RecordsAfterLast))
    /\ UNCHANGED <<dbVars, coinVars, fileVars, faults, exposed>>

\* The process ends, if it has not, and is started with -reindex; or one whose load
\* failed goes on: UnloadBlockIndex leaves nLastBlockFile and infoLastBlockFile as they are.
Reindex ==
    /\ Fault("reindex")
    /\ \/ nLastBlockFile' = 0 /\ infoLastBlockFile' = NoInfo
       \/ pc = "off" /\ ~LoadOk /\ nLastBlockFile' = db.last /\ infoLastBlockFile' = db.info[db.last]
    /\ db' = [EmptyDb EXCEPT !.reindexing = TRUE] /\ dbPast' = {}
    /\ coinsDb' = None /\ coinsPast' = {} /\ tip' = None /\ cur' = None /\ ibd' \in Ibd
    /\ scan' = Place(0, 0) /\ pc' = "idle"
    /\ gap' = (gap \/ ~FilesClean)
    /\ UNCHANGED <<fileVars, exposed, missed, back>>

\* The places from scan on with a block that ProcessBlock accepts: it has nothing to
\* do with a gap, a damaged block, a duplicate or a block without its parent.  A file
\* that is still to be opened begins after what is skipped.
Found == {at \in [file : Files, pos : Positions] :
             /\ ~Before(at, scan) /\ (at.file > scan.file => ~Skipped(at))
             /\ blk[at.file][at.pos] \in Blocks \ mapBlockIndex /\ HaveParent(blk[at.file][at.pos])}

\* LoadExternalBlockFile goes on to the next of them: FindBlockPos with fKnown.
ReindexBlock ==
    /\ pc = "idle" /\ scan # None
    /\ \E at \in Found :
          LET new == [BlockInfo(at.file) EXCEPT !.nSize = @ + 1]
          IN /\ \A x \in Found : ~Before(x, at)
             /\ nLastBlockFile' = at.file /\ infoLastBlockFile' = new
             /\ Write([db EXCEPT !.info[at.file] = new])
             /\ cur' = [block |-> blk[at.file][at.pos], at |-> at, known |-> TRUE]
             /\ pc' = IF at.file = nLastBlockFile THEN "index" ELSE "last"
             /\ scan' = Place(at.file, at.pos + 1)
    /\ UNCHANGED <<tip, ibd, coinVars, fileVars, histVars>>

\* The end of the last file.
ReindexEnds ==
    /\ pc = "idle" /\ scan # None /\ Found = {}
    /\ Write([db EXCEPT !.reindexing = FALSE])
    /\ scan' = None
    /\ UNCHANGED <<pc, nLastBlockFile, infoLastBlockFile, tip, cur, ibd, coinVars, fileVars, histVars>>
-----------------------------------------------------------------------------
Activate ==
    \/ ActivateReturns \/ \E b \in Blocks : Towards(b)
    \/ ConnectCorrupted \/ FindUndoPos \/ WriteUndo \/ WriteUndoPos \/ ReconnectBlock
    \/ ConnectTip \/ DisconnectTip

Next ==
    \/ \E b \in Blocks : FindBlockPos(b)
    \/ WriteLastBlockFile \/ WriteBlockToDisk \/ AddToBlockIndex
    \/ Activate \/ LeaveInitialDownload
    \/ Kill \/ PowerLoss \/ Start \/ Reindex
    \/ ReindexBlock \/ ReindexEnds

Spec == Init /\ [][Next]_vars

\* The thread that activates a chain goes on.
FairSpec == Spec /\ WF_vars(Activate)
-----------------------------------------------------------------------------
(* Properties *)

TypeOK ==
    /\ pc \in {"off", "idle", "write", "last", "index", "activate", "connect", "undo", "status", "flush"}
    /\ nLastBlockFile \in Files /\ tip \in Blocks \cup {None} /\ coinsDb \in Blocks \cup {None}
    /\ infoLastBlockFile.nSize \in Nat /\ infoLastBlockFile.nUndoSize \in 0..MaxUndo
    /\ \A d \in dbPast \cup {db} : DOMAIN d.index \subseteq Blocks /\ d.last \in Files
    /\ \A b \in mapBlockIndex : db.index[b].at.pos \in 0..(MAX_BLOCKFILE_SIZE - 2)
    /\ coinsPast \subseteq Blocks \cup {None} /\ ibd \in BOOLEAN /\ faults \in 0..MaxFaults

\* No data was lost that was only in the caches of the operating system, and no
\* reindexing met a gap, a duplicate or an orphan, which it does not count in nSize, or
\* left out a block, whose children it then takes for orphans.
Undamaged == ~exposed /\ ~gap /\ ~missed

\* Every entry of the index leads to its block, and every nUndoPos to its undo data,
\* through changes of file, kills, power losses after the initial download and
\* -reindex: records are never overwritten or truncated away.
IndexReadable ==
    Undamaged => \A b \in mapBlockIndex : CanRead(b) /\ (db.index[b].undo # None => CanUndo(b))

\* Whatever tip a power loss may bring back, its blocks are durable, in the initial
\* download too: WriteChainState commits the last file and FindBlockPos every file it
\* leaves.  The exception: a start with a last file before one that has records, after
\* the disk was full at the change of file or a power loss took back its number.
ChainDurable ==
    ~gap /\ ~missed /\ ~back => \A t \in coinsPast \cup {coinsDb} : \A b \in Ancestors(t) :
               \A d \in dbPast \cup {db} :
                  b \in DOMAIN d.index /\ blkDurable[d.index[b].at.file][d.index[b].at.pos] = b

\* The same for the undo data: it is written "and commit(ted) to disk before returning".
\* The code does not keep this (README, section 4).
UndoDurable ==
    ~gap => \A t \in coinsPast \cup {coinsDb} : \A b \in Ancestors(t) :
               \A d \in dbPast \cup {db} :
                  LET u == d.index[b].undo IN u # None /\ revDurable[u.file][u.pos] = b

\* -reindex tries to "skip already indexed part": what it skips is in the index.
\* The code does not keep this (README, section 4).
SkipsIndexed == ~missed

\* The size FindBlockPos goes by is never behind the blocks in the file, nor is that
\* of the undo data: a new record is appended.
SizesCover ==
    Undamaged /\ scan = None => \A b \in mapBlockIndex :
        /\ db.index[b].at.pos < db.info[db.index[b].at.file].nSize
        /\ db.index[b].undo # None => db.index[b].undo.pos < db.info[db.index[b].undo.file].nUndoSize

\* Together: what is in the files can be read, and will not be written over.
FilesReadable == TypeOK /\ IndexReadable /\ SizesCover

\* WriteBlockToDisk opens the "history file to append": it never writes over a block
\* in the index.
\* The code does not keep this (README, section 4).
WritesAppend ==
    [][\A b \in mapBlockIndex : CanRead(b) /\ WriteBlockToDisk =>
          blk'[db.index[b].at.file][db.index[b].at.pos] = b]_vars

\* ActivateBestChain ends: with the best chain, or with an error.
\* The code does not keep this (README, section 4).
ActivateEnds == (pc = "activate") ~> (pc \in {"idle", "off"})
=============================================================================
