--------------------------- MODULE BlockFilesProofs ---------------------------
(***************************************************************************)
(* Proofs about BlockFiles: for any tree of blocks, any number and size of *)
(* files and any number of kills, power losses, full disks and runs of     *)
(* -reindex.                                                               *)
(*                                                                         *)
(* That an entry leads to its record is not inductive: a record is put     *)
(* where a size says, and the size may come from memory or from an earlier *)
(* value of the database.  FilesInv says it of every value a power loss    *)
(* may bring back, has the sizes grow from one value to the next and on to *)
(* those in memory, follows the record in hand from its place to its entry *)
(* (HandRecords), and says what -reindex has passed is indexed (Scanned):  *)
(* a block it accepts has all the blocks before it in its file counted.    *)
(***************************************************************************)
EXTENDS BlockFiles, TLAPS

-----------------------------------------------------------------------------
(* The inductive invariant *)

\* The value of the database, and those a power loss may bring back.
Databases == dbPast \cup {db}

Info == [nSize : Nat, nUndoSize : 0..MaxUndo]
BlockPlace == [file : Files, pos : 0..(MAX_BLOCKFILE_SIZE - 2)]
UndoPlace == [file : Files, pos : 0..(MaxUndo - 1)]
EntryType == [at : BlockPlace, undo : UndoPlace \cup {None}]

IndexType(index) ==
    /\ index = [b \in DOMAIN index |-> index[b]]
    /\ \A b \in DOMAIN index : b \in Blocks /\ index[b] \in EntryType
DbType(d) ==
    /\ d = [info |-> d.info, last |-> d.last, index |-> d.index, reindexing |-> d.reindexing]
    /\ d.info \in [Files -> Info] /\ d.last \in Files /\ IndexType(d.index)
DbTypes == \A d \in Databases : DbType(d)

Memory ==
    /\ pc \in {"off", "idle", "write", "last", "index", "activate", "connect", "undo", "status", "flush"}
    /\ nLastBlockFile \in Files /\ infoLastBlockFile \in Info
    /\ tip \in Blocks \cup {None} /\ coinsDb \in Blocks \cup {None} /\ coinsPast \subseteq Blocks \cup {None}
    /\ ibd \in BOOLEAN /\ faults \in 0..MaxFaults

\* A file has something at each place, and blocks only where FindBlockPos puts them.
Shape(content) == content = [f \in Files |-> [p \in Positions |-> content[f][p]]]
InBounds(content) == \A f \in Files : \A p \in Positions : content[f][p] # None => p \in 0..(MAX_BLOCKFILE_SIZE - 2)
FileShapes ==
    /\ Shape(blk) /\ Shape(blkDurable) /\ Shape(rev) /\ Shape(revDurable)
    /\ InBounds(blk) /\ InBounds(blkDurable)

\* In each value of the database, a block has its parent too.
Closed(index) == \A b \in DOMAIN index : Parent[b] = None \/ Parent[b] \in DOMAIN index
ParentsFirst == \A d \in Databases : Closed(d.index)

\* What the thread that holds cs_main has in hand.
InHand ==
    /\ pc \in {"last", "write", "index"} => cur.block \in Blocks /\ cur.at \in BlockPlace /\ HaveParent(cur.block)
    /\ pc \in {"connect", "undo", "status", "flush"} => cur.block \in mapBlockIndex
    /\ pc = "connect" => cur.at \in BlockPlace /\ cur = [block |-> cur.block, at |-> cur.at, known |-> cur.known]
    /\ pc \in {"undo", "status"} => cur.at \in UndoPlace

\* The sizes grow from one value of the database to the next, and memory is ahead of it.
NoLess(i, j) == i.nSize <= j.nSize /\ i.nUndoSize <= j.nUndoSize
SizesGrow == \A d \in Databases : \A f \in Files : NoLess(d.info[f], db.info[f])
MemoryAhead == pc # "off" => NoLess(db.info[nLastBlockFile], infoLastBlockFile)

\* Every entry of d leads to a record below the size that d has.
LeadsToBlock(d, b) == LET at == d.index[b].at IN blk[at.file][at.pos] = b /\ at.pos < d.info[at.file].nSize
LeadsToUndo(d, b) ==
    LET u == d.index[b].undo IN u # None => rev[u.file][u.pos] = b /\ u.pos < d.info[u.file].nUndoSize
Leads(d) == \A b \in DOMAIN d.index : LeadsToBlock(d, b) /\ LeadsToUndo(d, b)
AllLead == \A d \in Databases : Leads(d)

\* No entry of d leads to a place.
UnusedBy(d, at) == \A b \in DOMAIN d.index : d.index[b].at # at
UnusedUndoBy(d, at) == \A b \in DOMAIN d.index : d.index[b].undo # None => d.index[b].undo # at
Unused(at) == \A d \in Databases : UnusedBy(d, at)
UnusedUndo(at) == \A d \in Databases : UnusedUndoBy(d, at)

\* A record about to be written replaces none, and one that was written is what its
\* entry will lead to.
HandRecords ==
    /\ pc \in {"last", "write", "index"} => cur.at.pos < db.info[cur.at.file].nSize
    /\ pc = "write" \/ (pc = "last" /\ ~cur.known) => Unused(cur.at)
    /\ pc = "index" \/ (pc = "last" /\ cur.known) => blk[cur.at.file][cur.at.pos] = cur.block
    /\ pc \in {"undo", "status"} => cur.at.pos < db.info[cur.at.file].nUndoSize
    /\ pc = "undo" => UnusedUndo(cur.at)
    /\ pc = "status" => rev[cur.at.file][cur.at.pos] = cur.block

\* What -reindex has passed is in the index, what it will skip of the files to come
\* included.  Their sizes do not grow before it opens them.
Passed(at) ==
    LET b == blk[at.file][at.pos]
    IN b = None \/ b \in mapBlockIndex \/ (pc \in {"last", "index"} /\ b = cur.block)
Behind(f, p) == Before(Place(f, p), scan) \/ (f > scan.file /\ Skipped(Place(f, p)))
LastScanned ==
    /\ pc \in {"last", "index"} => nLastBlockFile = scan.file
    /\ nLastBlockFile > scan.file =>
          infoLastBlockFile.nSize = db.info[nLastBlockFile].nSize \/ mapBlockIndex = {}
Scanned ==
    scan # None /\ pc # "off" =>
       /\ FilesClean /\ scan.file \in Files
       /\ pc # "write" /\ (pc = "last" => cur.known)
       /\ LastScanned
       /\ \A f \in Files : \A p \in Positions : Behind(f, p) => Passed(Place(f, p))

Sound == Undamaged => AllLead /\ HandRecords /\ Scanned
FilesInv ==
    Memory /\ DbTypes /\ FileShapes /\ ParentsFirst /\ InHand /\ SizesGrow /\ MemoryAhead /\ Sound

-----------------------------------------------------------------------------
(* Constants, records and files *)

LEMMA LastPosition == \E m \in Nat : Positions = 0..m /\ m >= MAX_BLOCKFILE_SIZE /\ m >= MaxUndo
PROOF
<1>1. MAX_BLOCKFILE_SIZE \in Nat \ {0} /\ MaxUndo \in Nat
  BY BlockFilesAssumption
<1> DEFINE S == {MAX_BLOCKFILE_SIZE, MaxUndo}
           m == Max(S)
<1>2. \E x \in S : \A y \in S : x >= y
  BY <1>1
<1>3. m \in S /\ \A y \in S : m >= y
  BY <1>2 DEF Max
<1>4. m \in Nat /\ m >= MAX_BLOCKFILE_SIZE /\ m >= MaxUndo
  BY <1>1, <1>3
<1> HIDE DEF m
<1>5. Positions = 0..m
  BY DEF Positions, m
<1> QED BY <1>4, <1>5

LEMMA Bounds ==
  /\ MAX_BLOCKFILE_SIZE \in Nat \ {0} /\ MaxUndo \in Nat /\ MaxFile \in Nat /\ MaxFaults \in Nat
  /\ 0..(MAX_BLOCKFILE_SIZE - 2) \subseteq Positions /\ 0..(MaxUndo - 1) \subseteq Positions
  /\ Positions \subseteq Nat /\ Files \subseteq Nat /\ 0 \in Files /\ 0 \in Positions
  /\ NoInfo \in Info /\ None \notin Blocks
PROOF
<1>1. MAX_BLOCKFILE_SIZE \in Nat \ {0} /\ MaxUndo \in Nat /\ MaxFile \in Nat /\ MaxFaults \in Nat /\ None \notin Blocks
  BY BlockFilesAssumption
<1>2. PICK m \in Nat : Positions = 0..m /\ m >= MAX_BLOCKFILE_SIZE /\ m >= MaxUndo
  BY LastPosition
<1> QED BY <1>1, <1>2 DEF Files, NoInfo, Info

\* Places are numbers, from 0 on.
LEMMA PlacesAreNumbers ==
  /\ \A f \in Files : f \in Int
  /\ \A p \in Positions : p \in Nat /\ p \in Int /\ (p # 0 => p - 1 \in Positions)
PROOF
<1>1. \A f \in Files : f \in Int
  BY DEF Files
<1>2. PICK m \in Nat : Positions = 0..m
  BY LastPosition
<1>3. \A p \in 0..m : p \in Nat /\ p \in Int /\ (p # 0 => p - 1 \in 0..m)
  OBVIOUS
<1> QED BY <1>1, <1>2, <1>3

\* A place with a block in it, or one for undo data.
LEMMA PlaceFacts ==
  /\ \A at \in BlockPlace : at.file \in Files /\ at.pos \in Positions /\ at = Place(at.file, at.pos)
  /\ \A at \in UndoPlace : at.file \in Files /\ at.pos \in Positions /\ at = Place(at.file, at.pos)
  /\ \A f, p : Place(f, p).file = f /\ Place(f, p).pos = p
BY Bounds DEF BlockPlace, UndoPlace, Place

\* A new value for the information on a file.
WithInfo(d, f, new) == [d EXCEPT !.info[f] = new]

LEMMA InfoWritten ==
  ASSUME NEW d, DbType(d), NEW f \in Files, NEW new \in Info, NEW e, e = WithInfo(d, f, new)
  PROVE  /\ DbType(e) /\ e.index = d.index /\ e.last = d.last /\ e.reindexing = d.reindexing
         /\ e.info[f] = new /\ \A g \in Files : g # f => e.info[g] = d.info[g]
PROOF
<1>1. /\ d = [info |-> d.info, last |-> d.last, index |-> d.index, reindexing |-> d.reindexing]
      /\ d.info \in [Files -> Info]
  BY DEF DbType
<1> DEFINE i == [d.info EXCEPT ![f] = new]
<1>2. e = [info |-> i, last |-> d.last, index |-> d.index, reindexing |-> d.reindexing]
  BY <1>1 DEF WithInfo
<1>3. i \in [Files -> Info] /\ i[f] = new /\ \A g \in Files : g # f => i[g] = d.info[g]
  BY <1>1
<1> HIDE DEF i
<1>4. e.info = i /\ e.last = d.last /\ e.index = d.index /\ e.reindexing = d.reindexing
  BY <1>2
<1> QED BY <1>2, <1>3, <1>4 DEF DbType

\* A new value for the number of the last file.
LEMMA LastWritten ==
  ASSUME NEW d, DbType(d), NEW f \in Files, NEW e, e = [d EXCEPT !.last = f]
  PROVE  DbType(e) /\ e.index = d.index /\ e.info = d.info
PROOF
<1>1. d = [info |-> d.info, last |-> d.last, index |-> d.index, reindexing |-> d.reindexing]
  BY DEF DbType
<1>2. e = [info |-> d.info, last |-> f, index |-> d.index, reindexing |-> d.reindexing]
  BY <1>1
<1> QED BY <1>2 DEF DbType

\* The same for the flag.
LEMMA FlagWritten ==
  ASSUME NEW d, DbType(d), NEW e, NEW flag, e = [d EXCEPT !.reindexing = flag]
  PROVE  DbType(e) /\ e.index = d.index /\ e.info = d.info
PROOF
<1>1. d = [info |-> d.info, last |-> d.last, index |-> d.index, reindexing |-> d.reindexing]
  BY DEF DbType
<1>2. e = [info |-> d.info, last |-> d.last, index |-> d.index, reindexing |-> flag]
  BY <1>1
<1> QED BY <1>2 DEF DbType

\* A new entry in the index, or a new value for one.
LEMMA EntryWritten ==
  ASSUME NEW d, DbType(d), NEW b \in Blocks, NEW entry \in EntryType, NEW e, e = WithEntry(d, b, entry)
  PROVE  /\ DbType(e) /\ e.info = d.info /\ DOMAIN e.index = DOMAIN d.index \cup {b}
         /\ e.index[b] = entry /\ \A x \in DOMAIN d.index : x # b => e.index[x] = d.index[x]
PROOF
<1>1. d = [info |-> d.info, last |-> d.last, index |-> d.index, reindexing |-> d.reindexing]
      /\ IndexType(d.index)
  BY DEF DbType
<1> DEFINE j == [x \in DOMAIN d.index \cup {b} |-> IF x = b THEN entry ELSE d.index[x]]
<1>2. e = [info |-> d.info, last |-> d.last, index |-> j, reindexing |-> d.reindexing]
  BY <1>1 DEF WithEntry
<1>3. /\ DOMAIN j = DOMAIN d.index \cup {b} /\ j[b] = entry
      /\ \A x \in DOMAIN d.index : x # b => j[x] = d.index[x]
      /\ j = [x \in DOMAIN j |-> j[x]]
  OBVIOUS
<1> HIDE DEF j
<1>4. IndexType(j)
  BY <1>1, <1>3 DEF IndexType
<1> QED BY <1>2, <1>3, <1>4 DEF DbType

\* A record put into a file.
WithRecord(content, f, p, x) == [content EXCEPT ![f][p] = x]

LEMMA RecordWritten ==
  ASSUME NEW content, Shape(content), NEW f \in Files, NEW p \in Positions, NEW x,
         NEW new, new = WithRecord(content, f, p, x)
  PROVE  /\ Shape(new) /\ new[f][p] = x
         /\ \A g \in Files : \A q \in Positions : g # f \/ q # p => new[g][q] = content[g][q]
BY DEF Shape, WithRecord

\* A file committed.
LEMMA CommittedShape ==
  ASSUME NEW durable, Shape(durable), NEW content, Shape(content), NEW f \in Files
  PROVE  Shape(Committed(durable, content, f))
BY DEF Shape, Committed

\* Contents given file by file.
LEMMA ShapeByFile ==
  ASSUME NEW one, Shape(one), NEW other, Shape(other), NEW S, NEW new,
         new = [f \in Files |-> IF f \in S THEN one[f] ELSE other[f]]
  PROVE  Shape(new)
PROOF
<1>1. \A f \in Files : one[f] = [p \in Positions |-> one[f][p]] /\ other[f] = [p \in Positions |-> other[f][p]]
  BY DEF Shape
<1>2. \A f \in Files : new[f] = IF f \in S THEN one[f] ELSE other[f]
  OBVIOUS
<1>3. ASSUME NEW f \in Files PROVE new[f] = [p \in Positions |-> new[f][p]]
  BY <1>1, <1>2
<1>4. new = [f \in Files |-> new[f]]
  OBVIOUS
<1>5. new = [f \in Files |-> [p \in Positions |-> new[f][p]]]
  BY <1>3, <1>4
<1> QED BY <1>5 DEF Shape

LEMMA CommittedBounds ==
  ASSUME NEW durable, InBounds(durable), NEW content, InBounds(content), NEW f \in Files, Shape(durable)
  PROVE  InBounds(Committed(durable, content, f))
PROOF
<1> DEFINE new == Committed(durable, content, f)
<1>0. durable = [g \in Files |-> [p \in Positions |-> durable[g][p]]]
  BY DEF Shape
<1>1. \A g \in Files : new[g] = IF g = f THEN content[g] ELSE durable[g]
  BY <1>0 DEF Committed
<1> HIDE DEF new
<1>2. InBounds(new)
  BY <1>1 DEF InBounds
<1> QED BY <1>2 DEF new

\* What a power loss leaves at each place.
LEMMA Lost ==
  ASSUME NEW content, NEW durable, NEW tears,
         NEW new \in AfterLoss(content, durable, tears)
  PROVE  /\ Shape(new)
         /\ \A f \in Files : \A p \in Positions :
               \/ new[f][p] = durable[f][p] \/ new[f][p] = content[f][p]
               \/ content[f][p] \in Blocks /\ content[f][p] # durable[f][p]
         /\ \A f \in Files : \A p \in Positions :
               content[f][p] = durable[f][p] => new[f][p] = content[f][p]
PROOF
<1> DEFINE volatile == {x \in Files \X Positions : content[x[1]][x[2]] # durable[x[1]][x[2]]}
           damageable == {x \in volatile : tears /\ content[x[1]][x[2]] \in Blocks}
           At(lost, torn, f, p) == IF <<f, p>> \in lost THEN durable[f][p]
                                   ELSE IF <<f, p>> \in torn THEN Torn(content[f][p]) ELSE content[f][p]
           Left(lost, torn) == [f \in Files |-> [p \in Positions |-> At(lost, torn, f, p)]]
<1>0. AfterLoss(content, durable, tears) = {Left(lost, torn) : lost \in SUBSET volatile, torn \in SUBSET damageable}
  BY DEF AfterLoss
<1>9. ASSUME NEW V, NEW W, NEW x \in {Left(lost, torn) : lost \in SUBSET V, torn \in SUBSET W}
      PROVE  \E lost \in SUBSET V, torn \in SUBSET W : x = Left(lost, torn)
  <2> HIDE DEF Left
  <2> QED BY <1>9, SMT
<1>10. \E lost \in SUBSET volatile, torn \in SUBSET damageable : new = Left(lost, torn)
  <2> HIDE DEF Left, volatile, damageable
  <2> QED BY <1>0, <1>9
<1>1. PICK lost \in SUBSET volatile, torn \in SUBSET damageable :
         new = [f \in Files |-> [p \in Positions |-> At(lost, torn, f, p)]]
  BY <1>10, Zenon
<1>2. \A f \in Files : \A p \in Positions : <<f, p>> \in lost \/ <<f, p>> \in torn => content[f][p] # durable[f][p]
  OBVIOUS
<1>3. \A f \in Files : \A p \in Positions : <<f, p>> \in torn => content[f][p] \in Blocks
  OBVIOUS
<1> HIDE DEF volatile, damageable
<1>4. Shape(new)
  BY <1>1 DEF Shape
<1>5. \A f \in Files : \A p \in Positions : new[f][p] = At(lost, torn, f, p)
  BY <1>1
<1> QED BY <1>2, <1>3, <1>4, <1>5

\* A power loss changes nothing when everything is durable.
LEMMA NothingLost ==
  ASSUME NEW content, Shape(content), NEW tears, NEW new \in AfterLoss(content, content, tears)
  PROVE  new = content
PROOF
<1>1. Shape(new) /\ \A f \in Files : \A p \in Positions : new[f][p] = content[f][p]
  BY Lost
<1> QED BY <1>1 DEF Shape

\* What FinalizeBlockFiles leaves: all the records below the sizes.
LEMMA Finalized ==
  ASSUME FileShapes, NEW left \in SUBSET Files, FinalizeBlockFiles(left)
  PROVE  /\ FileShapes'
         /\ \A f \in Files : \A p \in Positions :
               /\ f \notin left \/ p < BlockInfo(f).nSize => blk'[f][p] = blk[f][p]
               /\ f \notin left \/ p < BlockInfo(f).nUndoSize => rev'[f][p] = rev[f][p]
PROOF
<1>1. \A f \in Files : \A p \in Positions :
         /\ f \in left => blk'[f][p] = IF p < BlockInfo(f).nSize THEN blk[f][p] ELSE None
         /\ f \notin left => blk'[f][p] = blk[f][p]
  BY DEF FinalizeBlockFiles, Truncated
<1>2. \A f \in Files : \A p \in Positions :
         /\ f \in left => rev'[f][p] = IF p < BlockInfo(f).nUndoSize THEN rev[f][p] ELSE None
         /\ f \notin left => rev'[f][p] = rev[f][p]
  BY DEF FinalizeBlockFiles, Truncated
<1>3. Shape(blk)'
  BY DEF FinalizeBlockFiles, Truncated, Shape, FileShapes
<1>4. Shape(rev)'
  BY DEF FinalizeBlockFiles, Truncated, Shape, FileShapes
<1>5. Shape(blkDurable)'
  <2>1. blkDurable' = [f \in Files |-> IF f \in left THEN blk'[f] ELSE blkDurable[f]]
    BY DEF FinalizeBlockFiles
  <2>2. Shape(blk') /\ Shape(blkDurable)
    BY <1>3 DEF FileShapes
  <2>3. Shape(blkDurable')
    BY <2>1, <2>2, ShapeByFile
  <2> QED BY <2>3
<1>8. Shape(revDurable)'
  <2>1. revDurable' = [f \in Files |-> IF f \in left THEN rev'[f] ELSE revDurable[f]]
    BY DEF FinalizeBlockFiles
  <2>2. Shape(rev') /\ Shape(revDurable)
    BY <1>4 DEF FileShapes
  <2>3. Shape(revDurable')
    BY <2>1, <2>2, ShapeByFile
  <2> QED BY <2>3
<1>6. InBounds(blk)'
  BY <1>1 DEF InBounds, FileShapes
<1>7. InBounds(blkDurable)'
  <2>1. \A f \in Files : blkDurable'[f] = IF f \in left THEN blk'[f] ELSE blkDurable[f]
    BY DEF FinalizeBlockFiles
  <2> QED BY <2>1, <1>6 DEF InBounds, FileShapes
<1> QED BY <1>1, <1>2, <1>3, <1>4, <1>5, <1>6, <1>7, <1>8 DEF FileShapes

-----------------------------------------------------------------------------
(* The ancestors of a block *)

\* One step of the recursion.
Up(f, x) == IF x = None THEN {} ELSE {x} \cup f[Parent[x]]
SolvesUp(f) == f = [x \in Blocks \cup {None} |-> Up(f, x)]

\* The smallest set with a block that has the parents of its blocks.
WithParents(K) == K \subseteq Blocks /\ \A b \in K : Parent[b] = None \/ Parent[b] \in K
Least(x) == {b \in Blocks : \A K \in SUBSET Blocks : WithParents(K) /\ x \in K => b \in K}

LEMMA LeastStep ==
  ASSUME NEW x \in Blocks
  PROVE  Least(x) = {x} \cup (IF Parent[x] = None THEN {} ELSE Least(Parent[x]))
PROOF
<1>0. Parent[x] \in Blocks \cup {None} /\ None \notin Blocks /\ Parent \in [Blocks -> Blocks \cup {None}]
  BY BlockFilesAssumption
<1> DEFINE R == {x} \cup (IF Parent[x] = None THEN {} ELSE Least(Parent[x]))
<1>1. ASSUME NEW b \in R PROVE b \in Least(x)
  BY <1>0 DEF Least, WithParents
<1>2. \A b \in Blocks : b \in Blocks /\ Least(b) \subseteq Blocks
  BY DEF Least
<1>3. \A y \in Blocks : WithParents(Least(y)) /\ y \in Least(y)
  BY <1>0 DEF WithParents, Least
<1>4. WithParents(R) /\ x \in R /\ R \in SUBSET Blocks
  BY <1>0, <1>2, <1>3 DEF WithParents
<1> HIDE DEF R
<1>5. ASSUME NEW b \in Least(x) PROVE b \in R
  BY <1>4 DEF Least
<1>6. Least(x) = R
  BY <1>1, <1>5
<1> QED BY <1>6 DEF R

LEMMA UpSolved == \E f : SolvesUp(f)
PROOF
<1> DEFINE f == [x \in Blocks \cup {None} |-> IF x = None THEN {} ELSE Least(x)]
<1>0. None \notin Blocks /\ Parent \in [Blocks -> Blocks \cup {None}]
  BY BlockFilesAssumption
<1>1. \A x \in Blocks \cup {None} : f[x] = IF x = None THEN {} ELSE Least(x)
  OBVIOUS
<1> HIDE DEF f
<1>2. ASSUME NEW x \in Blocks \cup {None} PROVE f[x] = Up(f, x)
  <2>1. CASE x = None
    BY <2>1, <1>1 DEF Up
  <2>2. CASE x # None
    <3>1. x \in Blocks /\ Parent[x] \in Blocks \cup {None}
      BY <2>2, <1>0
    <3>2. f[x] = Least(x) /\ f[Parent[x]] = IF Parent[x] = None THEN {} ELSE Least(Parent[x])
      BY <1>1, <3>1, <2>2
    <3> QED BY <3>1, <3>2, <2>2, LeastStep DEF Up
  <2> QED BY <2>1, <2>2
<1>3. f = [x \in Blocks \cup {None} |-> f[x]]
  BY DEF f
<1>4. f = [x \in Blocks \cup {None} |-> Up(f, x)]
  BY <1>2, <1>3
<1> QED BY <1>4 DEF SolvesUp

\* The recursion of Ancestors.
LEMMA AncestorsStep ==
  /\ Ancestors(None) = {}
  /\ \A x \in Blocks : Ancestors(x) = {x} \cup Ancestors(Parent[x])
PROOF
<1> DEFINE up == CHOOSE f : f = [x \in Blocks \cup {None} |-> IF x = None THEN {} ELSE {x} \cup f[Parent[x]]]
<1>0. None \notin Blocks /\ Parent \in [Blocks -> Blocks \cup {None}]
  BY BlockFilesAssumption
<1>1. up = [x \in Blocks \cup {None} |-> IF x = None THEN {} ELSE {x} \cup up[Parent[x]]]
  BY UpSolved, Zenon DEF SolvesUp, Up
<1>2. \A x : Ancestors(x) = up[x]
  BY DEF Ancestors
<1> HIDE DEF up
<1>3. \A x \in Blocks \cup {None} : up[x] = IF x = None THEN {} ELSE {x} \cup up[Parent[x]]
  BY <1>1
<1> QED BY <1>0, <1>2, <1>3

\* The ancestors of an indexed block are indexed.
LEMMA AncestorsIn ==
  ASSUME NEW K \in SUBSET Blocks, WithParents(K), NEW x \in K
  PROVE  Ancestors(x) \subseteq K
PROOF
<1> DEFINE S == {b \in K : ~(Ancestors(b) \subseteq K)}
<1>1. SUFFICES ASSUME S # {} PROVE FALSE
  OBVIOUS
<1>2. PICK b \in S : Parent[b] \notin S
  <2>1. S \in (SUBSET Blocks) \ {{}}
    BY <1>1
  <2> HIDE DEF S
  <2> QED BY <2>1, BlockFilesAssumption
<1>3. b \in Blocks /\ (Parent[b] = None \/ Parent[b] \in K)
  BY DEF WithParents
<1>4. Ancestors(Parent[b]) \subseteq K
  BY <1>2, <1>3, AncestorsStep
<1> QED BY <1>4, <1>2, AncestorsStep

-----------------------------------------------------------------------------
(* What an action leaves alone, and what a write to the database does *)

LEMMA SameDatabase ==
  ASSUME DbTypes, ParentsFirst, SizesGrow, UNCHANGED dbVars
  PROVE  DbTypes' /\ ParentsFirst' /\ SizesGrow' /\ Databases' = Databases
BY DEF dbVars, DbTypes, ParentsFirst, SizesGrow, Databases

LEMMA SameFiles ==
  ASSUME FileShapes, UNCHANGED fileVars
  PROVE  FileShapes'
BY DEF fileVars, FileShapes

LEMMA InfoFacts ==
  /\ \A i \in Info : i.nSize \in Nat /\ i.nUndoSize \in 0..MaxUndo /\ i.nUndoSize \in Int
  /\ \A i \in Info, j \in Info : NoLess(i, j) => i.nSize <= j.nSize /\ i.nUndoSize <= j.nUndoSize
BY Bounds DEF Info, NoLess

LEMMA NoLessReflexive ==
  ASSUME NEW i \in Info
  PROVE  NoLess(i, i)
BY Bounds DEF Info, NoLess

LEMMA NoLessTransitive ==
  ASSUME NEW i \in Info, NEW j \in Info, NEW k \in Info, NoLess(i, j), NoLess(j, k)
  PROVE  NoLess(i, k)
BY Bounds DEF Info, NoLess

\* A write puts one more value among those of the database.
LEMMA WriteAdds ==
  ASSUME NEW new, Write(new)
  PROVE  Databases' = Databases \cup {new} /\ db' = new
BY DEF Write, Databases

LEMMA Written ==
  ASSUME DbTypes, ParentsFirst, SizesGrow, NEW new, Write(new), DbType(new), Closed(new.index),
         \A f \in Files : NoLess(db.info[f], new.info[f])
  PROVE  DbTypes' /\ ParentsFirst' /\ SizesGrow'
PROOF
<1>1. Databases' = Databases \cup {new} /\ db' = new /\ db \in Databases
  BY DEF Write, Databases
<1>2. DbTypes'
  BY <1>1 DEF DbTypes
<1>3. ParentsFirst'
  BY <1>1 DEF ParentsFirst
<1>4. SizesGrow'
  <2>1. ASSUME NEW d \in Databases', NEW f \in Files PROVE NoLess(d.info[f], new.info[f])
    <3>1. DbType(new) /\ new.info[f] \in Info /\ db.info[f] \in Info
      BY <1>1 DEF DbTypes, DbType
    <3>2. CASE d = new
      BY <3>1, <3>2, NoLessReflexive
    <3>3. CASE d \in Databases
      <4>1. d.info[f] \in Info /\ NoLess(d.info[f], db.info[f])
        BY <3>3 DEF DbTypes, DbType, SizesGrow
      <4> QED BY <4>1, <3>1, NoLessTransitive
    <3> QED BY <3>2, <3>3, <1>1
  <2> QED BY <2>1, <1>1 DEF SizesGrow
<1> QED BY <1>2, <1>3, <1>4

\* Only the values that are left count: after Sync, after a power loss.
LEMMA FewerValues ==
  ASSUME DbTypes, ParentsFirst, db' \in Databases, dbPast' = {}
  PROVE  DbTypes' /\ ParentsFirst' /\ SizesGrow' /\ Databases' = {db'}
PROOF
<1>1. Databases' = {db'}
  BY DEF Databases
<1>2. DbTypes'
  BY <1>1 DEF DbTypes
<1>3. ParentsFirst'
  BY <1>1 DEF ParentsFirst
<1>4. SizesGrow'
  <2>1. \A f \in Files : NoLess(db'.info[f], db'.info[f])
    BY NoLessReflexive DEF DbTypes, DbType
  <2> QED BY <2>1, <1>1 DEF SizesGrow
<1> QED BY <1>1, <1>2, <1>3, <1>4

\* Entries lead to their records as long as these stay.
LEMMA StillLeads ==
  ASSUME NEW d, DbType(d), Leads(d),
         \A f \in Files : \A p \in Positions : p < d.info[f].nSize => blk'[f][p] = blk[f][p],
         \A f \in Files : \A p \in Positions : p < d.info[f].nUndoSize => rev'[f][p] = rev[f][p]
  PROVE  \A b \in DOMAIN d.index :
            LET at == d.index[b].at
                u == d.index[b].undo
            IN /\ blk'[at.file][at.pos] = b /\ at.pos < d.info[at.file].nSize
               /\ u # None => rev'[u.file][u.pos] = b /\ u.pos < d.info[u.file].nUndoSize
PROOF
<1> SUFFICES ASSUME NEW b \in DOMAIN d.index
             PROVE  LET at == d.index[b].at
                        u == d.index[b].undo
                    IN /\ blk'[at.file][at.pos] = b /\ at.pos < d.info[at.file].nSize
                       /\ u # None => rev'[u.file][u.pos] = b /\ u.pos < d.info[u.file].nUndoSize
  OBVIOUS
<1> DEFINE at == d.index[b].at
           u == d.index[b].undo
<1>1. at \in BlockPlace /\ u \in UndoPlace \cup {None}
  BY DEF DbType, IndexType, EntryType
<1>2. blk[at.file][at.pos] = b /\ at.pos < d.info[at.file].nSize
  BY DEF Leads, LeadsToBlock
<1>3. u # None => rev[u.file][u.pos] = b /\ u.pos < d.info[u.file].nUndoSize
  BY DEF Leads, LeadsToUndo
<1> HIDE DEF at, u
<1>4. at.file \in Files /\ at.pos \in Positions /\ (u # None => u.file \in Files /\ u.pos \in Positions)
  BY <1>1, PlaceFacts
<1>5. blk'[at.file][at.pos] = b /\ (u # None => rev'[u.file][u.pos] = b)
  BY <1>2, <1>3, <1>4
<1> QED BY <1>2, <1>3, <1>5 DEF at, u

\* The same for all the values of the database.
LEMMA StillAllLead ==
  ASSUME NEW S, Databases' \subseteq S, \A d \in S : DbType(d) /\ Leads(d),
         \A d \in S : \A f \in Files : \A p \in Positions :
            p < d.info[f].nSize => blk'[f][p] = blk[f][p],
         \A d \in S : \A f \in Files : \A p \in Positions :
            p < d.info[f].nUndoSize => rev'[f][p] = rev[f][p]
  PROVE  AllLead'
PROOF
<1> SUFFICES ASSUME NEW d \in Databases' PROVE Leads(d)'
  BY DEF AllLead
<1>1. DbType(d) /\ Leads(d) /\ d \in S
  OBVIOUS
<1> QED BY <1>1, StillLeads DEF Leads, LeadsToBlock, LeadsToUndo

LEMMA SameLeads ==
  ASSUME AllLead, UNCHANGED dbVars, UNCHANGED <<blk, rev>>
  PROVE  AllLead'
BY DEF dbVars, AllLead, Leads, LeadsToBlock, LeadsToUndo, Databases

\* A write that leaves the records alone: the new value has to lead to them.
LEMMA WrittenLeads ==
  ASSUME AllLead, NEW new, Write(new), Leads(new), UNCHANGED <<blk, rev>>
  PROVE  AllLead'
PROOF
<1>1. Databases' = Databases \cup {new}
  BY WriteAdds
<1>2. ASSUME NEW d, Leads(d) PROVE Leads(d)'
  BY <1>2 DEF Leads, LeadsToBlock, LeadsToUndo
<1> QED BY <1>1, <1>2 DEF AllLead

\* A value with the same index and sizes that are not less.
LEMMA LargerLeads ==
  ASSUME NEW d, DbType(d), Leads(d), NEW new, DbType(new), new.index = d.index,
         \A f \in Files : NoLess(d.info[f], new.info[f])
  PROVE  Leads(new)
PROOF
<1> SUFFICES ASSUME NEW b \in DOMAIN d.index PROVE LeadsToBlock(new, b) /\ LeadsToUndo(new, b)
  BY DEF Leads
<1>1. d.index[b].at \in BlockPlace /\ d.index[b].undo \in UndoPlace \cup {None}
  BY DEF DbType, IndexType, EntryType
<1>2. LeadsToBlock(d, b) /\ LeadsToUndo(d, b)
  BY DEF Leads
<1>3. \A f \in Files : d.info[f] \in Info /\ new.info[f] \in Info
  BY DEF DbType
<1>4. LeadsToBlock(new, b)
  <2> DEFINE at == d.index[b].at
  <2>1. at \in BlockPlace /\ new.index[b].at = at /\ blk[at.file][at.pos] = b /\ at.pos < d.info[at.file].nSize
    BY <1>1, <1>2 DEF LeadsToBlock
  <2> HIDE DEF at
  <2>2. /\ at.file \in Files /\ at.pos \in Int /\ d.info[at.file].nSize \in Nat /\ new.info[at.file].nSize \in Nat
        /\ d.info[at.file].nSize <= new.info[at.file].nSize
    <3>1. at.file \in Files /\ at.pos \in Int
      BY <2>1, Bounds DEF BlockPlace
    <3>2. d.info[at.file] \in Info /\ new.info[at.file] \in Info /\ NoLess(d.info[at.file], new.info[at.file])
      BY <3>1, <1>3
    <3> QED BY <3>1, <3>2, InfoFacts
  <2> DEFINE m == d.info[at.file].nSize
             n == new.info[at.file].nSize
  <2>3. at.pos < m /\ m <= n /\ m \in Int /\ n \in Int /\ at.pos \in Int
    BY <2>1, <2>2
  <2> HIDE DEF m, n
  <2>4. at.pos < n
    BY <2>3
  <2> QED BY <2>1, <2>4 DEF LeadsToBlock, n
<1>5. LeadsToUndo(new, b)
  <2> DEFINE u == d.index[b].undo
  <2>1. /\ u \in UndoPlace \cup {None} /\ new.index[b].undo = u
        /\ u # None => rev[u.file][u.pos] = b /\ u.pos < d.info[u.file].nUndoSize
    BY <1>1, <1>2 DEF LeadsToUndo
  <2> HIDE DEF u
  <2>2. ASSUME u # None
        PROVE  /\ u.file \in Files /\ u.pos \in Int /\ d.info[u.file].nUndoSize \in Int
               /\ new.info[u.file].nUndoSize \in Int /\ d.info[u.file].nUndoSize <= new.info[u.file].nUndoSize
    <3>1. u.file \in Files /\ u.pos \in Int
      BY <2>1, <2>2, Bounds DEF UndoPlace
    <3>2. d.info[u.file] \in Info /\ new.info[u.file] \in Info /\ NoLess(d.info[u.file], new.info[u.file])
      BY <3>1, <1>3
    <3> QED BY <3>1, <3>2, InfoFacts
  <2>3. u # None => u.pos < new.info[u.file].nUndoSize
    <3> DEFINE m == d.info[u.file].nUndoSize
               n == new.info[u.file].nUndoSize
    <3>1. u # None => u.pos < m /\ m <= n /\ m \in Int /\ n \in Int /\ u.pos \in Int
      BY <2>1, <2>2
    <3> HIDE DEF m, n
    <3>2. u # None => u.pos < n
      BY <3>1
    <3> QED BY <3>2 DEF n
  <2> QED BY <2>1, <2>3 DEF LeadsToUndo
<1> QED BY <1>4, <1>5

\* The sizes of the files to come, and what memory has of the last file.
SizesStay == LastScanned' /\ \A f \in Files : f > scan.file => db'.info[f].nSize = db.info[f].nSize

LEMMA SameSizes ==
  ASSUME Scanned, pc # "off", scan # None, UNCHANGED <<scan, nLastBlockFile, infoLastBlockFile>>, db'.info = db.info,
         pc' \in {"last", "index"} => pc \in {"last", "index"},
         mapBlockIndex' = mapBlockIndex \/ pc \in {"last", "index"}, nLastBlockFile \in Files
  PROVE  SizesStay
PROOF
<1>1. LastScanned
  BY DEF Scanned
<1>2. pc \in {"last", "index"} => ~(nLastBlockFile > scan.file)
  BY <1>1, PlacesAreNumbers DEF LastScanned
<1> QED BY <1>1, <1>2 DEF LastScanned, SizesStay

\* A reindexing goes on: blocks stay, and the index does not lose any.
LEMMA StillScanned ==
  ASSUME Scanned, UNCHANGED <<blk, scan>>, pc # "off",
         mapBlockIndex \subseteq mapBlockIndex', scan # None => SizesStay,
         pc \in {"last", "index"} => (pc' \in {"last", "index"} /\ UNCHANGED cur) \/ cur.block \in mapBlockIndex',
         pc' # "write" \/ scan = None, pc' = "last" => cur'.known
  PROVE  Scanned'
PROOF
<1> SUFFICES ASSUME scan' # None, pc' # "off" PROVE Scanned'
  BY DEF Scanned
<1>0. /\ FilesClean /\ scan.file \in Files /\ pc # "write" /\ (pc = "last" => cur.known)
      /\ \A f \in Files : \A p \in Positions : Behind(f, p) => Passed(Place(f, p))
  BY DEF Scanned
<1>1. FilesClean'
  BY <1>0 DEF FilesClean
<1>2. ASSUME NEW f \in Files, NEW p \in Positions, Behind(f, p)' PROVE Passed(Place(f, p))'
  <2>1. Behind(f, p)
    BY <1>2, PlaceFacts DEF Behind, Before, Skipped, SizesStay
  <2>2. Passed(Place(f, p))
    BY <1>0, <2>1
  <2> QED BY <2>2 DEF Passed
<1>3. pc' # "write" /\ (pc' = "last" => cur'.known) /\ LastScanned'
  BY DEF SizesStay
<1>4. (\A f \in Files : \A p \in Positions : Behind(f, p) => Passed(Place(f, p)))'
  BY <1>2
<1> QED BY <1>0, <1>1, <1>3, <1>4 DEF Scanned

\* Nothing is scanned.
LEMMA NotScanning ==
  ASSUME scan' = None \/ pc' = "off"
  PROVE  Scanned'
BY DEF Scanned

LEMMA SameMemory ==
  ASSUME MemoryAhead, pc # "off" \/ pc' = "off", UNCHANGED <<nLastBlockFile, infoLastBlockFile, db>>
  PROVE  MemoryAhead'
BY DEF MemoryAhead

\* The steps at which the thread has no record in hand.
LEMMA NoRecordInHand ==
  ASSUME pc' \in {"off", "idle", "activate", "connect", "flush"}
  PROVE  HandRecords'
BY DEF HandRecords

LEMMA Undamaged_Before ==
  ASSUME Undamaged', exposed => exposed', gap => gap', missed => missed'
  PROVE  Undamaged
BY DEF Undamaged

-----------------------------------------------------------------------------
(* Actions that leave the database and the files alone *)

\* The parts of the invariant that are about them.
LEMMA OnlyControl ==
  ASSUME FilesInv, UNCHANGED <<dbVars, fileVars, scan, nLastBlockFile, infoLastBlockFile>>,
         exposed => exposed', gap => gap', missed => missed', pc # "off",
         pc' \in {"off", "idle", "activate", "connect", "flush"}, pc \notin {"last", "index"} \/ pc' = "off"
  PROVE  /\ DbTypes' /\ FileShapes' /\ ParentsFirst' /\ SizesGrow' /\ Sound'
         /\ mapBlockIndex' = mapBlockIndex
PROOF
<1>1. DbTypes' /\ FileShapes' /\ ParentsFirst' /\ SizesGrow'
  BY SameDatabase, SameFiles DEF FilesInv
<1>2. mapBlockIndex' = mapBlockIndex /\ UNCHANGED <<blk, rev>>
  BY DEF dbVars, fileVars, mapBlockIndex
<1>3. ASSUME Undamaged' PROVE AllLead' /\ HandRecords' /\ Scanned'
  <2>1. AllLead /\ Scanned
    BY <1>3, Undamaged_Before DEF FilesInv, Sound
  <2>2. AllLead'
    BY <2>1, <1>2, SameLeads
  <2>3. Scanned'
    <3>1. CASE pc' = "off" \/ scan = None
      BY <3>1, NotScanning
    <3>2. CASE pc' # "off" /\ scan # None
      <4>1. nLastBlockFile \in Files /\ db' = db
        BY DEF FilesInv, Memory, dbVars
      <4>2. SizesStay
        BY <4>1, <3>2, <2>1, <1>2, SameSizes
      <4> QED BY <4>2, <3>2, <2>1, <1>2, StillScanned
    <3> QED BY <3>1, <3>2
  <2> QED BY <2>2, <2>3, NoRecordInHand
<1> QED BY <1>1, <1>2, <1>3 DEF Sound

LEMMA ActivateReturnsStep ==
  ASSUME FilesInv, ActivateReturns
  PROVE  FilesInv'
PROOF
<1>1. DbTypes' /\ FileShapes' /\ ParentsFirst' /\ SizesGrow' /\ Sound'
  BY OnlyControl DEF ActivateReturns, memVars, histVars
<1>2. Memory' /\ InHand'
  BY DEF FilesInv, Memory, InHand, ActivateReturns, memVars, coinVars, histVars
<1>3. MemoryAhead'
  BY SameMemory DEF FilesInv, ActivateReturns, memVars, dbVars
<1> QED BY <1>1, <1>2, <1>3 DEF FilesInv

LEMMA ConnectCorruptedStep ==
  ASSUME FilesInv, ConnectCorrupted
  PROVE  FilesInv'
PROOF
<1>1. DbTypes' /\ FileShapes' /\ ParentsFirst' /\ SizesGrow' /\ Sound'
  BY OnlyControl DEF ConnectCorrupted, histVars
<1>2. Memory' /\ InHand'
  BY DEF FilesInv, Memory, InHand, ConnectCorrupted, coinVars, histVars
<1>3. MemoryAhead'
  BY SameMemory DEF FilesInv, ConnectCorrupted, dbVars
<1> QED BY <1>1, <1>2, <1>3 DEF FilesInv

LEMMA ReconnectBlockStep ==
  ASSUME FilesInv, ReconnectBlock
  PROVE  FilesInv'
PROOF
<1>1. /\ DbTypes' /\ FileShapes' /\ ParentsFirst' /\ SizesGrow' /\ Sound'
      /\ mapBlockIndex' = mapBlockIndex
  BY OnlyControl DEF ReconnectBlock, memVars, histVars
<1>2. Memory' /\ InHand'
  BY <1>1 DEF FilesInv, Memory, InHand, ReconnectBlock, memVars, coinVars, histVars
<1>3. MemoryAhead'
  BY SameMemory DEF FilesInv, ReconnectBlock, memVars, dbVars
<1> QED BY <1>1, <1>2, <1>3 DEF FilesInv

LEMMA LeaveInitialDownloadStep ==
  ASSUME FilesInv, LeaveInitialDownload
  PROVE  FilesInv'
PROOF
<1>1. DbTypes' /\ FileShapes' /\ ParentsFirst' /\ SizesGrow' /\ Sound'
  BY OnlyControl DEF LeaveInitialDownload, histVars
<1>2. Memory' /\ InHand'
  BY DEF FilesInv, Memory, InHand, LeaveInitialDownload, coinVars, histVars
<1>3. MemoryAhead'
  BY SameMemory DEF FilesInv, LeaveInitialDownload, dbVars
<1> QED BY <1>1, <1>2, <1>3 DEF FilesInv

LEMMA KillStep ==
  ASSUME FilesInv, Kill
  PROVE  FilesInv'
PROOF
<1>1. DbTypes' /\ FileShapes' /\ ParentsFirst' /\ SizesGrow' /\ Sound'
  BY OnlyControl DEF Kill, memVars
<1>2. Memory' /\ InHand'
  BY Bounds DEF FilesInv, Memory, InHand, Kill, Fault, memVars, coinVars
<1>3. MemoryAhead'
  BY SameMemory DEF FilesInv, Kill, memVars, dbVars
<1> QED BY <1>1, <1>2, <1>3 DEF FilesInv

\* The block connected next is an ancestor of a block in the index.
LEMMA TowardsStep ==
  ASSUME FilesInv, NEW b \in Blocks, Towards(b)
  PROVE  FilesInv'
PROOF
<1>1. /\ DbTypes' /\ FileShapes' /\ ParentsFirst' /\ SizesGrow' /\ Sound'
      /\ mapBlockIndex' = mapBlockIndex
  BY OnlyControl DEF Towards, histVars
<1>2. b \in mapBlockIndex
  <2>1. mapBlockIndex \in SUBSET Blocks /\ Closed(db.index) /\ mapBlockIndex = DOMAIN db.index
    BY DEF FilesInv, DbTypes, DbType, IndexType, ParentsFirst, Databases, mapBlockIndex
  <2>2. WithParents(mapBlockIndex)
    BY <2>1 DEF WithParents, Closed
  <2>3. PICK x \in mapBlockIndex : b \in Ancestors(x)
    BY DEF Towards, Best
  <2>4. Ancestors(x) \subseteq mapBlockIndex
    BY <2>1, <2>2, AncestorsIn
  <2> QED BY <2>3, <2>4
<1>3. db.index[b].at \in BlockPlace
  BY <1>2 DEF FilesInv, DbTypes, DbType, IndexType, Databases, mapBlockIndex, EntryType
<1>4. Memory' /\ InHand'
  BY <1>1, <1>2, <1>3 DEF FilesInv, Memory, InHand, Towards, coinVars, histVars
<1>5. MemoryAhead'
  BY SameMemory DEF FilesInv, Towards, dbVars
<1> QED BY <1>1, <1>4, <1>5 DEF FilesInv

\* A start reads the number of the last file and its sizes from the database.
LEMMA StartStep ==
  ASSUME FilesInv, Start
  PROVE  FilesInv'
PROOF
<1>1. DbTypes' /\ FileShapes' /\ ParentsFirst' /\ SizesGrow'
  BY SameDatabase, SameFiles DEF FilesInv, Start
<1>2. db.last \in Files /\ db.info[db.last] \in Info
  BY DEF FilesInv, DbTypes, DbType, Databases
<1>3. Memory'
  BY <1>2, BlockFilesAssumption DEF FilesInv, Memory, Start, coinVars
<1>4. InHand'
  BY DEF InHand, Start
<1>5. MemoryAhead'
  BY <1>2, NoLessReflexive DEF MemoryAhead, Start, dbVars
<1>6. ASSUME Undamaged' PROVE AllLead' /\ HandRecords' /\ Scanned'
  <2>1. AllLead /\ UNCHANGED <<blk, rev>>
    BY <1>6, Undamaged_Before DEF FilesInv, Sound, Start, fileVars
  <2>2. AllLead'
    BY <2>1, SameLeads DEF Start
  <2>3. HandRecords'
    BY NoRecordInHand DEF Start
  <2>4. Scanned'
    <3> SUFFICES ASSUME scan' # None PROVE Scanned'
      BY DEF Scanned
    <3>1. FilesClean /\ ~SkipsUnindexed
      BY <1>6 DEF Start, Undamaged
    <3>2. FilesClean' /\ db' = db /\ mapBlockIndex' = mapBlockIndex
      BY <3>1, <2>1 DEF FilesClean, Start, dbVars, mapBlockIndex
    <3>3. scan' = Place(0, db.info[0].nSize) /\ pc' = "activate"
      BY DEF Start
    <3>4. LastScanned'
      BY <3>2, <3>3 DEF LastScanned, Start
    <3>5. ASSUME NEW f \in Files, NEW p \in Positions, Behind(f, p)' PROVE Passed(Place(f, p))'
      <4>1. f \in Nat
        BY Bounds
      <4>2. f < 0 \/ (f = 0 /\ p < db.info[0].nSize) \/ Skipped(Place(f, p))
        BY <3>5, <3>2, <3>3, PlaceFacts DEF Behind, Before, Skipped
      <4>3. Skipped(Place(f, p))
        BY <4>1, <4>2, PlaceFacts DEF Skipped
      <4>4. blk[f][p] \notin Blocks \ mapBlockIndex
        BY <4>3, <3>1 DEF SkipsUnindexed
      <4>5. blk[f][p] # None => blk[f][p] \in Blocks
        BY <3>1, Bounds DEF FilesClean
      <4> QED BY <4>4, <4>5, <3>2, <2>1, PlaceFacts DEF Passed
    <3> QED BY <3>2, <3>3, <3>4, <3>5, Bounds DEF Scanned, Place
  <2> QED BY <2>2, <2>3, <2>4
<1> QED BY <1>1, <1>3, <1>4, <1>5, <1>6 DEF FilesInv, Sound

-----------------------------------------------------------------------------
(* A power loss, -reindex *)

LEMMA PowerLossStep ==
  ASSUME FilesInv, PowerLoss
  PROVE  FilesInv'
PROOF
<1>0. DbTypes /\ ParentsFirst /\ FileShapes /\ Memory
  BY DEF FilesInv
<1>1. DbTypes' /\ ParentsFirst' /\ SizesGrow' /\ Databases' \subseteq Databases
  BY <1>0, FewerValues DEF PowerLoss, Databases
<1>9. \E tears : blk' \in AfterLoss(blk, blkDurable, tears)
  BY Zenon DEF PowerLoss
<1>10. \E tears : rev' \in AfterLoss(rev, revDurable, tears)
  BY Zenon DEF PowerLoss
<1>2. FileShapes'
  <2>1. Shape(blk') /\ Shape(rev') /\ blkDurable' = blk' /\ revDurable' = rev'
    BY <1>9, <1>10, Lost DEF PowerLoss
  <2>2. \A f \in Files : \A p \in Positions :
           \/ blk'[f][p] = blkDurable[f][p] \/ blk'[f][p] = blk[f][p]
           \/ blk[f][p] \in Blocks /\ blk[f][p] # blkDurable[f][p]
    BY <1>9, Lost
  <2>3. InBounds(blk')
    BY <2>2, <1>0, Bounds DEF InBounds, FileShapes
  <2> QED BY <2>1, <2>3 DEF FileShapes
<1>3. Memory' /\ InHand'
  BY <1>0, Bounds DEF Memory, InHand, PowerLoss, Fault, memVars
<1>4. MemoryAhead' /\ HandRecords' /\ Scanned'
  BY NoRecordInHand, NotScanning DEF MemoryAhead, PowerLoss
<1>5. ASSUME Undamaged' PROVE AllLead'
  <2>1. AllLead
    BY <1>5, Undamaged_Before DEF FilesInv, Sound, PowerLoss
  <2>2. blk = blkDurable /\ rev = revDurable
    BY <1>5 DEF PowerLoss, Undamaged
  <2>3. blk' = blk /\ rev' = rev
    BY <1>0, <1>9, <1>10, <2>2, NothingLost DEF FileShapes
  <2> QED BY <2>1, <2>3, <1>0, <1>1, StillAllLead DEF AllLead, DbTypes
<1> QED BY <1>1, <1>2, <1>3, <1>4, <1>5 DEF FilesInv, Sound

\* The database -reindex starts from.
LEMMA EmptyDbFacts ==
  ASSUME NEW d, d = [EmptyDb EXCEPT !.reindexing = TRUE] \/ d = EmptyDb
  PROVE  /\ DbType(d) /\ Closed(d.index) /\ DOMAIN d.index = {} /\ Leads(d)
         /\ \A f \in Files : d.info[f] = NoInfo
PROOF
<1> DEFINE i == [f \in Files |-> NoInfo]
           x == [b \in {} |-> 0]
<1>1. EmptyDb = [info |-> i, last |-> 0, index |-> x, reindexing |-> FALSE]
  BY Zenon DEF EmptyDb
<1>2. i \in [Files -> Info] /\ \A f \in Files : i[f] = NoInfo
  BY Bounds
<1>3. DOMAIN x = {} /\ x = [b \in DOMAIN x |-> x[b]]
  OBVIOUS
<1> HIDE DEF i, x
<1>4. /\ d.info = i /\ d.last = 0 /\ d.index = x
      /\ d = [info |-> d.info, last |-> d.last, index |-> d.index, reindexing |-> d.reindexing]
  BY <1>1
<1>5. DbType(d)
  BY <1>2, <1>3, <1>4, Bounds DEF DbType, IndexType
<1> QED BY <1>2, <1>3, <1>4, <1>5 DEF Closed, Leads

LEMMA NoInfoLeast ==
  ASSUME NEW i \in Info
  PROVE  NoLess(NoInfo, i)
BY Bounds DEF Info, NoInfo, NoLess

LEMMA ReindexStep ==
  ASSUME FilesInv, Reindex
  PROVE  FilesInv'
PROOF
<1>0. DbTypes /\ FileShapes /\ Memory
  BY DEF FilesInv
<1>1. /\ DbType(db') /\ Closed(db'.index) /\ DOMAIN db'.index = {}
      /\ \A f \in Files : db'.info[f] = NoInfo
  BY EmptyDbFacts DEF Reindex
<1>2. Databases' = {db'}
  BY DEF Databases, Reindex
<1>3. DbTypes' /\ ParentsFirst'
  BY <1>1, <1>2 DEF DbTypes, ParentsFirst
<1>4. SizesGrow'
  <2>1. \A f \in Files : NoLess(db'.info[f], db'.info[f])
    BY <1>1, Bounds, NoLessReflexive
  <2> QED BY <2>1, <1>2 DEF SizesGrow
<1>5. FileShapes'
  BY <1>0, SameFiles DEF Reindex
<1>6. nLastBlockFile' \in Files /\ infoLastBlockFile' \in Info
  <2>1. db.last \in Files /\ db.info[db.last] \in Info
    BY <1>0 DEF DbTypes, DbType, Databases
  <2> QED BY <2>1, Bounds DEF Reindex
<1>7. Memory'
  BY <1>0, <1>6, Bounds, BlockFilesAssumption DEF Memory, Reindex, Fault
<1>8. InHand'
  BY DEF InHand, Reindex
<1>9. MemoryAhead'
  BY <1>6, <1>1, NoInfoLeast DEF MemoryAhead
<1>10. ASSUME Undamaged' PROVE AllLead' /\ HandRecords' /\ Scanned'
  <2>1. AllLead'
    BY <1>1, <1>2 DEF AllLead, Leads
  <2>2. HandRecords'
    BY NoRecordInHand DEF Reindex
  <2>3. FilesClean /\ UNCHANGED blk
    BY <1>10 DEF Reindex, Undamaged, fileVars
  <2>4. FilesClean'
    BY <2>3 DEF FilesClean
  <2>5. scan' = Place(0, 0) /\ pc' = "idle"
    BY DEF Reindex
  <2>6. \A f \in Files : \A p \in Positions : ~Before(Place(f, p), Place(0, 0)) /\ ~Skipped(Place(f, p))'
    BY <1>1, PlaceFacts, Bounds DEF Before, Files, Skipped, NoInfo
  <2>8. mapBlockIndex' = {}
    BY <1>1 DEF mapBlockIndex
  <2>9. LastScanned'
    BY <2>5, <2>8 DEF LastScanned
  <2>7. Scanned'
    BY <2>4, <2>5, <2>6, <2>9, Bounds DEF Scanned, Behind, Before, Place
  <2> QED BY <2>1, <2>2, <2>7
<1> QED BY <1>3, <1>4, <1>5, <1>7, <1>8, <1>9, <1>10 DEF FilesInv, Sound


LEMMA ReindexEndsStep ==
  ASSUME FilesInv, ReindexEnds
  PROVE  FilesInv'
PROOF
<1>0. DbTypes /\ ParentsFirst /\ SizesGrow /\ FileShapes /\ Memory /\ InHand /\ MemoryAhead /\ db \in Databases
  BY DEF FilesInv, Databases
<1>1. PICK new : new = [db EXCEPT !.reindexing = FALSE]
  OBVIOUS
<1>2. Write(new) /\ db' = new
  BY <1>1 DEF ReindexEnds, Write
<1>3. DbType(new) /\ new.index = db.index /\ new.info = db.info
  BY <1>0, <1>1, FlagWritten DEF DbTypes
<1>4. Closed(new.index) /\ \A f \in Files : NoLess(db.info[f], new.info[f])
  BY <1>0, <1>3, NoLessReflexive DEF ParentsFirst, DbTypes, DbType
<1>5. DbTypes' /\ ParentsFirst' /\ SizesGrow'
  BY <1>0, <1>2, <1>3, <1>4, Written
<1>6. FileShapes'
  BY <1>0, SameFiles DEF ReindexEnds
<1>7. Memory'
  BY <1>0 DEF Memory, ReindexEnds, coinVars, histVars
<1>8. InHand'
  BY <1>0 DEF InHand, ReindexEnds
<1>9. MemoryAhead'
  BY <1>0, <1>2, <1>3 DEF MemoryAhead, ReindexEnds
<1>10. ASSUME Undamaged' PROVE AllLead' /\ HandRecords' /\ Scanned'
  <2>1. AllLead
    BY <1>10, Undamaged_Before DEF FilesInv, Sound, ReindexEnds, histVars
  <2>2. Leads(new)
    BY <2>1, <1>0, <1>3, <1>4, LargerLeads DEF AllLead, DbTypes
  <2>3. AllLead'
    BY <2>1, <2>2, <1>2, WrittenLeads DEF ReindexEnds, fileVars
  <2> QED BY <2>3, NoRecordInHand, NotScanning DEF ReindexEnds
<1> QED BY <1>5, <1>6, <1>7, <1>8, <1>9, <1>10 DEF FilesInv, Sound

-----------------------------------------------------------------------------
(* Places for new records *)

\* What FindBlockPos and FindUndoPos go by is not behind any value of the database.
LEMMA BlockInfoFacts ==
  ASSUME FilesInv, pc # "off", NEW f \in Files
  PROVE  /\ BlockInfo(f) \in Info /\ UndoInfo(f) = BlockInfo(f)
         /\ db \in Databases /\ db.info[f] \in Info /\ NoLess(db.info[f], BlockInfo(f))
         /\ \A d \in Databases : d.info[f] \in Info /\ NoLess(d.info[f], BlockInfo(f))
PROOF
<1>1. /\ db \in Databases /\ \A d \in Databases : d.info[f] \in Info /\ NoLess(d.info[f], db.info[f])
      /\ infoLastBlockFile \in Info
  BY DEF FilesInv, DbTypes, DbType, Databases, SizesGrow, Memory
<1>2. BlockInfo(f) \in Info /\ NoLess(db.info[f], BlockInfo(f))
  BY <1>1, NoLessReflexive DEF BlockInfo, FilesInv, MemoryAhead
<1>3. \A d \in Databases : NoLess(d.info[f], BlockInfo(f))
  BY <1>1, <1>2, NoLessTransitive
<1> QED BY <1>1, <1>2, <1>3 DEF UndoInfo, BlockInfo

\* One more block in a file, one more record of undo data.
LEMMA MoreBlockFacts ==
  ASSUME NEW i \in Info, NEW new, new = [i EXCEPT !.nSize = @ + 1]
  PROVE  new \in Info /\ NoLess(i, new) /\ new.nSize = i.nSize + 1
BY Bounds DEF Info, NoLess

LEMMA MoreUndoFacts ==
  ASSUME NEW i \in Info, i.nUndoSize < MaxUndo
  PROVE  MoreUndo(i) \in Info /\ NoLess(i, MoreUndo(i)) /\ MoreUndo(i).nUndoSize = i.nUndoSize + 1
BY Bounds DEF Info, NoLess, MoreUndo

\* No entry leads beyond the size.
LEMMA FreshPlace ==
  ASSUME NEW d, DbType(d), Leads(d), NEW f \in Files, NEW n \in Nat, d.info[f].nSize <= n
  PROVE  UnusedBy(d, Place(f, n))
PROOF
<1> SUFFICES ASSUME NEW b \in DOMAIN d.index, d.index[b].at = Place(f, n) PROVE FALSE
  BY DEF UnusedBy
<1>1. n < d.info[f].nSize
  BY PlaceFacts DEF Leads, LeadsToBlock
<1>2. d.info[f].nSize \in Nat
  BY InfoFacts DEF DbType
<1> QED BY <1>1, <1>2

LEMMA FreshUndoPlace ==
  ASSUME NEW d, DbType(d), Leads(d), NEW f \in Files, NEW n \in Nat, d.info[f].nUndoSize <= n
  PROVE  UnusedUndoBy(d, Place(f, n))
PROOF
<1> SUFFICES ASSUME NEW b \in DOMAIN d.index, d.index[b].undo # None, d.index[b].undo = Place(f, n) PROVE FALSE
  BY DEF UnusedUndoBy
<1>1. n < d.info[f].nUndoSize
  BY PlaceFacts DEF Leads, LeadsToUndo
<1>2. d.info[f].nUndoSize \in Int
  BY InfoFacts DEF DbType
<1> QED BY <1>1, <1>2

-----------------------------------------------------------------------------
(* AcceptBlock *)

LEMMA FindBlockPosStep ==
  ASSUME FilesInv, NEW b \in Blocks, FindBlockPos(b)
  PROVE  FilesInv'
PROOF
<1>0. /\ DbTypes /\ ParentsFirst /\ SizesGrow /\ FileShapes /\ Memory /\ MemoryAhead
      /\ db \in Databases /\ pc = "idle" /\ scan' = scan /\ scan = None
  BY DEF FilesInv, Databases, FindBlockPos
<1>1. PICK f \in nLastBlockFile..MaxFile :
         /\ Fits(f) /\ FinalizeBlockFiles(nLastBlockFile..(f - 1))
         /\ nLastBlockFile' = f /\ infoLastBlockFile' = [BlockInfo(f) EXCEPT !.nSize = @ + 1]
         /\ \/ /\ Write([db EXCEPT !.info[f] = [BlockInfo(f) EXCEPT !.nSize = @ + 1]])
               /\ cur' = [block |-> b, at |-> Place(f, BlockInfo(f).nSize), known |-> FALSE]
               /\ pc' = IF f = nLastBlockFile THEN "write" ELSE "last"
               /\ UNCHANGED faults
            \/ /\ "full" \in Faults /\ faults < MaxFaults
               /\ faults' = faults + 1 /\ UNCHANGED <<pc, cur, dbVars>>
  BY DEF FindBlockPos
<1>2. PICK new : new = [BlockInfo(f) EXCEPT !.nSize = @ + 1]
  OBVIOUS
<1> DEFINE left == nLastBlockFile..(f - 1)
<1>3. f \in Files /\ left \in SUBSET Files /\ f \notin left
  BY <1>0, Bounds DEF Memory, Files
<1> HIDE DEF left
<1>4. /\ BlockInfo(f) \in Info /\ NoLess(db.info[f], BlockInfo(f))
      /\ \A d \in Databases : d.info[f] \in Info /\ NoLess(d.info[f], BlockInfo(f))
  BY <1>0, <1>3, BlockInfoFacts
<1>5. new \in Info /\ NoLess(BlockInfo(f), new) /\ new.nSize = BlockInfo(f).nSize + 1 /\ BlockInfo(f).nSize \in Nat
  BY <1>2, <1>4, MoreBlockFacts, InfoFacts
<1>6. NoLess(db.info[f], new)
  BY <1>0, <1>4, <1>5, NoLessTransitive
<1>7. /\ FileShapes'
      /\ \A g \in Files : \A p \in Positions :
            /\ g \notin left \/ p < BlockInfo(g).nSize => blk'[g][p] = blk[g][p]
            /\ g \notin left \/ p < BlockInfo(g).nUndoSize => rev'[g][p] = rev[g][p]
  BY <1>0, <1>1, <1>3, Finalized DEF left
<1>8. Place(f, BlockInfo(f).nSize) \in BlockPlace
  <2>1. BlockInfo(f).nSize \in 0..(MAX_BLOCKFILE_SIZE - 2)
    BY <1>1, <1>5, Bounds DEF Fits
  <2> QED BY <2>1, <1>3 DEF Place, BlockPlace
<1>9. Scanned'
  BY <1>0, NotScanning
\* No value of the database has a record that was truncated away.
<1>10. ASSUME NEW d, DbType(d), \A g \in left : NoLess(d.info[g], BlockInfo(g)),
              NEW g \in Files, NEW p \in Positions
       PROVE  /\ p < d.info[g].nSize => blk'[g][p] = blk[g][p]
              /\ p < d.info[g].nUndoSize => rev'[g][p] = rev[g][p]
  <2>1. CASE g \notin left
    BY <2>1, <1>7
  <2>2. CASE g \in left
    <3>1. /\ d.info[g] \in Info /\ BlockInfo(g) \in Info /\ NoLess(d.info[g], BlockInfo(g))
          /\ p \in Int
      BY <2>2, <1>0, <1>3, <1>10, BlockInfoFacts, Bounds DEF DbType
    <3>2. /\ p < d.info[g].nSize => p < BlockInfo(g).nSize
          /\ p < d.info[g].nUndoSize => p < BlockInfo(g).nUndoSize
      BY <3>1, InfoFacts
    <3> QED BY <3>2, <1>7
  <2> QED BY <2>1, <2>2
<1>11. \A d \in Databases : \A g \in Files : NoLess(d.info[g], BlockInfo(g))
  BY <1>0, BlockInfoFacts
<1>12. CASE /\ Write([db EXCEPT !.info[f] = [BlockInfo(f) EXCEPT !.nSize = @ + 1]])
            /\ cur' = [block |-> b, at |-> Place(f, BlockInfo(f).nSize), known |-> FALSE]
            /\ pc' = IF f = nLastBlockFile THEN "write" ELSE "last"
            /\ UNCHANGED faults
  <2>1. PICK e : e = WithInfo(db, f, new)
    OBVIOUS
  <2>2. Write(e) /\ db' = e /\ Databases' = Databases \cup {e}
    BY <1>12, <1>2, <2>1, WriteAdds DEF WithInfo
  <2>3. /\ DbType(e) /\ e.index = db.index
        /\ e.info[f] = new /\ \A g \in Files : g # f => e.info[g] = db.info[g]
    <3>1. DbType(db)
      BY <1>0 DEF DbTypes
    <3> QED BY <3>1, <1>3, <1>5, <2>1, InfoWritten
  <2>4. \A g \in Files : NoLess(db.info[g], e.info[g])
    BY <2>3, <1>6, <1>0, NoLessReflexive DEF DbTypes, DbType
  <2>5. DbTypes' /\ ParentsFirst' /\ SizesGrow'
    BY <1>0, <2>2, <2>3, <2>4, Written DEF ParentsFirst
  <2>6. Memory'
    BY <1>0, <1>1, <1>2, <1>3, <1>5, <1>12 DEF Memory, FindBlockPos, coinVars
  <2>7. InHand'
    <3>1. HaveParent(b)'
      BY <2>2, <2>3 DEF FindBlockPos, HaveParent, mapBlockIndex
    <3> QED BY <3>1, <1>12, <1>8 DEF InHand
  <2>8. MemoryAhead'
    BY <1>1, <1>2, <1>5, <2>2, <2>3, NoLessReflexive DEF MemoryAhead
  <2>9. ASSUME Undamaged' PROVE AllLead' /\ HandRecords'
    <3>1. AllLead
      BY <2>9, Undamaged_Before DEF FilesInv, Sound, FindBlockPos
    <3>2. Leads(e)
      BY <3>1, <1>0, <2>3, <2>4, LargerLeads DEF AllLead, DbTypes
    <3>3. \A d \in Databases' : DbType(d) /\ Leads(d) /\ \A g \in left : NoLess(d.info[g], BlockInfo(g))
      <4>1. \A g \in left : NoLess(e.info[g], BlockInfo(g))
        BY <1>0, <1>3, <1>11, <2>3
      <4> QED BY <4>1, <3>1, <3>2, <1>0, <1>3, <1>11, <2>2, <2>3 DEF AllLead, DbTypes
    <3>4. AllLead'
      <4>1. PICK S : S = Databases'
        OBVIOUS
      <4>2. /\ \A d \in S : \A g \in Files : \A p \in Positions : p < d.info[g].nSize => blk'[g][p] = blk[g][p]
            /\ \A d \in S : \A g \in Files : \A p \in Positions : p < d.info[g].nUndoSize => rev'[g][p] = rev[g][p]
        BY <3>3, <4>1, <1>10
      <4> QED BY <3>3, <4>1, <4>2, StillAllLead
    <3>5. Unused(cur.at)'
      <4>1. \A d \in Databases : UnusedBy(d, cur'.at)
        BY <3>1, <1>0, <1>3, <1>4, <1>5, <1>12, FreshPlace, InfoFacts DEF AllLead, DbTypes
      <4>2. UnusedBy(e, cur'.at)
        BY <4>1, <1>0, <2>3 DEF UnusedBy
      <4> QED BY <4>1, <4>2, <2>2 DEF Unused
    <3>6. cur'.at.pos < db'.info[cur'.at.file].nSize
      BY <1>5, <1>12, <2>2, <2>3, PlaceFacts
    <3>7. pc' \in {"write", "last"} /\ ~cur'.known
      BY <1>12
    <3> QED BY <3>4, <3>5, <3>6, <3>7 DEF HandRecords
  <2> QED BY <1>7, <1>9, <2>5, <2>6, <2>7, <2>8, <2>9 DEF FilesInv, Sound
<1>13. CASE /\ "full" \in Faults /\ faults < MaxFaults
            /\ faults' = faults + 1 /\ UNCHANGED <<pc, cur, dbVars>>
  <2>1. DbTypes' /\ ParentsFirst' /\ SizesGrow' /\ Databases' = Databases
    BY <1>0, <1>13, SameDatabase
  <2>2. Memory'
    BY <1>0, <1>1, <1>2, <1>3, <1>5, <1>13, Bounds DEF Memory, FindBlockPos, coinVars
  <2>3. InHand' /\ HandRecords'
    BY <1>0, <1>13, NoRecordInHand DEF InHand
  <2>4. MemoryAhead'
    BY <1>1, <1>2, <1>6, <1>13 DEF MemoryAhead, dbVars
  <2>5. ASSUME Undamaged' PROVE AllLead'
    <3>1. AllLead
      BY <2>5, Undamaged_Before DEF FilesInv, Sound, FindBlockPos
    <3>2. \A d \in Databases : DbType(d) /\ Leads(d) /\ \A g \in left : NoLess(d.info[g], BlockInfo(g))
      BY <3>1, <1>0, <1>3, <1>11 DEF AllLead, DbTypes
    <3>3. /\ \A d \in Databases : \A g \in Files : \A p \in Positions : p < d.info[g].nSize => blk'[g][p] = blk[g][p]
          /\ \A d \in Databases : \A g \in Files : \A p \in Positions : p < d.info[g].nUndoSize => rev'[g][p] = rev[g][p]
      BY <3>2, <1>10
    <3> QED BY <3>2, <3>3, <2>1, StillAllLead
  <2> QED BY <1>7, <1>9, <2>1, <2>2, <2>3, <2>4, <2>5 DEF FilesInv, Sound
<1> QED BY <1>1, <1>12, <1>13

LEMMA WriteLastBlockFileStep ==
  ASSUME FilesInv, WriteLastBlockFile
  PROVE  FilesInv'
PROOF
<1>0. /\ DbTypes /\ ParentsFirst /\ SizesGrow /\ FileShapes /\ Memory /\ MemoryAhead /\ InHand
      /\ db \in Databases /\ pc = "last" /\ DbType(db) /\ UNCHANGED <<cur, scan>>
  BY DEF FilesInv, Databases, WriteLastBlockFile, DbTypes, memVars
<1>1. PICK new : new = [db EXCEPT !.last = nLastBlockFile]
  OBVIOUS
<1>2. Write(new) /\ db' = new /\ Databases' = Databases \cup {new}
  BY <1>1, WriteAdds DEF WriteLastBlockFile
<1>3. DbType(new) /\ new.index = db.index /\ new.info = db.info
  BY <1>0, <1>1, LastWritten DEF Memory
<1>4. Closed(new.index) /\ \A f \in Files : NoLess(db.info[f], new.info[f])
  BY <1>0, <1>3, NoLessReflexive DEF ParentsFirst, DbType
<1>5. DbTypes' /\ ParentsFirst' /\ SizesGrow'
  BY <1>0, <1>2, <1>3, <1>4, Written
<1>6. FileShapes'
  BY <1>0, SameFiles DEF WriteLastBlockFile
<1>7. Memory'
  BY <1>0 DEF Memory, WriteLastBlockFile, memVars, coinVars, histVars
<1>8. InHand'
  <2>1. HaveParent(cur.block)'
    BY <1>0, <1>2, <1>3 DEF InHand, HaveParent, mapBlockIndex
  <2> QED BY <2>1, <1>0 DEF InHand, WriteLastBlockFile
<1>9. MemoryAhead'
  BY <1>0, <1>2, <1>3 DEF MemoryAhead, WriteLastBlockFile, memVars
<1>10. ASSUME Undamaged' PROVE AllLead' /\ HandRecords' /\ Scanned'
  <2>1. AllLead /\ HandRecords /\ Scanned /\ UNCHANGED <<blk, rev>>
    BY <1>10, Undamaged_Before DEF FilesInv, Sound, WriteLastBlockFile, histVars, fileVars
  <2>2. Leads(new)
    BY <2>1, <1>0, <1>3, <1>4, LargerLeads DEF AllLead
  <2>3. AllLead'
    BY <2>1, <2>2, <1>2, WrittenLeads
  <2>4. HandRecords'
    <3>1. ASSUME ~cur.known PROVE Unused(cur.at)'
      <4>1. \A d \in Databases : UnusedBy(d, cur.at)
        BY <2>1, <1>0, <3>1 DEF HandRecords, Unused
      <4>2. UnusedBy(new, cur.at)
        BY <4>1, <1>0, <1>3 DEF UnusedBy
      <4> QED BY <4>1, <4>2, <1>2, <1>0 DEF Unused
    <3>2. cur'.at.pos < db'.info[cur'.at.file].nSize
      BY <2>1, <1>0, <1>2, <1>3 DEF HandRecords
    <3>3. pc' = (IF cur.known THEN "index" ELSE "write")
      BY DEF WriteLastBlockFile
    <3>4. cur.known => blk'[cur'.at.file][cur'.at.pos] = cur'.block
      BY <2>1, <1>0 DEF HandRecords
    <3> QED BY <3>1, <3>2, <3>3, <3>4, <1>0 DEF HandRecords
  <2>5. Scanned'
    <3>1. mapBlockIndex' = mapBlockIndex
      BY <1>2, <1>3 DEF mapBlockIndex
    <3>2. scan # None => cur.known
      BY <2>1, <1>0 DEF Scanned
    <3>3. pc' = (IF cur.known THEN "index" ELSE "write")
      BY DEF WriteLastBlockFile
    <3>4. CASE scan = None
      BY <3>4, <1>0, NotScanning
    <3>5. CASE scan # None
      <4>1. SizesStay
        BY <3>1, <3>3, <3>5, <2>1, <1>0, <1>2, <1>3, SameSizes DEF Memory, WriteLastBlockFile, memVars
      <4> QED BY <4>1, <3>1, <3>2, <3>3, <3>5, <2>1, <1>0, StillScanned
    <3> QED BY <3>4, <3>5
  <2> QED BY <2>3, <2>4, <2>5
<1> QED BY <1>5, <1>6, <1>7, <1>8, <1>9, <1>10 DEF FilesInv, Sound

LEMMA WriteBlockToDiskStep ==
  ASSUME FilesInv, WriteBlockToDisk
  PROVE  FilesInv'
PROOF
<1>0. /\ DbTypes /\ ParentsFirst /\ SizesGrow /\ FileShapes /\ Memory /\ MemoryAhead /\ InHand
      /\ pc = "write" /\ pc' = "index" /\ UNCHANGED <<memVars, dbVars, coinVars, rev, revDurable, histVars>>
  BY DEF FilesInv, WriteBlockToDisk
<1>1. DbTypes' /\ ParentsFirst' /\ SizesGrow' /\ Databases' = Databases /\ db' = db
  BY <1>0, SameDatabase DEF dbVars
<1>2. PICK f, p : f = cur.at.file /\ p = cur.at.pos
  OBVIOUS
<1>3. f \in Files /\ p \in Positions /\ p \in 0..(MAX_BLOCKFILE_SIZE - 2) /\ cur.at = Place(f, p)
  BY <1>0, <1>2, PlaceFacts DEF InHand, BlockPlace
<1>4. /\ Shape(blk') /\ blk'[f][p] = cur.block
      /\ \A g \in Files : \A q \in Positions : g # f \/ q # p => blk'[g][q] = blk[g][q]
  <2>1. blk' = WithRecord(blk, f, p, cur.block)
    BY <1>2 DEF WriteBlockToDisk, WithRecord
  <2> QED BY <2>1, <1>3, <1>0, RecordWritten DEF FileShapes
<1>5. InBounds(blk')
  BY <1>3, <1>4, <1>0 DEF InBounds, FileShapes
<1>6. Shape(blkDurable') /\ InBounds(blkDurable')
  <2>1. blkDurable' = Committed(blkDurable, blk', f) \/ blkDurable' = blkDurable
    BY <1>2 DEF WriteBlockToDisk
  <2>2. Shape(blkDurable) /\ InBounds(blkDurable)
    BY <1>0 DEF FileShapes
  <2> QED BY <2>1, <2>2, <1>3, <1>4, <1>5, CommittedShape, CommittedBounds
<1>7. FileShapes'
  BY <1>0, <1>4, <1>5, <1>6 DEF FileShapes
<1>8. Memory' /\ MemoryAhead'
  BY <1>0 DEF Memory, MemoryAhead, memVars, dbVars, coinVars, histVars
<1>9. InHand'
  BY <1>0 DEF InHand, HaveParent, mapBlockIndex, memVars, dbVars
<1>10. ASSUME Undamaged' PROVE AllLead' /\ HandRecords' /\ Scanned'
  <2>1. AllLead /\ HandRecords /\ Scanned
    BY <1>10, <1>0, Undamaged_Before DEF FilesInv, Sound, histVars
  <2>2. AllLead'
    <3> SUFFICES ASSUME NEW d \in Databases', NEW b \in DOMAIN d.index PROVE (LeadsToBlock(d, b) /\ LeadsToUndo(d, b))'
      BY DEF AllLead, Leads
    <3>1. LeadsToBlock(d, b) /\ LeadsToUndo(d, b) /\ d \in Databases /\ DbType(d)
      BY <2>1, <1>0, <1>1 DEF AllLead, Leads, DbTypes
    <3>2. d.index[b].at \in BlockPlace /\ d.index[b].at # Place(f, p)
      BY <3>1, <2>1, <1>0, <1>3 DEF DbType, IndexType, EntryType, HandRecords, Unused, UnusedBy
    <3>3. LeadsToBlock(d, b)'
      <4>1. /\ d.index[b].at.file \in Files /\ d.index[b].at.pos \in Positions
            /\ d.index[b].at.file # f \/ d.index[b].at.pos # p
        BY <3>2, PlaceFacts
      <4> QED BY <4>1, <3>1, <1>4 DEF LeadsToBlock
    <3>4. LeadsToUndo(d, b)'
      BY <3>1, <1>0 DEF LeadsToUndo
    <3> QED BY <3>3, <3>4
  <2>3. HandRecords'
    BY <2>1, <1>0, <1>1, <1>2, <1>4 DEF HandRecords, memVars
  <2>4. Scanned'
    BY <2>1, <1>0, NotScanning DEF Scanned, memVars
  <2> QED BY <2>2, <2>3, <2>4
<1> QED BY <1>1, <1>7, <1>8, <1>9, <1>10 DEF FilesInv, Sound

LEMMA AddToBlockIndexStep ==
  ASSUME FilesInv, AddToBlockIndex
  PROVE  FilesInv'
PROOF
<1>0. /\ DbTypes /\ ParentsFirst /\ SizesGrow /\ FileShapes /\ Memory /\ MemoryAhead /\ InHand
      /\ db \in Databases /\ DbType(db) /\ pc = "index" /\ pc' = "activate"
  BY DEF FilesInv, Databases, AddToBlockIndex, DbTypes
<1>1. cur.block \in Blocks /\ cur.at \in BlockPlace /\ HaveParent(cur.block)
  BY <1>0 DEF InHand
<1>2. PICK b, at : b = cur.block /\ at = cur.at
  OBVIOUS
<1>3. PICK new : new = WithEntry(db, b, Entry(at))
  OBVIOUS
<1>4. Write(new) /\ db' = new
  BY <1>2, <1>3, WriteAdds DEF AddToBlockIndex
<1>5. Entry(at) \in EntryType /\ Entry(at).at = at /\ Entry(at).undo = None
  BY <1>1, <1>2 DEF Entry, EntryType
<1>6. /\ DbType(new) /\ new.info = db.info /\ DOMAIN new.index = DOMAIN db.index \cup {b}
      /\ new.index[b] = Entry(at) /\ \A x \in DOMAIN db.index : x # b => new.index[x] = db.index[x]
  BY <1>0, <1>1, <1>2, <1>3, <1>5, EntryWritten
<1>7. Closed(new.index) /\ \A f \in Files : NoLess(db.info[f], new.info[f])
  <2>1. Closed(db.index)
    BY <1>0 DEF ParentsFirst
  <2>2. Closed(new.index)
    BY <2>1, <1>1, <1>2, <1>6 DEF Closed, HaveParent, mapBlockIndex
  <2> QED BY <2>2, <1>0, <1>6, NoLessReflexive DEF DbType
<1>8. DbTypes' /\ ParentsFirst' /\ SizesGrow'
  BY <1>0, <1>4, <1>6, <1>7, Written
<1>9. FileShapes'
  BY <1>0, SameFiles DEF AddToBlockIndex
<1>10. Memory'
  BY <1>0 DEF Memory, AddToBlockIndex, coinVars, histVars
<1>11. InHand'
  BY <1>0 DEF InHand
<1>12. MemoryAhead'
  BY <1>0, <1>4, <1>6 DEF MemoryAhead, AddToBlockIndex
<1>13. ASSUME Undamaged' PROVE AllLead' /\ HandRecords' /\ Scanned'
  <2>1. AllLead /\ HandRecords /\ Scanned /\ UNCHANGED <<blk, rev, scan>>
    BY <1>13, Undamaged_Before DEF FilesInv, Sound, AddToBlockIndex, histVars, fileVars
  <2>2. Leads(new)
    <3>1. LeadsToBlock(new, b) /\ LeadsToUndo(new, b)
      BY <2>1, <1>0, <1>2, <1>5, <1>6 DEF HandRecords, LeadsToBlock, LeadsToUndo
    <3>2. ASSUME NEW x \in DOMAIN db.index, x # b PROVE LeadsToBlock(new, x) /\ LeadsToUndo(new, x)
      BY <3>2, <2>1, <1>0, <1>6 DEF AllLead, Leads, LeadsToBlock, LeadsToUndo
    <3> QED BY <3>1, <3>2, <1>6 DEF Leads
  <2>3. AllLead'
    BY <2>1, <2>2, <1>4, WrittenLeads
  <2>4. HandRecords'
    BY <1>0, NoRecordInHand
  <2>5. Scanned'
    <3>1. mapBlockIndex \subseteq mapBlockIndex' /\ cur.block \in mapBlockIndex'
      BY <1>2, <1>4, <1>6 DEF mapBlockIndex
    <3>2. ASSUME scan # None PROVE SizesStay
      BY <3>2, <2>1, <1>0, <1>4, <1>6, SameSizes DEF Memory, AddToBlockIndex
    <3> QED BY <3>1, <3>2, <2>1, <1>0, StillScanned
  <2> QED BY <2>3, <2>4, <2>5
<1> QED BY <1>8, <1>9, <1>10, <1>11, <1>12, <1>13 DEF FilesInv, Sound

\* Before the place ReindexBlock goes on to, every block is in the index: of those that
\* are not, one would have its parent there, and be found earlier.
LEMMA AllBeforeFound ==
  ASSUME FilesInv, Scanned, scan # None, pc = "idle", NEW at \in Found, \A x \in Found : ~Before(x, at),
         NEW f \in Files, NEW p \in Positions, Before(Place(f, p), at), blk[f][p] # None
  PROVE  blk[f][p] \in mapBlockIndex
PROOF
<1>1. /\ \A g \in Files : \A q \in Positions : blk[g][q] # None => \A r \in 0..q : blk[g][r] \in Blocks
      /\ \A g \in Files, q \in Positions : blk[g][q] # None /\ Parent[blk[g][q]] # None =>
            \E h \in Files, r \in Positions :
               blk[h][r] = Parent[blk[g][q]] /\ Before(Place(h, r), Place(g, q))
      /\ \A g \in Files : \A q \in Positions : Behind(g, q) => Passed(Place(g, q))
  BY DEF Scanned, FilesClean
<1>2. \A g \in Files : \A q \in Positions : blk[g][q] # None => blk[g][q] \in Blocks
  BY <1>1, Bounds
<1> DEFINE U == {b \in Blocks \ mapBlockIndex :
                    \E g \in Files, q \in Positions : blk[g][q] = b /\ Before(Place(g, q), at)}
<1>3. SUFFICES ASSUME U # {} PROVE FALSE
  BY <1>2
<1>4. PICK b \in U : Parent[b] \notin U
  <2>1. U \in (SUBSET Blocks) \ {{}}
    BY <1>3
  <2> HIDE DEF U
  <2> QED BY <2>1, BlockFilesAssumption
<1>5. PICK g \in Files, q \in Positions : blk[g][q] = b /\ Before(Place(g, q), at)
  OBVIOUS
<1>6. b \in Blocks /\ b \notin mapBlockIndex /\ b # None /\ Parent[b] \in Blocks \cup {None}
  BY Bounds, BlockFilesAssumption
<1>7. HaveParent(b)
  <2>1. SUFFICES ASSUME Parent[b] # None PROVE Parent[b] \in mapBlockIndex
    BY DEF HaveParent
  <2>2. PICK h \in Files, r \in Positions : blk[h][r] = Parent[b] /\ Before(Place(h, r), Place(g, q))
    BY <2>1, <1>1, <1>5, <1>6
  <2>3. at.file \in Files /\ at.pos \in Positions
    BY DEF Found
  <2>4. Before(Place(h, r), at)
    <3>1. /\ h \in Int /\ r \in Int /\ g \in Int /\ q \in Int /\ at.file \in Int /\ at.pos \in Int
      BY <2>3, PlacesAreNumbers
    <3>2. h < g \/ (h = g /\ r < q)
      BY <2>2, PlaceFacts DEF Before
    <3>3. g < at.file \/ (g = at.file /\ q < at.pos)
      BY <1>5, PlaceFacts DEF Before
    <3>4. h < at.file \/ (h = at.file /\ r < at.pos)
      BY <3>1, <3>2, <3>3
    <3> QED BY <3>4, PlaceFacts DEF Before
  <2> QED BY <2>1, <2>2, <2>4, <1>4, <1>6
<1>8. CASE Behind(g, q)
  BY <1>8, <1>1, <1>5, <1>6, PlaceFacts DEF Passed
<1>9. CASE ~Behind(g, q)
  <2>1. Place(g, q) \in [file : Files, pos : Positions]
    BY DEF Place
  <2>2. Place(g, q) \in Found
    BY <2>1, <1>5, <1>6, <1>7, <1>9, PlaceFacts DEF Found, Behind
  <2> QED BY <2>2, <1>5
<1> QED BY <1>8, <1>9

LEMMA ReindexBlockStep ==
  ASSUME FilesInv, ReindexBlock
  PROVE  FilesInv'
PROOF
<1>0. /\ DbTypes /\ ParentsFirst /\ SizesGrow /\ FileShapes /\ Memory /\ MemoryAhead
      /\ db \in Databases /\ DbType(db) /\ pc = "idle" /\ scan # None
      /\ UNCHANGED <<tip, ibd, coinVars, fileVars, histVars>>
  BY DEF FilesInv, Databases, DbTypes, ReindexBlock
<1>1. PICK at \in Found :
         /\ \A x \in Found : ~Before(x, at)
         /\ nLastBlockFile' = at.file /\ infoLastBlockFile' = [BlockInfo(at.file) EXCEPT !.nSize = @ + 1]
         /\ Write([db EXCEPT !.info[at.file] = [BlockInfo(at.file) EXCEPT !.nSize = @ + 1]])
         /\ cur' = [block |-> blk[at.file][at.pos], at |-> at, known |-> TRUE]
         /\ pc' = IF at.file = nLastBlockFile THEN "index" ELSE "last"
         /\ scan' = Place(at.file, at.pos + 1)
  BY DEF ReindexBlock
<1>2. PICK f, p, b : f = at.file /\ p = at.pos /\ b = blk[f][p]
  OBVIOUS
<1>3. PICK new : new = [BlockInfo(f) EXCEPT !.nSize = @ + 1]
  OBVIOUS
<1>4. /\ f \in Files /\ p \in Positions /\ at = Place(f, p) /\ b \in Blocks \ mapBlockIndex /\ HaveParent(b)
      /\ blk[f][p] # None
  BY <1>2, Bounds DEF Found, Place
<1>5. at \in BlockPlace
  <2>1. p \in 0..(MAX_BLOCKFILE_SIZE - 2)
    BY <1>4, <1>0 DEF FileShapes, InBounds
  <2> QED BY <2>1, <1>4 DEF Place, BlockPlace
<1>6. BlockInfo(f) \in Info /\ NoLess(db.info[f], BlockInfo(f)) /\ db.info[f] \in Info
  BY <1>0, <1>4, BlockInfoFacts
<1>7. new \in Info /\ NoLess(BlockInfo(f), new) /\ new.nSize = BlockInfo(f).nSize + 1 /\ BlockInfo(f).nSize \in Nat
  BY <1>3, <1>6, MoreBlockFacts, InfoFacts
<1>8. NoLess(db.info[f], new)
  BY <1>6, <1>7, NoLessTransitive
<1>9. PICK e : e = WithInfo(db, f, new)
  OBVIOUS
<1>10. Write(e) /\ db' = e /\ Databases' = Databases \cup {e}
  BY <1>1, <1>2, <1>3, <1>9, WriteAdds DEF WithInfo
<1>11. /\ DbType(e) /\ e.index = db.index
       /\ e.info[f] = new /\ \A g \in Files : g # f => e.info[g] = db.info[g]
  BY <1>0, <1>4, <1>7, <1>9, InfoWritten
<1>12. \A g \in Files : NoLess(db.info[g], e.info[g])
  BY <1>0, <1>8, <1>11, NoLessReflexive DEF DbType
<1>13. DbTypes' /\ ParentsFirst' /\ SizesGrow'
  BY <1>0, <1>10, <1>11, <1>12, Written DEF ParentsFirst
<1>14. FileShapes'
  BY <1>0, SameFiles
<1>15. Memory'
  BY <1>0, <1>1, <1>2, <1>3, <1>4, <1>7 DEF Memory, coinVars, histVars
<1>16. cur'.block = b /\ cur'.at = at /\ cur'.known = TRUE /\ pc' \in {"index", "last"} /\ scan' = Place(f, p + 1)
  BY <1>1, <1>2
<1>17. InHand'
  <2>1. HaveParent(b)'
    BY <1>4, <1>10, <1>11 DEF HaveParent, mapBlockIndex
  <2> QED BY <2>1, <1>16, <1>5, <1>4 DEF InHand
<1>18. MemoryAhead'
  BY <1>1, <1>2, <1>3, <1>7, <1>10, <1>11, NoLessReflexive DEF MemoryAhead
<1>19. ASSUME Undamaged' PROVE AllLead' /\ HandRecords' /\ Scanned'
  <2>1. AllLead /\ Scanned /\ UNCHANGED <<blk, rev>>
    BY <1>19, <1>0, Undamaged_Before DEF FilesInv, Sound, histVars, fileVars
  <2>2. Leads(e)
    BY <2>1, <1>0, <1>11, <1>12, LargerLeads DEF AllLead
  <2>3. AllLead'
    BY <2>1, <2>2, <1>10, WrittenLeads
  <2>4. FilesClean
    BY <2>1, <1>0 DEF Scanned
  <2>5. \A g \in Files : \A q \in Positions : Before(Place(g, q), at) /\ blk[g][q] # None => blk[g][q] \in mapBlockIndex
    BY <2>1, <1>0, <1>1, AllBeforeFound
\* nSize counts at least the blocks before it in the file.
  <2>6. p < new.nSize
    <3>1. CASE p = 0
      BY <3>1, <1>7
    <3>2. CASE p # 0
      <4>1. p - 1 \in Positions /\ p - 1 \in 0..p /\ p \in Nat
        BY <3>2, <1>4, PlacesAreNumbers
      <4>2. PICK y : y = blk[f][p - 1]
        OBVIOUS
      <4>3. y \in Blocks /\ y # None
        BY <4>1, <4>2, <2>4, <1>4, Bounds DEF FilesClean
      <4>4. Before(Place(f, p - 1), at)
        BY <4>1, <1>4, PlaceFacts DEF Before
      <4>5. y \in DOMAIN db.index
        BY <4>1, <4>2, <4>3, <4>4, <2>5, <1>4 DEF mapBlockIndex
      <4>6. PICK r : r = db.index[y].at
        OBVIOUS
      <4>7. r.file \in Files /\ r.pos \in Positions /\ blk[r.file][r.pos] = y /\ r.pos < db.info[r.file].nSize
        <5>1. r \in BlockPlace
          BY <4>5, <4>6, <1>0 DEF DbType, IndexType, EntryType
        <5>2. LeadsToBlock(db, y)
          BY <4>5, <2>1, <1>0 DEF AllLead, Leads
        <5> QED BY <5>1, <5>2, <4>6, PlaceFacts DEF LeadsToBlock
      <4>8. r.file = f /\ r.pos = p - 1
        BY <4>1, <4>2, <4>3, <4>7, <2>4, <1>4 DEF FilesClean
      <4>9. db.info[f].nSize <= BlockInfo(f).nSize /\ db.info[f].nSize \in Nat
        BY <1>6, InfoFacts
      <4> QED BY <4>1, <4>7, <4>8, <4>9, <1>7
    <3> QED BY <3>1, <3>2
  <2>7. HandRecords'
    BY <2>1, <2>6, <1>2, <1>4, <1>10, <1>11, <1>16, PlaceFacts DEF HandRecords
  <2>8. Scanned'
    <3>1. FilesClean'
      BY <2>1, <2>4 DEF FilesClean
    <3>2. ASSUME NEW g \in Files, NEW q \in Positions, Behind(g, q)'
          PROVE  Passed(Place(g, q))'
      <4>1. mapBlockIndex' = mapBlockIndex
        BY <1>10, <1>11 DEF mapBlockIndex
      <4>2. Before(Place(g, q), at) \/ (g = f /\ q = p) \/ (g > f /\ q < db.info[g].nSize)
        <5>1. g \in Int /\ f \in Int
          BY <1>4, PlacesAreNumbers
        <5>2. g > f => db'.info[g] = db.info[g]
          BY <5>1, <1>10, <1>11
        <5> QED BY <5>2, <3>2, <1>4, <1>16, PlaceFacts, Bounds DEF Behind, Before, Skipped
      <4>5. CASE g > f /\ q < db.info[g].nSize
        <5>1. ~Before(at, scan)
          BY DEF Found
        <5>2. CASE Behind(g, q)
          BY <5>2, <4>1, <2>1, <1>0, PlaceFacts DEF Scanned, Passed
        <5>3. CASE ~Behind(g, q)
          <6>1. ~(g > scan.file) /\ ~(g < scan.file)
            BY <5>3, <4>5, PlaceFacts DEF Behind, Before, Skipped
          <6>2. ~(f < scan.file)
            BY <5>1, <1>4, PlaceFacts DEF Before
          <6>3. g \in Int /\ f \in Int /\ scan.file \in Int
            BY <2>1, <1>0, <1>4, PlacesAreNumbers DEF Scanned
          <6>4. FALSE
            BY <6>1, <6>2, <6>3, <4>5
          <6> QED BY <6>4
        <5> QED BY <5>2, <5>3
      <4>3. CASE Before(Place(g, q), at)
        BY <4>1, <4>3, <2>1, <2>5, PlaceFacts DEF Passed
      <4>4. CASE g = f /\ q = p
        BY <4>4, <2>1, <1>2, <1>16, PlaceFacts DEF Passed
      <4> QED BY <4>2, <4>3, <4>4, <4>5
    <3>3. LastScanned'
      BY <1>1, <1>2, <1>4, <1>16, PlaceFacts, PlacesAreNumbers DEF LastScanned
    <3> QED BY <3>1, <3>2, <3>3, <1>4, <1>16, PlaceFacts DEF Scanned
  <2> QED BY <2>3, <2>7, <2>8
<1> QED BY <1>13, <1>14, <1>15, <1>17, <1>18, <1>19 DEF FilesInv, Sound

-----------------------------------------------------------------------------
(* ActivateBestChain *)

LEMMA FindUndoPosStep ==
  ASSUME FilesInv, FindUndoPos
  PROVE  FilesInv'
PROOF
<1>0. /\ DbTypes /\ ParentsFirst /\ SizesGrow /\ FileShapes /\ Memory /\ MemoryAhead /\ InHand
      /\ db \in Databases /\ DbType(db) /\ pc = "connect" /\ pc' = "undo"
      /\ UNCHANGED <<nLastBlockFile, tip, scan, ibd, coinVars, fileVars, histVars>>
  BY DEF FilesInv, Databases, DbTypes, FindUndoPos
<1>1. PICK f, new : f = cur.at.file /\ new = MoreUndo(UndoInfo(f))
  OBVIOUS
<1>2. /\ UndoInfo(f).nUndoSize < MaxUndo
      /\ Write([db EXCEPT !.info[f] = new])
      /\ infoLastBlockFile' = IF f = nLastBlockFile THEN new ELSE infoLastBlockFile
      /\ cur' = [cur EXCEPT !.at = Place(f, UndoInfo(f).nUndoSize)]
  BY <1>1 DEF FindUndoPos
<1>3. f \in Files /\ cur.block \in mapBlockIndex
  BY <1>0, <1>1, PlaceFacts DEF InHand
<1>4. /\ UndoInfo(f) \in Info /\ NoLess(db.info[f], UndoInfo(f)) /\ db.info[f] \in Info
      /\ \A d \in Databases : d.info[f] \in Info /\ NoLess(d.info[f], UndoInfo(f))
  BY <1>0, <1>3, BlockInfoFacts
<1>5. PICK n : n = UndoInfo(f).nUndoSize
  OBVIOUS
<1>6. n \in 0..(MaxUndo - 1) /\ n \in Nat
  BY <1>2, <1>4, <1>5, InfoFacts, Bounds
<1>7. new \in Info /\ NoLess(UndoInfo(f), new) /\ new.nUndoSize = n + 1
  BY <1>1, <1>2, <1>4, <1>5, MoreUndoFacts
<1>8. NoLess(db.info[f], new)
  BY <1>4, <1>7, NoLessTransitive
<1>9. PICK e : e = WithInfo(db, f, new)
  OBVIOUS
<1>10. Write(e) /\ db' = e /\ Databases' = Databases \cup {e}
  BY <1>2, <1>9, WriteAdds DEF WithInfo
<1>11. /\ DbType(e) /\ e.index = db.index
       /\ e.info[f] = new /\ \A g \in Files : g # f => e.info[g] = db.info[g]
  BY <1>0, <1>3, <1>7, <1>9, InfoWritten
<1>12. \A g \in Files : NoLess(db.info[g], e.info[g])
  BY <1>0, <1>8, <1>11, NoLessReflexive DEF DbType
<1>13. DbTypes' /\ ParentsFirst' /\ SizesGrow'
  BY <1>0, <1>10, <1>11, <1>12, Written DEF ParentsFirst
<1>14. FileShapes'
  BY <1>0, SameFiles
<1>15. Memory'
  BY <1>0, <1>2, <1>7 DEF Memory, coinVars, histVars
<1>16. cur'.block = cur.block /\ cur'.at = Place(f, n)
  <2>1. cur = [block |-> cur.block, at |-> cur.at, known |-> cur.known]
    BY <1>0 DEF InHand
  <2> QED BY <2>1, <1>2, <1>5
<1>17. InHand'
  <2>1. Place(f, n) \in UndoPlace
    BY <1>3, <1>6 DEF Place, UndoPlace
  <2>2. mapBlockIndex' = mapBlockIndex
    BY <1>10, <1>11 DEF mapBlockIndex
  <2> QED BY <2>1, <2>2, <1>0, <1>3, <1>16 DEF InHand
<1>18. MemoryAhead'
  <2>1. CASE f = nLastBlockFile
    BY <2>1, <1>0, <1>2, <1>7, <1>10, <1>11, NoLessReflexive DEF MemoryAhead
  <2>2. CASE f # nLastBlockFile
    BY <2>2, <1>0, <1>2, <1>10, <1>11 DEF MemoryAhead, Memory
  <2> QED BY <2>1, <2>2
<1>19. ASSUME Undamaged' PROVE AllLead' /\ HandRecords' /\ Scanned'
  <2>1. AllLead /\ Scanned /\ UNCHANGED <<blk, rev>>
    BY <1>19, <1>0, Undamaged_Before DEF FilesInv, Sound, histVars, fileVars
  <2>2. Leads(e)
    BY <2>1, <1>0, <1>11, <1>12, LargerLeads DEF AllLead
  <2>3. AllLead'
    BY <2>1, <2>2, <1>10, WrittenLeads
  <2>4. UnusedUndo(cur.at)'
    <3>1. ASSUME NEW d \in Databases PROVE UnusedUndoBy(d, Place(f, n))
      <4>1. DbType(d) /\ Leads(d) /\ d.info[f].nUndoSize <= n
        BY <2>1, <1>0, <1>4, <1>5, InfoFacts DEF AllLead, DbTypes
      <4> QED BY <4>1, <1>3, <1>6, FreshUndoPlace
    <3>2. UnusedUndoBy(e, Place(f, n))
      BY <3>1, <1>0, <1>11 DEF UnusedUndoBy
    <3> QED BY <3>1, <3>2, <1>10, <1>16 DEF UnusedUndo
  <2>5. cur'.at.pos < db'.info[cur'.at.file].nUndoSize
    BY <1>6, <1>7, <1>10, <1>11, <1>16, PlaceFacts
  <2>6. HandRecords'
    BY <2>4, <2>5, <1>0 DEF HandRecords
  <2>7. Scanned'
    <3>1. mapBlockIndex' = mapBlockIndex
      BY <1>10, <1>11 DEF mapBlockIndex
    <3>2. ASSUME scan # None PROVE SizesStay
      <4>1. LastScanned
        BY <3>2, <2>1, <1>0 DEF Scanned
      <4>2. f = nLastBlockFile => infoLastBlockFile' = db'.info[nLastBlockFile]
        BY <1>2, <1>10, <1>11
      <4>3. f # nLastBlockFile => infoLastBlockFile' = infoLastBlockFile /\ db'.info[nLastBlockFile] = db.info[nLastBlockFile]
        BY <1>0, <1>2, <1>10, <1>11 DEF Memory
      <4>4. LastScanned'
        BY <4>1, <4>2, <4>3, <3>1, <1>0 DEF LastScanned
      <4>5. f > scan.file => new.nSize = db.info[f].nSize
        <5>1. new.nSize = UndoInfo(f).nSize
          BY <1>1, <1>4 DEF MoreUndo, Info
        <5>2. mapBlockIndex # {}
          BY <1>3
        <5> QED BY <5>1, <5>2, <4>1 DEF UndoInfo, LastScanned
      <4>6. ASSUME NEW g \in Files, g > scan.file PROVE db'.info[g].nSize = db.info[g].nSize
        BY <4>5, <4>6, <1>10, <1>11
      <4> QED BY <4>4, <4>6 DEF SizesStay
    <3> QED BY <3>1, <3>2, <2>1, <1>0, StillScanned
  <2> QED BY <2>3, <2>6, <2>7
<1> QED BY <1>13, <1>14, <1>15, <1>17, <1>18, <1>19 DEF FilesInv, Sound

LEMMA WriteUndoStep ==
  ASSUME FilesInv, WriteUndo
  PROVE  FilesInv'
PROOF
<1>0. /\ DbTypes /\ ParentsFirst /\ SizesGrow /\ FileShapes /\ Memory /\ MemoryAhead /\ InHand
      /\ pc = "undo" /\ pc' = "status" /\ UNCHANGED <<memVars, dbVars, coinVars, blk, blkDurable, histVars>>
  BY DEF FilesInv, WriteUndo
<1>1. DbTypes' /\ ParentsFirst' /\ SizesGrow' /\ Databases' = Databases /\ db' = db
  BY <1>0, SameDatabase DEF dbVars
<1>2. PICK f, p : f = cur.at.file /\ p = cur.at.pos
  OBVIOUS
<1>3. f \in Files /\ p \in Positions /\ cur.at = Place(f, p)
  BY <1>0, <1>2, PlaceFacts DEF InHand
<1>4. /\ Shape(rev') /\ rev'[f][p] = cur.block
      /\ \A g \in Files : \A q \in Positions : g # f \/ q # p => rev'[g][q] = rev[g][q]
  <2>1. rev' = WithRecord(rev, f, p, cur.block)
    BY <1>2 DEF WriteUndo, WithRecord
  <2> QED BY <2>1, <1>3, <1>0, RecordWritten DEF FileShapes
<1>5. Shape(revDurable')
  <2>1. revDurable' = Committed(revDurable, rev', f) \/ revDurable' = revDurable
    BY <1>2 DEF WriteUndo
  <2> QED BY <2>1, <1>0, <1>3, <1>4, CommittedShape DEF FileShapes
<1>6. FileShapes'
  BY <1>0, <1>4, <1>5 DEF FileShapes
<1>7. Memory' /\ MemoryAhead'
  BY <1>0 DEF Memory, MemoryAhead, memVars, dbVars, coinVars, histVars
<1>8. InHand'
  BY <1>0 DEF InHand, mapBlockIndex, memVars, dbVars
<1>9. ASSUME Undamaged' PROVE AllLead' /\ HandRecords' /\ Scanned'
  <2>1. AllLead /\ HandRecords /\ Scanned
    BY <1>9, <1>0, Undamaged_Before DEF FilesInv, Sound, histVars
  <2>2. AllLead'
    <3> SUFFICES ASSUME NEW d \in Databases', NEW b \in DOMAIN d.index PROVE (LeadsToBlock(d, b) /\ LeadsToUndo(d, b))'
      BY DEF AllLead, Leads
    <3>1. LeadsToBlock(d, b) /\ LeadsToUndo(d, b) /\ d \in Databases /\ DbType(d)
      BY <2>1, <1>0, <1>1 DEF AllLead, Leads, DbTypes
    <3>2. LeadsToBlock(d, b)'
      BY <3>1, <1>0 DEF LeadsToBlock
    <3>3. ASSUME d.index[b].undo # None PROVE d.index[b].undo \in UndoPlace /\ d.index[b].undo # Place(f, p)
      BY <3>1, <3>3, <2>1, <1>0, <1>3 DEF DbType, IndexType, EntryType, HandRecords, UnusedUndo, UnusedUndoBy
    <3>4. LeadsToUndo(d, b)'
      <4>1. d.index[b].undo # None =>
               /\ d.index[b].undo.file \in Files /\ d.index[b].undo.pos \in Positions
               /\ d.index[b].undo.file # f \/ d.index[b].undo.pos # p
        BY <3>3, PlaceFacts
      <4> QED BY <4>1, <3>1, <1>4 DEF LeadsToUndo
    <3> QED BY <3>2, <3>4
  <2>3. HandRecords'
    BY <2>1, <1>0, <1>1, <1>2, <1>4 DEF HandRecords, memVars
  <2>4. Scanned'
    <3>1. mapBlockIndex' = mapBlockIndex
      BY <1>1 DEF mapBlockIndex
    <3>2. ASSUME scan # None PROVE SizesStay
      BY <3>1, <3>2, <2>1, <1>0, <1>1, SameSizes DEF Memory, memVars
    <3> QED BY <3>1, <3>2, <2>1, <1>0, StillScanned DEF memVars
  <2> QED BY <2>2, <2>3, <2>4
<1> QED BY <1>1, <1>6, <1>7, <1>8, <1>9 DEF FilesInv, Sound

LEMMA WriteUndoPosStep ==
  ASSUME FilesInv, WriteUndoPos
  PROVE  FilesInv'
PROOF
<1>0. /\ DbTypes /\ ParentsFirst /\ SizesGrow /\ FileShapes /\ Memory /\ MemoryAhead /\ InHand
      /\ db \in Databases /\ DbType(db) /\ pc = "status" /\ pc' = "flush"
      /\ UNCHANGED <<memVars, coinVars, fileVars, histVars>>
  BY DEF FilesInv, Databases, DbTypes, WriteUndoPos
<1>1. PICK b, at : b = cur.block /\ at = cur.at
  OBVIOUS
<1>2. b \in DOMAIN db.index /\ b \in Blocks /\ at \in UndoPlace /\ db.index[b] \in EntryType
  BY <1>0, <1>1 DEF InHand, mapBlockIndex, DbType, IndexType
<1>3. PICK entry : entry = [db.index[b] EXCEPT !.undo = at]
  OBVIOUS
<1>4. entry \in EntryType /\ entry.at = db.index[b].at /\ entry.undo = at
  BY <1>2, <1>3 DEF EntryType
<1>5. PICK new : new = WithEntry(db, b, entry)
  OBVIOUS
<1>6. Write(new) /\ db' = new
  <2>1. Write(WithEntry(db, cur.block, [db.index[cur.block] EXCEPT !.undo = cur.at]))
    BY DEF WriteUndoPos
  <2>2. WithEntry(db, cur.block, [db.index[cur.block] EXCEPT !.undo = cur.at]) = new
    BY <1>1, <1>3, <1>5, Zenon
  <2>3. Write(new)
    BY <2>1, <2>2 DEF Write
  <2> QED BY <2>3, WriteAdds
<1>7. /\ DbType(new) /\ new.info = db.info /\ DOMAIN new.index = DOMAIN db.index
      /\ new.index[b] = entry /\ \A x \in DOMAIN db.index : x # b => new.index[x] = db.index[x]
  <2>1. /\ DbType(new) /\ new.info = db.info /\ DOMAIN new.index = DOMAIN db.index \cup {b}
        /\ new.index[b] = entry /\ \A x \in DOMAIN db.index : x # b => new.index[x] = db.index[x]
    BY <1>0, <1>2, <1>4, <1>5, EntryWritten
  <2>2. DOMAIN db.index \cup {b} = DOMAIN db.index
    BY <1>2
  <2> QED BY <2>1, <2>2
<1>8. Closed(new.index) /\ \A f \in Files : NoLess(db.info[f], new.info[f])
  <2>1. Closed(db.index)
    BY <1>0 DEF ParentsFirst
  <2>2. Closed(new.index)
    BY <2>1, <1>7 DEF Closed
  <2> QED BY <2>2, <1>0, <1>7, NoLessReflexive DEF DbType
<1>9. DbTypes' /\ ParentsFirst' /\ SizesGrow'
  BY <1>0, <1>6, <1>7, <1>8, Written
<1>10. FileShapes'
  BY <1>0, SameFiles
<1>11. Memory'
  BY <1>0 DEF Memory, memVars, coinVars, histVars
<1>12. InHand'
  BY <1>0, <1>6, <1>7 DEF InHand, mapBlockIndex, memVars
<1>13. MemoryAhead'
  BY <1>0, <1>6, <1>7 DEF MemoryAhead, memVars
<1>14. ASSUME Undamaged' PROVE AllLead' /\ HandRecords' /\ Scanned'
  <2>1. AllLead /\ HandRecords /\ Scanned /\ UNCHANGED <<blk, rev, scan>>
    BY <1>14, <1>0, Undamaged_Before DEF FilesInv, Sound, histVars, fileVars, memVars
  <2>2. Leads(new)
    <3>1. LeadsToBlock(new, b)
      BY <2>1, <1>0, <1>2, <1>4, <1>7 DEF AllLead, Leads, LeadsToBlock
    <3>2. LeadsToUndo(new, b)
      BY <2>1, <1>0, <1>1, <1>4, <1>7 DEF HandRecords, LeadsToUndo
    <3>3. ASSUME NEW x \in DOMAIN db.index, x # b PROVE LeadsToBlock(new, x) /\ LeadsToUndo(new, x)
      BY <3>3, <2>1, <1>0, <1>7 DEF AllLead, Leads, LeadsToBlock, LeadsToUndo
    <3> QED BY <3>1, <3>2, <3>3, <1>7 DEF Leads
  <2>3. AllLead'
    BY <2>1, <2>2, <1>6, WrittenLeads
  <2>4. HandRecords'
    BY <1>0, NoRecordInHand
  <2>5. Scanned'
    <3>1. mapBlockIndex' = mapBlockIndex
      BY <1>6, <1>7 DEF mapBlockIndex
    <3>2. ASSUME scan # None PROVE SizesStay
      BY <3>1, <3>2, <2>1, <1>0, <1>6, <1>7, SameSizes DEF Memory, memVars
    <3> QED BY <3>1, <3>2, <2>1, <1>0, StillScanned
  <2> QED BY <2>3, <2>4, <2>5
<1> QED BY <1>9, <1>10, <1>11, <1>12, <1>13, <1>14 DEF FilesInv, Sound

\* What WriteChainState does to the files and to the databases.
LEMMA WriteChainStateFacts ==
  ASSUME FilesInv, NEW b \in Blocks \cup {None}, WriteChainState(b)
  PROVE  /\ DbTypes' /\ ParentsFirst' /\ SizesGrow' /\ FileShapes'
         /\ db' = db /\ Databases' \subseteq Databases /\ UNCHANGED <<blk, rev>>
         /\ coinsDb' \in Blocks \cup {None} /\ coinsPast' \subseteq Blocks \cup {None}
PROOF
<1>0. DbTypes /\ ParentsFirst /\ SizesGrow /\ FileShapes /\ Memory /\ db \in Databases
  BY DEF FilesInv, Databases
<1>1. CASE /\ FlushBlockFile(nLastBlockFile) /\ Sync
           /\ coinsDb' = b /\ coinsPast' = coinsPast \cup {coinsDb}
  <2>1. DbTypes' /\ ParentsFirst' /\ SizesGrow' /\ Databases' = {db'} /\ db' = db
    BY <1>0, <1>1, FewerValues DEF Sync
  <2>2. FileShapes' /\ UNCHANGED <<blk, rev>>
    <3>1. /\ blkDurable' = Committed(blkDurable, blk, nLastBlockFile)
          /\ revDurable' = Committed(revDurable, rev, nLastBlockFile) /\ UNCHANGED <<blk, rev>>
      BY <1>1 DEF FlushBlockFile
    <3>2. nLastBlockFile \in Files
      BY <1>0 DEF Memory
    <3>3. Shape(blkDurable') /\ InBounds(blkDurable') /\ Shape(revDurable')
      BY <1>0, <3>1, <3>2, CommittedShape, CommittedBounds DEF FileShapes
    <3> QED BY <1>0, <3>1, <3>3 DEF FileShapes
  <2> QED BY <2>1, <2>2, <1>0, <1>1 DEF Memory
<1>2. CASE UNCHANGED <<fileVars, dbVars, coinVars>>
  BY <1>0, <1>2, SameDatabase, SameFiles DEF Memory, fileVars, dbVars, coinVars
<1> QED BY <1>1, <1>2 DEF WriteChainState

\* The same for the rest of the invariant, with nothing in hand afterwards.
LEMMA ChainStateWritten ==
  ASSUME FilesInv, NEW b \in Blocks \cup {None}, WriteChainState(b),
         pc \in {"flush", "activate"}, pc' = "activate", UNCHANGED <<scan, histVars>>,
         scan # None => UNCHANGED <<nLastBlockFile, infoLastBlockFile>>
  PROVE  InHand' /\ Sound'
PROOF
<1>1. db' = db /\ Databases' \subseteq Databases /\ UNCHANGED <<blk, rev>> /\ mapBlockIndex' = mapBlockIndex
  BY WriteChainStateFacts DEF mapBlockIndex
<1>2. ASSUME Undamaged' PROVE AllLead' /\ HandRecords' /\ Scanned'
  <2>1. AllLead /\ Scanned
    BY <1>2, Undamaged_Before DEF FilesInv, Sound, histVars
  <2>2. AllLead'
    BY <2>1, <1>1, StillAllLead DEF AllLead, FilesInv, DbTypes
  <2>3. Scanned'
    <3>1. ASSUME scan # None PROVE SizesStay
      BY <3>1, <2>1, <1>1, SameSizes DEF FilesInv, Memory
    <3> QED BY <3>1, <2>1, <1>1, StillScanned
  <2> QED BY <2>2, <2>3, NoRecordInHand
<1> QED BY <1>2 DEF InHand, Sound

LEMMA ConnectTipStep ==
  ASSUME FilesInv, ConnectTip
  PROVE  FilesInv'
PROOF
<1>1. cur.block \in Blocks /\ tip' = cur.block /\ WriteChainState(cur.block) /\ pc = "flush" /\ pc' = "activate"
  BY DEF FilesInv, InHand, ConnectTip, mapBlockIndex, DbTypes, DbType, IndexType, Databases
<1>2. /\ DbTypes' /\ ParentsFirst' /\ SizesGrow' /\ FileShapes' /\ db' = db
      /\ coinsDb' \in Blocks \cup {None} /\ coinsPast' \subseteq Blocks \cup {None}
  BY <1>1, WriteChainStateFacts
<1>3. InHand' /\ Sound'
  BY <1>1, ChainStateWritten DEF ConnectTip
<1>4. Memory'
  BY <1>1, <1>2 DEF FilesInv, Memory, ConnectTip, histVars
<1>5. MemoryAhead'
  BY <1>1, <1>2, SameMemory DEF FilesInv, ConnectTip
<1> QED BY <1>2, <1>3, <1>4, <1>5 DEF FilesInv

LEMMA DisconnectTipStep ==
  ASSUME FilesInv, DisconnectTip
  PROVE  FilesInv'
PROOF
<1>1. /\ tip \in Blocks /\ Parent[tip] \in Blocks \cup {None} /\ pc = "activate"
      /\ UNCHANGED <<nLastBlockFile, infoLastBlockFile, cur, scan, ibd, histVars>>
  BY BlockFilesAssumption DEF FilesInv, Memory, DisconnectTip
<1>2. CASE WriteChainState(Parent[tip]) /\ tip' = Parent[tip] /\ UNCHANGED pc
  <2>1. /\ DbTypes' /\ ParentsFirst' /\ SizesGrow' /\ FileShapes' /\ db' = db
        /\ coinsDb' \in Blocks \cup {None} /\ coinsPast' \subseteq Blocks \cup {None}
    BY <1>1, <1>2, WriteChainStateFacts
  <2>2. InHand' /\ Sound'
    BY <1>1, <1>2, ChainStateWritten
  <2>3. Memory'
    BY <1>1, <1>2, <2>1 DEF FilesInv, Memory, histVars
  <2>4. MemoryAhead'
    BY <1>1, <2>1, SameMemory DEF FilesInv
  <2> QED BY <2>1, <2>2, <2>3, <2>4 DEF FilesInv
<1>3. CASE pc' = (IF CanRead(tip) THEN "idle" ELSE "off") /\ UNCHANGED <<tip, dbVars, coinVars, fileVars>>
  <2>1. DbTypes' /\ FileShapes' /\ ParentsFirst' /\ SizesGrow' /\ Sound'
    BY <1>1, <1>3, OnlyControl DEF histVars
  <2>2. Memory' /\ InHand'
    BY <1>1, <1>3 DEF FilesInv, Memory, InHand, coinVars, histVars
  <2>3. MemoryAhead'
    BY <1>1, <1>3, SameMemory DEF FilesInv, dbVars
  <2> QED BY <2>1, <2>2, <2>3 DEF FilesInv
<1> QED BY <1>2, <1>3 DEF DisconnectTip

-----------------------------------------------------------------------------
(* The theorem *)

LEMMA FilesInit == Init => FilesInv
PROOF
<1> SUFFICES ASSUME Init PROVE FilesInv
  OBVIOUS
<1>1. Databases = {db} /\ db = EmptyDb
  BY DEF Init, Databases
<1>2. /\ DbType(db) /\ Closed(db.index) /\ DOMAIN db.index = {} /\ Leads(db)
      /\ \A f \in Files : db.info[f] = NoInfo
  BY <1>1, EmptyDbFacts
<1>3. Memory
  BY Bounds, BlockFilesAssumption DEF Memory, Init
<1>4. DbTypes /\ ParentsFirst /\ AllLead
  BY <1>1, <1>2 DEF DbTypes, ParentsFirst, AllLead
<1>5. NoLess(NoInfo, NoInfo)
  BY Bounds, NoLessReflexive
<1>6. SizesGrow /\ MemoryAhead
  BY <1>1, <1>2, <1>5, Bounds DEF SizesGrow, MemoryAhead, Init
<1>7. FileShapes
  <2>1. Shape(Nothing) /\ InBounds(Nothing)
    BY DEF Shape, InBounds, Nothing
  <2> QED BY <2>1 DEF FileShapes, Init
<1>8. InHand /\ HandRecords /\ Scanned
  BY DEF Init, InHand, HandRecords, Scanned
<1> QED BY <1>3, <1>4, <1>6, <1>7, <1>8 DEF FilesInv, Sound

LEMMA FilesNext == FilesInv /\ [Next]_vars => FilesInv'
PROOF
<1> SUFFICES ASSUME FilesInv, [Next]_vars PROVE FilesInv'
  OBVIOUS
<1>1. ASSUME Activate PROVE FilesInv'
  BY <1>1, ActivateReturnsStep, TowardsStep, ConnectCorruptedStep, FindUndoPosStep, WriteUndoStep,
     WriteUndoPosStep, ReconnectBlockStep, ConnectTipStep, DisconnectTipStep DEF Activate
<1>2. CASE UNCHANGED vars
  <2>1. DbTypes' /\ ParentsFirst' /\ SizesGrow' /\ FileShapes'
    BY <1>2, SameDatabase, SameFiles DEF FilesInv, vars
  <2>2. Memory' /\ MemoryAhead' /\ InHand'
    BY <1>2 DEF FilesInv, Memory, MemoryAhead, InHand, HaveParent, mapBlockIndex,
                vars, memVars, dbVars, coinVars, histVars
  <2>3. ASSUME Undamaged' PROVE AllLead' /\ HandRecords' /\ Scanned'
    <3>1. /\ AllLead /\ HandRecords /\ Scanned /\ Databases' = Databases
          /\ UNCHANGED <<blk, rev, scan, cur, pc, db, nLastBlockFile, infoLastBlockFile>>
      BY <2>3, <1>2, Undamaged_Before DEF FilesInv, Sound, vars, memVars, dbVars, fileVars, histVars, Databases
    <3>2. AllLead'
      BY <3>1, <1>2, SameLeads DEF vars
    <3>3. HandRecords'
      BY <3>1, <1>2 DEF HandRecords, Unused, UnusedUndo, vars, dbVars
    <3>4. Scanned'
      <4>1. mapBlockIndex' = mapBlockIndex
        BY <1>2 DEF mapBlockIndex, vars, dbVars
      <4>2. FilesClean => FilesClean'
        BY <3>1 DEF FilesClean
      <4> QED BY <3>1, <4>1, <4>2 DEF Scanned, Passed, LastScanned, Behind, Before, Skipped
    <3> QED BY <3>2, <3>3, <3>4
  <2> QED BY <2>1, <2>2, <2>3 DEF FilesInv, Sound
<1>3. CASE Next
  BY <1>1, <1>3, FindBlockPosStep, WriteLastBlockFileStep, WriteBlockToDiskStep, AddToBlockIndexStep,
     LeaveInitialDownloadStep, KillStep, PowerLossStep, StartStep, ReindexStep, ReindexBlockStep,
     ReindexEndsStep DEF Next
<1> QED BY <1>2, <1>3

LEMMA FilesImplies == FilesInv => FilesReadable
PROOF
<1> SUFFICES ASSUME FilesInv PROVE FilesReadable
  OBVIOUS
<1>0. Memory /\ DbTypes /\ db \in Databases /\ DbType(db)
  BY DEF FilesInv, DbTypes, Databases
<1>1. \A b \in mapBlockIndex : db.index[b].at \in BlockPlace /\ db.index[b].at.pos \in 0..(MAX_BLOCKFILE_SIZE - 2)
  BY <1>0 DEF DbType, IndexType, EntryType, BlockPlace, mapBlockIndex
<1>2. \A d \in dbPast \cup {db} : DOMAIN d.index \subseteq Blocks /\ d.last \in Files
  BY <1>0 DEF DbTypes, DbType, IndexType, Databases
<1>3. TypeOK
  BY <1>0, <1>1, <1>2, InfoFacts DEF TypeOK, Memory
<1>4. Undamaged => Leads(db)
  BY <1>0 DEF FilesInv, Sound, AllLead
<1>5. IndexReadable
  BY <1>4 DEF IndexReadable, CanRead, CanUndo, Leads, LeadsToBlock, LeadsToUndo, mapBlockIndex
<1>6. SizesCover
  BY <1>4 DEF SizesCover, Leads, LeadsToBlock, LeadsToUndo, mapBlockIndex
<1> QED BY <1>3, <1>5, <1>6 DEF FilesReadable

\* Every entry of the index leads to its block and every nUndoPos to its undo data, and
\* the sizes FindBlockPos and FindUndoPos go by are not behind them, through changes of
\* file, kills, power losses after the initial download, starts and -reindex: for any
\* number of blocks, files and faults and any sizes (main.cpp, FindBlockPos,
\* WriteBlockToDisk, AddToBlockIndex, FindUndoPos, LoadExternalBlockFile).
THEOREM FilesAlwaysReadable == Spec => []FilesReadable
PROOF
<1>1. Init => FilesInv
  BY FilesInit
<1>2. FilesInv /\ [Next]_vars => FilesInv'
  BY FilesNext
<1>3. FilesInv => FilesReadable
  BY FilesImplies
<1> QED BY <1>1, <1>2, <1>3, PTL DEF Spec
=============================================================================
