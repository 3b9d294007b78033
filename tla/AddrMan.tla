------------------------------- MODULE AddrMan -------------------------------
(***************************************************************************)
(* The address manager (addrman.h, addrman.cpp): the "new" and "tried"     *)
(* buckets and the indexes over them.                                      *)
(*                                                                         *)
(* Every public operation holds cs, so it is one step.  The hashes that    *)
(* choose a bucket are constants.  nTime, nLastTry and nAttempts only      *)
(* decide which entry of a full new bucket goes and whether an Add of a    *)
(* known address is news; both are choices here, and Attempt and           *)
(* Connected, which write nothing else, are no steps.                      *)
(***************************************************************************)
EXTENDS Naturals, FiniteSets, Sequences, TLC, Functions, FiniteSetsExt, SequencesExt

CONSTANTS
    Services, Hosts,    \* CService and CNetAddr
    HostOf,             \* service -> its address without the port
    Sources,
    NewBuckets, TriedBuckets,
    NewBucket,          \* <<host, source>> -> GetNewBucket
    TriedBucket,        \* service -> GetTriedBucket
    ADDRMAN_NEW_BUCKET_SIZE, ADDRMAN_TRIED_BUCKET_SIZE,
    ADDRMAN_NEW_BUCKETS_PER_ADDRESS, ADDRMAN_TRIED_ENTRIES_INSPECT_ON_EVICT,
    ADDRMAN_GETADDR_MAX_PCT,
    Times,              \* values of the adjusted time, which need not be monotonic
    MaxIds              \* bound: ids between two restarts

AddrManAssumption ==
    /\ HostOf \in [Services -> Hosts]
    /\ NewBucket \in [Hosts \X Sources -> NewBuckets]
    /\ TriedBucket \in [Services -> TriedBuckets]
    /\ ADDRMAN_NEW_BUCKET_SIZE \in Nat \ {0} /\ ADDRMAN_TRIED_BUCKET_SIZE \in Nat \ {0}
    /\ ADDRMAN_NEW_BUCKETS_PER_ADDRESS \in Nat \ {0}
    /\ ADDRMAN_TRIED_ENTRIES_INSPECT_ON_EVICT \in Nat \ {0}
    /\ ADDRMAN_GETADDR_MAX_PCT \in 0..100 /\ MaxIds \in Nat /\ Times \subseteq Nat \ {0}

VARIABLE addrman \* the object, a record of its fields

Ids(am) == DOMAIN am.mapInfo

Init ==
    addrman = [mapInfo |-> <<>>, mapAddr |-> <<>>, vRandom |-> <<>>, nIdCount |-> 0,
               vvNew |-> [b \in NewBuckets |-> {}], vvTried |-> [b \in TriedBuckets |-> <<>>],
               nNew |-> 0, nTried |-> 0]
-----------------------------------------------------------------------------
(* The tables.  Positions count from 1. *)

\* f with f[x] = y, as the [] of std::map makes it.
Put(f, x, y) == (x :> y) @@ f
Drop(f, x) == Restrict(f, DOMAIN f \ {x})

\* The entry Create makes; its id is nIdCount.
NewEntry(am, s, source) ==
    [service |-> s, source |-> source, nRefCount |-> 0, fInTried |-> FALSE,
     nRandomPos |-> Len(am.vRandom) + 1, nLastSuccess |-> 0]

Create(am, s, source) ==
    [am EXCEPT !.nIdCount = @ + 1,
               !.mapInfo = Put(@, am.nIdCount, NewEntry(am, s, source)),
               !.mapAddr = Put(@, HostOf[s], am.nIdCount),
               !.vRandom = Append(@, am.nIdCount)]

SwapRandom(am, i, j) ==
    [am EXCEPT !.vRandom = [@ EXCEPT ![i] = am.vRandom[j], ![j] = am.vRandom[i]],
               !.mapInfo = [@ EXCEPT ![am.vRandom[i]].nRandomPos = j,
                                     ![am.vRandom[j]].nRandomPos = i]]

\* An entry without references is deleted.
Delete(am, n) ==
    LET swapped == SwapRandom(am, am.mapInfo[n].nRandomPos, Len(am.vRandom))
    IN [swapped EXCEPT !.vRandom = Front(@),
                       !.mapAddr = Drop(@, HostOf[am.mapInfo[n].service]),
                       !.mapInfo = Drop(@, n),
                       !.nNew = @ - 1]

\* One reference fewer.
Released(am, n) ==
    IF am.mapInfo[n].nRefCount = 1
    THEN Delete([am EXCEPT !.mapInfo[n].nRefCount = 0], n)
    ELSE [am EXCEPT !.mapInfo[n].nRefCount = @ - 1]

\* ShrinkNew: the first terrible entry, or the oldest of four drawn at random.
ShrinkNew(am, b) ==
    {Released([am EXCEPT !.vvNew[b] = @ \ {n}], n) : n \in am.vvNew[b]}

\* The end of Add_: a further reference, from the bucket of this source.
AddReference(am, n, source) ==
    LET b == NewBucket[HostOf[am.mapInfo[n].service], source]
        counted == [am EXCEPT !.mapInfo[n].nRefCount = @ + 1]
        room == IF Cardinality(am.vvNew[b]) = ADDRMAN_NEW_BUCKET_SIZE
                THEN ShrinkNew(counted, b) ELSE {counted}
    IN IF n \in am.vvNew[b] THEN {am} ELSE {[x EXCEPT !.vvNew[b] = @ \cup {n}] : x \in room}
-----------------------------------------------------------------------------
(* SelectTried: Fisher-Yates over the first entries, and the least recently *)
(* tried among them                                                          *)

\* draws: the positions GetRandInt picks, one for each entry inspected.
Inspected(vTried) ==
    1..Min({ADDRMAN_TRIED_ENTRIES_INSPECT_ON_EVICT, Len(vTried)})
Draws(vTried) == {r \in [Inspected(vTried) -> 1..Len(vTried)] : \A i \in DOMAIN r : r[i] >= i}

\* The loop; pos is nOldestPos.
SelectTried(am, vTried, draws) ==
    LET at[i \in {0} \cup DOMAIN draws] ==
            IF i = 0 THEN [v |-> vTried, oldest |-> 0, pos |-> 0]
            ELSE LET was == at[i - 1]
                     nTemp == was.v[draws[i]]
                     v == [was.v EXCEPT ![draws[i]] = was.v[i], ![i] = nTemp]
                     older == \/ was.pos = 0
                              \/ am.mapInfo[nTemp].nLastSuccess
                                    < am.mapInfo[was.oldest].nLastSuccess
                 IN IF older THEN [v |-> v, oldest |-> nTemp, pos |-> draws[i]]
                    ELSE [was EXCEPT !.v = v]
    IN at[Cardinality(DOMAIN draws)]
-----------------------------------------------------------------------------
(* MakeTried and Good_ *)

Taken(am, n) ==
    [am EXCEPT !.vvNew = [b \in NewBuckets |-> am.vvNew[b] \ {n}],
               !.mapInfo[n].nRefCount = 0, !.mapInfo[n].fInTried = TRUE,
               !.nNew = @ - 1]

\* The new bucket an evicted entry goes back to.
BackTo(am, old, nOrigin) ==
    LET b == NewBucket[HostOf[am.mapInfo[old].service], am.mapInfo[old].source]
    IN IF Cardinality(am.vvNew[b]) < ADDRMAN_NEW_BUCKET_SIZE THEN b ELSE nOrigin

\* Mutant of Evicted: the entry is not put into a new bucket.
Evicted_Lost(am, old, nOrigin) ==
    [am EXCEPT !.mapInfo[old].fInTried = FALSE, !.mapInfo[old].nRefCount = 1, !.nNew = @ + 1]

Evicted(am, old, nOrigin) ==
    [am EXCEPT !.mapInfo[old].fInTried = FALSE, !.mapInfo[old].nRefCount = 1,
               !.vvNew[BackTo(am, old, nOrigin)] = @ \cup {old},
               !.nNew = @ + 1]

\* The possible results of MakeTried.
MakeTried(am, n, nOrigin) ==
    LET k == TriedBucket[am.mapInfo[n].service]
        taken == Taken(am, n)
        Evicting(sel) ==
            [Evicted([taken EXCEPT !.vvTried[k] = sel.v], sel.v[sel.pos], nOrigin)
                EXCEPT !.vvTried[k][sel.pos] = n]
    IN IF Len(am.vvTried[k]) < ADDRMAN_TRIED_BUCKET_SIZE
       THEN {[taken EXCEPT !.vvTried[k] = Append(@, n), !.nTried = @ + 1]}
       ELSE {Evicting(SelectTried(taken, am.vvTried[k], r)) : r \in Draws(am.vvTried[k])}
-----------------------------------------------------------------------------
(* The operations *)

\* Add_ of an address that is not known.
AddNew(s, source) ==
    /\ HostOf[s] \notin DOMAIN addrman.mapAddr /\ addrman.nIdCount < MaxIds
    /\ LET created == [Create(addrman, s, source) EXCEPT !.nNew = @ + 1]
       IN addrman' \in AddReference(created, addrman.nIdCount, source)

\* The early returns of Add_ for a known address; the last one is a draw.
MayAdd(info) == ~info.fInTried /\ info.nRefCount # ADDRMAN_NEW_BUCKETS_PER_ADDRESS

\* Add_ of a known address, with a later nTime.
AddKnown(s, source) ==
    /\ HostOf[s] \in DOMAIN addrman.mapAddr
    /\ LET n == addrman.mapAddr[HostOf[s]]
       IN MayAdd(addrman.mapInfo[n]) /\ addrman' \in AddReference(addrman, n, source)

\* Good_.
Good(s, nTime) ==
    /\ HostOf[s] \in DOMAIN addrman.mapAddr
    /\ LET n == addrman.mapAddr[HostOf[s]]
           touched == [addrman EXCEPT !.mapInfo[n].nLastSuccess = nTime]
       IN /\ addrman.mapInfo[n].service = s
          /\ IF addrman.mapInfo[n].fInTried THEN addrman' = touched
             ELSE \E nOrigin \in {b \in NewBuckets : n \in addrman.vvNew[b]} :
                     addrman' \in MakeTried(touched, n, nOrigin)

\* GetAddr_: a random shuffle of the first entries of vRandom.
GetAddr ==
    LET nNodes == (ADDRMAN_GETADDR_MAX_PCT * Len(addrman.vRandom)) \div 100
    IN \E r \in [1..nNodes -> DOMAIN addrman.vRandom] :
          /\ \A i \in DOMAIN r : r[i] >= i
          /\ addrman' = FoldLeftDomain(LAMBDA am, i : SwapRandom(am, i, r[i]), addrman, r)

-----------------------------------------------------------------------------
(* peers.dat: the entries of mapInfo in the order of their ids, the new ones *)
(* first; the buckets of new entries as indexes.  A crash brings back an     *)
(* older file, and so a state this step reaches from an earlier one.         *)

InOrder(S) == SetToSortSeq(S, <)
NewIds(am) == {n \in Ids(am) : am.mapInfo[n].nRefCount # 0}
TriedIds(am) == {n \in Ids(am) : am.mapInfo[n].fInTried}

\* Mutant of mapUnkIds: indexes are given in another order than entries are written.
mapUnkIds_Order(am, n) == Cardinality({x \in NewIds(am) : x > n}) + 1

\* The index of a new entry in the file.
mapUnkIds(am, n) == Cardinality({x \in NewIds(am) : x < n}) + 1

Saved(am) ==
    LET order == InOrder(NewIds(am)) \o InOrder(TriedIds(am))
        Entry(n) == [service |-> am.mapInfo[n].service, source |-> am.mapInfo[n].source,
                     nLastSuccess |-> am.mapInfo[n].nLastSuccess]
    IN [nNew |-> am.nNew, entries |-> [i \in DOMAIN order |-> Entry(order[i])],
        vvNew |-> [b \in NewBuckets |-> {mapUnkIds(am, n) : n \in am.vvNew[b]}]]

\* Entry i of the file is a tried one that finds its bucket full.
Lost(file, i) ==
    i > file.nNew /\ ADDRMAN_TRIED_BUCKET_SIZE <= Cardinality({j \in DOMAIN file.entries : j < i /\ j > file.nNew
        /\ TriedBucket[file.entries[j].service] = TriedBucket[file.entries[i].service]})

\* Reading it back: ids in the order of the file, references and tried buckets
\* rebuilt (no entry has more references than a load takes: BucketsBounded).
Loaded(file) ==
    LET kept == SelectSeq([i \in DOMAIN file.entries |-> i], LAMBDA i : ~Lost(file, i))
        all == 0..(Len(kept) - 1)
        Entry(n) == file.entries[kept[n + 1]]
    IN [nIdCount |-> Len(kept), nNew |-> file.nNew, nTried |-> Len(kept) - file.nNew,
        mapInfo |-> [n \in all |->
            [service |-> Entry(n).service, source |-> Entry(n).source,
             nRefCount |-> Cardinality({b \in NewBuckets : n + 1 \in file.vvNew[b]}),
             fInTried |-> n >= file.nNew,
             nRandomPos |-> n + 1, nLastSuccess |-> Entry(n).nLastSuccess]],
        mapAddr |-> [h \in {HostOf[Entry(n).service] : n \in all} |->
                        Max({n \in all : HostOf[Entry(n).service] = h})],
        vRandom |-> [i \in DOMAIN kept |-> i - 1],
        vvNew |-> [b \in NewBuckets |-> {i - 1 : i \in file.vvNew[b]}],
        vvTried |-> [k \in TriedBuckets |->
                        SelectSeq([i \in 1..(Len(kept) - file.nNew) |-> file.nNew + i - 1],
                                  LAMBDA n : TriedBucket[Entry(n).service] = k)]]

\* DumpAddresses, the end of the process and the next start.
Restart == addrman' = Loaded(Saved(addrman))
-----------------------------------------------------------------------------
Next ==
    \/ \E s \in Services, source \in Sources : AddNew(s, source) \/ AddKnown(s, source)
    \/ \E s \in Services, nTime \in Times : Good(s, nTime)
    \/ GetAddr \/ Restart

Spec == Init /\ [][Next]_addrman
-----------------------------------------------------------------------------
(* Properties *)

TypeOK ==
    /\ addrman.nIdCount \in 0..MaxIds /\ Ids(addrman) \subseteq 0..(addrman.nIdCount - 1)
    /\ \A n \in Ids(addrman) :
          /\ addrman.mapInfo[n].service \in Services /\ addrman.mapInfo[n].source \in Sources
          /\ addrman.mapInfo[n].nLastSuccess \in Times \cup {0}
    /\ DOMAIN addrman.mapAddr \subseteq Hosts
    /\ addrman.vvNew \in [NewBuckets -> SUBSET Ids(addrman)]
    /\ addrman.vvTried \in [TriedBuckets -> Seq(Ids(addrman))]

\* What Check_ looks at in the tables (codes -1 to -4 and -9 to -15): an entry is in
\* the tried table once and in no new bucket, or in as many new buckets as it has
\* references; nTried and nNew count them.
TablesConsistent ==
    LET InTried(n) == {<<k, i>> \in TriedBuckets \X (1..ADDRMAN_TRIED_BUCKET_SIZE) :
                          i <= Len(addrman.vvTried[k]) /\ addrman.vvTried[k][i] = n}
        InNew(n) == {b \in NewBuckets : n \in addrman.vvNew[b]}
        tried == TriedIds(addrman)
    IN /\ addrman.nTried = Cardinality(tried) /\ addrman.nNew = Cardinality(Ids(addrman) \ tried)
       /\ \A n \in Ids(addrman) : addrman.mapInfo[n].nRefCount = Cardinality(InNew(n))
       /\ \A n \in tried :
             /\ addrman.mapInfo[n].nLastSuccess # 0 /\ InNew(n) = {} /\ Cardinality(InTried(n)) = 1
       /\ \A n \in Ids(addrman) \ tried : InNew(n) # {} /\ InTried(n) = {}

\* The indexes over the tables (codes -5, -7 and -14): mapAddr and vRandom name every
\* entry exactly once, and an entry knows its place.
IndexesConsistent ==
    /\ Len(addrman.vRandom) = addrman.nTried + addrman.nNew
    /\ \A n \in Ids(addrman) :
          LET info == addrman.mapInfo[n] IN
          /\ HostOf[info.service] \in DOMAIN addrman.mapAddr
          /\ addrman.mapAddr[HostOf[info.service]] = n
          /\ info.nRandomPos \in DOMAIN addrman.vRandom /\ addrman.vRandom[info.nRandomPos] = n
    /\ Range(addrman.mapAddr) = Ids(addrman) /\ Range(addrman.vRandom) = Ids(addrman)

\* No bucket outgrows its size, not even the one an evicted tried entry goes back to
\* ("there is certainly place there"), and no address takes more buckets than allowed.
BucketsBounded ==
    /\ \A b \in NewBuckets : Cardinality(addrman.vvNew[b]) <= ADDRMAN_NEW_BUCKET_SIZE
    /\ \A k \in TriedBuckets : Len(addrman.vvTried[k]) <= ADDRMAN_TRIED_BUCKET_SIZE
ReferencesBounded ==
    \A n \in Ids(addrman) :
        Cardinality({b \in NewBuckets : n \in addrman.vvNew[b]}) <= ADDRMAN_NEW_BUCKETS_PER_ADDRESS

\* Select_ draws buckets until it meets one with an entry: whichever table the
\* counters make it look at has one, or the loop never ends, under cs.
SelectEnds ==
    /\ addrman.nTried > 0 => \E k \in TriedBuckets : addrman.vvTried[k] # <<>>
    /\ Len(addrman.vRandom) > 0 /\ addrman.nTried = 0 => \E b \in NewBuckets : addrman.vvNew[b] # {}
    /\ addrman.nNew > 0 => \E b \in NewBuckets : addrman.vvNew[b] # {}

Known(am) == {am.mapInfo[n].service : n \in Ids(am)}
Tried(am) == {am.mapInfo[n].service : n \in TriedIds(am)}
InBucket(am, b) == {am.mapInfo[n].service : n \in am.vvNew[b]}

\* Entries "are never deleted while in the tried table, only possibly evicted back to
\* the new table", by no operation and by no restart.
TriedNeverDeleted == [][Tried(addrman) \subseteq Known(addrman')]_addrman

\* A restart keeps every entry in its table and in its new buckets.
RestartPreserves ==
    [][Restart => /\ Tried(addrman') = Tried(addrman)
                  /\ \A b \in NewBuckets : InBucket(addrman', b) = InBucket(addrman, b)]_addrman

\* "find the least recently tried among them": where a bucket is no larger than the
\* sample, the entry Good evicts is one of those with the earliest success.
\* The code does not keep this (README, section 4).
EvictsLeastRecentlyTried ==
    [][\A n \in TriedIds(addrman) :
          (\E s \in Services, nTime \in Times : Good(s, nTime)) /\ n \in Ids(addrman') /\ ~addrman'.mapInfo[n].fInTried =>
             LET k == TriedBucket[addrman.mapInfo[n].service]
             IN \A m \in Range(addrman.vvTried[k]) :
                   addrman.mapInfo[n].nLastSuccess <= addrman.mapInfo[m].nLastSuccess]_addrman
=============================================================================
