---------------------------- MODULE OrphanTxProofs ----------------------------
(***************************************************************************)
(* Proofs about OrphanTx, for any transactions, peers and limit.           *)
(*                                                                         *)
(* Between two messages every orphan waits for something (Resolved)        *)
(* because inside the loop each orphan that is not on the erase queue is   *)
(* still to be looked at, or waits for something that is missing, came     *)
(* unnoticed, or stands further down in vWorkQueue (Pending).  Only guilty *)
(* peers are punished because an invalid orphan belongs to one (Owed).     *)
(***************************************************************************)
EXTENDS OrphanTx, FiniteSetTheorems, TLAPS

Typed == TypeOK /\ todo \subseteq Orphans

\* The orphans are within the limit at all times.
Limited == IsFiniteSet(Orphans) /\ Cardinality(Orphans) <= MaxOrphanTx

\* The work queue has an entry while the loop runs, and nothing is left over after it.
LoopState ==
    /\ pc = "orphans" => vWorkQueue # <<>>
    /\ pc = "idle" => todo = {} /\ vEraseQueue = {}

\* What an orphan may wait for: a transaction that is missing or came unnoticed, ...
Absent(x) == ~HaveCoins(x) \/ x \in unnoticed

\* ... or one whose turn is still to come.
Queued(x) == \E i \in 2..Len(vWorkQueue) : vWorkQueue[i] = x

Waits(t) == \E x \in Parents[t] : Absent(x) \/ (pc = "orphans" /\ Queued(x))

Pending == \A t \in Orphans : t \in todo \/ t \in vEraseQueue \/ Waits(t)

\* The peer of an invalid orphan has sent it.
Owed == \A t \in Orphans : t \in Invalid => mapOrphanTransactions[t] \in guilty

IInv ==
    /\ Typed /\ MapsAgree /\ Limited /\ OrphansOwned
    /\ LoopState /\ Pending /\ Owed /\ OnlyGuiltyPunished

-----------------------------------------------------------------------------
(* The maps *)

\* The value of a map of sets, and nothing for what it does not have.
At(m, x) == IF x \in DOMAIN m THEN m[x] ELSE {}

NoneEmpty(m) == \A x \in DOMAIN m : m[x] # {}

\* Without removes the entries of a set and leaves the others.
LEMMA WithoutEntries ==
  ASSUME NEW f, NEW S
  PROVE  /\ DOMAIN Without(f, S) = DOMAIN f \ S
         /\ \A x \in DOMAIN f \ S : Without(f, S)[x] = f[x]
  BY DEF Without

\* EraseOrphanTx takes the orphans out of every set, and drops a set that gets empty.
LEMMA ByPrevWithoutEntries ==
  ASSUME NEW m, NEW S
  PROVE  /\ DOMAIN ByPrevWithout(m, S) \subseteq DOMAIN m
         /\ NoneEmpty(ByPrevWithout(m, S))
         /\ \A x : At(ByPrevWithout(m, S), x) = At(m, x) \ S
<1> DEFINE new == [x \in DOMAIN m |-> m[x] \ S]
           D == {y \in DOMAIN new : new[y] # {}}
<1>1. ByPrevWithout(m, S) = [x \in D |-> new[x]]
  BY DEF ByPrevWithout
<1>2. D = {y \in DOMAIN m : m[y] \ S # {}}
  OBVIOUS
<1>3. DOMAIN ByPrevWithout(m, S) = D
  BY <1>1
<1>4. \A x \in D : ByPrevWithout(m, S)[x] = m[x] \ S
  BY <1>1, <1>2
<1> HIDE DEF D, new
<1>5. NoneEmpty(ByPrevWithout(m, S))
  BY <1>2, <1>3, <1>4 DEF NoneEmpty
<1>6. ASSUME NEW x
      PROVE  At(ByPrevWithout(m, S), x) = At(m, x) \ S
  <2>1. CASE x \in D
    BY <1>2, <1>3, <1>4, <2>1 DEF At
  <2>2. CASE x \notin D /\ x \in DOMAIN m
    BY <1>2, <1>3, <2>2 DEF At
  <2>3. CASE x \notin DOMAIN m
    BY <1>2, <1>3, <2>3 DEF At
  <2> QED BY <2>1, <2>2, <2>3
<1> QED BY <1>2, <1>3, <1>5, <1>6

\* Stored adds one entry and leaves the others.
LEMMA StoredEntries ==
  ASSUME NEW t, NEW p
  PROVE  /\ DOMAIN Stored(t, p) = Orphans \cup {t}
         /\ Stored(t, p)[t] = p
         /\ \A x \in Orphans \ {t} : Stored(t, p)[x] = mapOrphanTransactions[x]
  BY DEF Stored

\* MapsAgree in terms of At.
LEMMA AgreeAt ==
  MapsAgree <=>
    /\ \A x \in Txs : At(mapOrphanTransactionsByPrev, x) = {t \in Orphans : x \in Parents[t]}
    /\ NoneEmpty(mapOrphanTransactionsByPrev)
  BY DEF MapsAgree, Waiting, At, NoneEmpty

\* The same for the next state.
LEMMA AgreeAtNext ==
  MapsAgree' <=>
    /\ \A x \in Txs : At(mapOrphanTransactionsByPrev', x) = {t \in Orphans' : x \in Parents[t]}
    /\ NoneEmpty(mapOrphanTransactionsByPrev')
  BY DEF MapsAgree, Waiting, At, NoneEmpty

-----------------------------------------------------------------------------
(* Steps on the maps *)

\* Erasing orphans leaves the maps inverse to each other, and each orphan that is left with
\* its peer.
LEMMA EraseStep ==
  ASSUME OrphanAssumption, Typed, MapsAgree, Limited, NEW S, EraseOrphans(S)
  PROVE  /\ Orphans' = Orphans \ S
         /\ \A t \in Orphans' : mapOrphanTransactions'[t] = mapOrphanTransactions[t]
         /\ DOMAIN mapOrphanTransactionsByPrev' \subseteq Txs
         /\ MapsAgree' /\ Limited'
<1> DEFINE prev == mapOrphanTransactionsByPrev
<1>1. mapOrphanTransactions' = Without(mapOrphanTransactions, S) /\ prev' = ByPrevWithout(prev, S \cap Orphans)
  BY DEF EraseOrphans
<1>2. Orphans' = Orphans \ S
  BY <1>1, WithoutEntries DEF Orphans
<1>3. \A t \in Orphans' : mapOrphanTransactions'[t] = mapOrphanTransactions[t]
  BY <1>1, <1>2, WithoutEntries DEF Orphans
<1>4. DOMAIN prev' \subseteq DOMAIN prev /\ NoneEmpty(prev')
  BY <1>1, ByPrevWithoutEntries
<1>5. \A x \in Txs : At(prev', x) = {t \in Orphans' : x \in Parents[t]}
  <2> TAKE x \in Txs
  <2>1. At(prev', x) = At(prev, x) \ (S \cap Orphans)
    BY <1>1, ByPrevWithoutEntries
  <2>2. At(prev, x) = {t \in Orphans : x \in Parents[t]}
    BY AgreeAt
  <2> QED BY <1>2, <2>1, <2>2
<1>6. MapsAgree'
  BY <1>4, <1>5, AgreeAtNext
<1>7. DOMAIN prev' \subseteq Txs
  BY <1>4 DEF Typed, TypeOK
<1>8. Limited'
  <2>1. Orphans' \subseteq Orphans
    BY <1>2
  <2>2. IsFiniteSet(Orphans') /\ Cardinality(Orphans') <= Cardinality(Orphans)
    BY <2>1, FS_Subset DEF Limited
  <2>3. Cardinality(Orphans) \in Nat /\ Cardinality(Orphans') \in Nat /\ MaxOrphanTx \in Nat
    BY <2>2, FS_CardinalityType DEF Limited, OrphanAssumption
  <2> QED BY <2>2, <2>3 DEF Limited
<1> QED BY <1>2, <1>3, <1>6, <1>7, <1>8

\* So does adding one, with any eviction; and the limit holds again.
LEMMA AddStep ==
  ASSUME OrphanAssumption, Typed, MapsAgree, Limited, NEW t \in Txs, NEW p \in Peers, AddOrphanTx(t, p)
  PROVE  /\ Orphans' \subseteq Orphans \cup {t}
         /\ \A u \in Orphans' : mapOrphanTransactions'[u] = IF u = t THEN p ELSE mapOrphanTransactions[u]
         /\ DOMAIN mapOrphanTransactionsByPrev' \subseteq Txs
         /\ MapsAgree' /\ Limited'
<1> DEFINE prev == mapOrphanTransactionsByPrev
           new == Stored(t, p)
           more == [x \in DOMAIN prev \cup Parents[t] |-> Waiting(x) \cup (IF x \in Parents[t] THEN {t} ELSE {})]
<1>1. PICK evicted \in SUBSET DOMAIN new :
         /\ Fits(DOMAIN new \ evicted)
         /\ mapOrphanTransactions' = Without(new, evicted)
         /\ prev' = ByPrevWithout(more, evicted)
  BY DEF AddOrphanTx
<1>2. DOMAIN new = Orphans \cup {t} /\ new[t] = p /\ \A x \in Orphans \ {t} : new[x] = mapOrphanTransactions[x]
  BY StoredEntries
<1>3. DOMAIN more = DOMAIN prev \cup Parents[t]
  OBVIOUS
<1>4. \A x : At(more, x) = At(prev, x) \cup (IF x \in Parents[t] THEN {t} ELSE {})
  <2> TAKE x
  <2>1. CASE x \in DOMAIN more
    BY <2>1 DEF At, Waiting
  <2>2. CASE x \notin DOMAIN more
    BY <2>2 DEF At
  <2> QED BY <2>1, <2>2
<1> HIDE DEF new, more
<1>5. Orphans' = (Orphans \cup {t}) \ evicted
  BY <1>1, <1>2, WithoutEntries DEF Orphans
<1>6. \A u \in Orphans' : mapOrphanTransactions'[u] = new[u]
  <2>1. \A u \in DOMAIN new \ evicted : Without(new, evicted)[u] = new[u]
    BY WithoutEntries
  <2>2. Orphans' = DOMAIN new \ evicted
    BY <1>2, <1>5
  <2> QED BY <1>1, <2>1, <2>2
<1>7. \A u \in Orphans' : mapOrphanTransactions'[u] = IF u = t THEN p ELSE mapOrphanTransactions[u]
  BY <1>2, <1>5, <1>6
<1>8. DOMAIN prev' \subseteq DOMAIN more /\ NoneEmpty(prev')
  BY <1>1, ByPrevWithoutEntries
<1>9. \A x \in Txs : At(prev', x) = {u \in Orphans' : x \in Parents[u]}
  <2> TAKE x \in Txs
  <2>1. At(prev', x) = At(more, x) \ evicted
    BY <1>1, ByPrevWithoutEntries
  <2>2. At(prev, x) = {u \in Orphans : x \in Parents[u]}
    BY AgreeAt
  <2>3. At(more, x) = {u \in Orphans \cup {t} : x \in Parents[u]}
    BY <1>4, <2>2
  <2> QED BY <1>5, <2>1, <2>3
<1>10. MapsAgree'
  BY <1>8, <1>9, AgreeAtNext
<1>11. DOMAIN prev' \subseteq Txs
  BY <1>3, <1>8 DEF Typed, TypeOK, OrphanAssumption
<1>12. Limited'
  <2>1. IsFiniteSet(Orphans \cup {t})
    BY FS_AddElement DEF Limited
  <2>2. IsFiniteSet(Orphans')
    BY <1>5, <2>1, FS_Subset
  <2> QED BY <1>1, <1>2, <1>5, <2>2 DEF Limited, Fits
<1> QED BY <1>5, <1>7, <1>10, <1>11, <1>12

\* Steps that leave the maps alone keep what is said of them.
LEMMA MapsUnchanged ==
  ASSUME MapsAgree, Limited, UNCHANGED orphanVars
  PROVE  MapsAgree' /\ Limited' /\ Orphans' = Orphans
<1>1. Orphans' = Orphans
  BY DEF Orphans, orphanVars
<1> QED BY <1>1, AgreeAt, AgreeAtNext DEF Limited, orphanVars

-----------------------------------------------------------------------------
(* The inductive invariant *)

\* What a step keeps of Pending outside the loop, for orphans there were before.
LEMMA StillWaits ==
  ASSUME IInv, pc = "idle", NEW t \in Orphans, \A x \in Parents[t] : Absent(x) => Absent(x)'
  PROVE  Waits(t)'
<1>1. PICK x \in Parents[t] : Absent(x)
  BY DEF IInv, Pending, LoopState, Waits
<1> QED BY <1>1 DEF Waits

\* The initial state satisfies the inductive invariant.
LEMMA InitIInv == ASSUME OrphanAssumption, Init PROVE IInv
<1>1. Orphans = {} /\ DOMAIN mapOrphanTransactionsByPrev = {}
  BY DEF Init, Orphans
<1>2. Typed
  BY <1>1 DEF Init, Typed, TypeOK
<1>3. MapsAgree
  BY <1>1, AgreeAt DEF At, NoneEmpty
<1>4. Limited
  BY <1>1, FS_EmptySet DEF Limited, OrphanAssumption
<1> QED BY <1>1, <1>2, <1>3, <1>4
     DEF Init, IInv, OrphansOwned, LoopState, Pending, Owed, OnlyGuiltyPunished

\* FinalizeNode takes a peer's orphans with it.
LEMMA StepDisconnect == ASSUME OrphanAssumption, IInv, NEW p \in Peers, Disconnect(p) PROVE IInv'
<1>0. pc = "idle" /\ nodes' = nodes \ {p} /\ UNCHANGED <<pool, chain, callVars, histVars>>
  BY DEF Disconnect
<1>1. /\ Orphans' = Orphans \ OrphansOf(p)
      /\ \A t \in Orphans' : mapOrphanTransactions'[t] = mapOrphanTransactions[t]
      /\ DOMAIN mapOrphanTransactionsByPrev' \subseteq Txs
      /\ MapsAgree' /\ Limited'
  BY EraseStep DEF Disconnect, IInv
<1>2. todo = {} /\ vEraseQueue = {}
  BY <1>0 DEF IInv, LoopState
<1>3. Typed'
  <2>1. Orphans' \subseteq Txs /\ \A t \in Orphans' : mapOrphanTransactions'[t] \in Peers
    BY <1>1 DEF IInv, Typed, TypeOK
  <2>2. \A x \in DOMAIN mapOrphanTransactionsByPrev' : mapOrphanTransactionsByPrev'[x] \subseteq Txs
    BY <1>1, <2>1, AgreeAtNext DEF At
  <2> QED BY <1>0, <1>1, <1>2, <2>1, <2>2 DEF IInv, Typed, TypeOK, callVars
<1>4. OrphansOwned'
  BY <1>0, <1>1 DEF IInv, OrphansOwned, OrphansOf
<1>5. Pending'
  <2>1. \A x : Absent(x) => Absent(x)'
    BY <1>0 DEF Absent, HaveCoins, histVars
  <2> QED BY <1>0, <1>1, <2>1, StillWaits DEF Pending
<1>6. LoopState' /\ Owed' /\ OnlyGuiltyPunished'
  BY <1>0, <1>1 DEF IInv, LoopState, Owed, OnlyGuiltyPunished, callVars, histVars
<1> QED BY <1>1, <1>3, <1>4, <1>5, <1>6 DEF IInv

\* Steps outside the loop that leave the orphans alone and take no coins away unnoticed.
LEMMA StepAside ==
  ASSUME OrphanAssumption, IInv, pc = "idle", UNCHANGED <<orphanVars, callVars>>,
         nodes \subseteq nodes', nodes' \subseteq Peers, pool' \subseteq Txs, chain' \subseteq Txs,
         guilty \subseteq guilty', punished' \subseteq guilty',
         \A x : Absent(x) => Absent(x)'
  PROVE  IInv'
<1>1. MapsAgree' /\ Limited' /\ Orphans' = Orphans
  BY MapsUnchanged DEF IInv
<1>2. Typed'
  BY <1>1 DEF IInv, Typed, TypeOK, orphanVars, callVars
<1>3. Pending'
  BY <1>1, StillWaits DEF Pending
<1>4. OrphansOwned' /\ Owed'
  BY <1>1 DEF IInv, OrphansOwned, Owed, orphanVars
<1>5. LoopState'
  BY DEF IInv, LoopState, callVars
<1> QED BY <1>1, <1>2, <1>3, <1>4, <1>5 DEF IInv, OnlyGuiltyPunished

\* Peers that connect, transactions of the wallet and of blocks, and refused ones.
LEMMA StepConnect == ASSUME OrphanAssumption, IInv, NEW p \in Peers, Connect(p) PROVE IInv'
<1>1. \A x : Absent(x) => Absent(x)'
  BY DEF Connect, Absent, HaveCoins, histVars
<1> QED BY <1>1, StepAside DEF Connect, IInv, Typed, TypeOK, OnlyGuiltyPunished, histVars

LEMMA StepLocalTx == ASSUME OrphanAssumption, IInv, NEW t \in Txs, LocalTx(t) PROVE IInv'
<1>1. \A x : Absent(x) => Absent(x)'
  BY DEF LocalTx, Absent, HaveCoins
<1> QED BY <1>1, StepAside DEF LocalTx, IInv, Typed, TypeOK, OnlyGuiltyPunished

LEMMA StepBlockTx == ASSUME OrphanAssumption, IInv, NEW t \in Txs, BlockTx(t) PROVE IInv'
<1>1. \A x : Absent(x) => Absent(x)'
  BY DEF BlockTx, Absent, HaveCoins
<1> QED BY <1>1, StepAside DEF BlockTx, IInv, Typed, TypeOK, OnlyGuiltyPunished

LEMMA StepTxInvalid ==
  ASSUME OrphanAssumption, IInv, NEW p \in Peers, NEW t \in Txs, TxInvalid(p, t) PROVE IInv'
<1>1. \A x : Absent(x) => Absent(x)'
  BY DEF TxInvalid, Absent, HaveCoins
<1>2. guilty' = guilty \cup {p} /\ punished' = punished \cup {p}
  BY DEF TxInvalid, Sent
<1> QED BY <1>1, <1>2, StepAside DEF TxInvalid, IInv, Typed, TypeOK, OnlyGuiltyPunished

\* An orphan is stored with its peer, which is guilty if the orphan is invalid, while one of
\* its inputs is missing.
LEMMA StepTxMissingInputs ==
  ASSUME OrphanAssumption, IInv, NEW p \in Peers, NEW t \in Txs, TxMissingInputs(p, t) PROVE IInv'
<1>0. /\ pc = "idle" /\ p \in nodes /\ MissingInputs(t) /\ Sent(p, t)
      /\ UNCHANGED <<nodes, pool, chain, callVars, punished, unnoticed>>
  BY DEF TxMissingInputs
<1>1. guilty \subseteq guilty' /\ (t \in Invalid => p \in guilty')
  BY <1>0 DEF Sent
<1>2. \A x : Absent(x) => Absent(x)'
  BY <1>0 DEF Absent, HaveCoins
<1>3. CASE UNCHANGED orphanVars
  BY <1>0, <1>1, <1>2, <1>3, StepAside DEF IInv, Typed, TypeOK, OnlyGuiltyPunished
<1>4. CASE AddOrphanTx(t, p)
  <2>1. /\ Orphans' \subseteq Orphans \cup {t}
        /\ \A u \in Orphans' : mapOrphanTransactions'[u] = IF u = t THEN p ELSE mapOrphanTransactions[u]
        /\ DOMAIN mapOrphanTransactionsByPrev' \subseteq Txs
        /\ MapsAgree' /\ Limited'
    BY <1>4, AddStep DEF IInv
  <2>2. todo = {} /\ vEraseQueue = {}
    BY <1>0 DEF IInv, LoopState
  <2>3. Typed'
    <3>1. Orphans' \subseteq Txs /\ \A u \in Orphans' : mapOrphanTransactions'[u] \in Peers
      BY <2>1 DEF IInv, Typed, TypeOK
    <3>2. \A x \in DOMAIN mapOrphanTransactionsByPrev' : mapOrphanTransactionsByPrev'[x] \subseteq Txs
      BY <2>1, <3>1, AgreeAtNext DEF At
    <3> QED BY <1>0, <2>1, <2>2, <3>1, <3>2 DEF IInv, Typed, TypeOK, callVars
  <2>4. OrphansOwned'
    BY <1>0, <2>1 DEF IInv, OrphansOwned
  <2>5. Waits(t)'
    <3>1. PICK x \in Parents[t] : ~HaveCoins(x)
      BY <1>0 DEF MissingInputs
    <3> QED BY <1>2, <3>1 DEF Waits, Absent
  <2>6. Pending'
    BY <1>0, <1>2, <2>1, <2>5, StillWaits DEF Pending
  <2>7. LoopState' /\ Owed' /\ OnlyGuiltyPunished'
    BY <1>0, <1>1, <2>1 DEF IInv, LoopState, Owed, OnlyGuiltyPunished, callVars
  <2> QED BY <2>1, <2>3, <2>4, <2>6, <2>7 DEF IInv
<1> QED BY <1>3, <1>4 DEF TxMissingInputs

\* The loop starts: the orphans that waited for the transaction are to be looked at.
LEMMA StepTxAccepted ==
  ASSUME OrphanAssumption, IInv, NEW p \in Peers, NEW t \in Txs, TxAccepted(p, t) PROVE IInv'
<1>0. /\ pc = "idle" /\ pool' = pool \cup {t} /\ pc' = "orphans" /\ vWorkQueue' = <<t>>
      /\ todo' = Waiting(t) /\ vEraseQueue' = {t}
      /\ UNCHANGED <<nodes, chain, orphanVars, setMisbehaving, histVars>>
  BY DEF TxAccepted
<1>1. MapsAgree' /\ Limited' /\ Orphans' = Orphans
  BY <1>0, MapsUnchanged DEF IInv
<1>2. Waiting(t) = {u \in Orphans : t \in Parents[u]}
  BY DEF IInv, MapsAgree
<1>3. Typed'
  BY <1>0, <1>1, <1>2 DEF IInv, Typed, TypeOK, orphanVars
<1>4. OrphansOwned' /\ Owed' /\ OnlyGuiltyPunished'
  BY <1>0, <1>1 DEF IInv, OrphansOwned, Owed, OnlyGuiltyPunished, orphanVars, histVars
<1>5. LoopState'
  BY <1>0 DEF LoopState
<1>6. Pending'
  <2> SUFFICES ASSUME NEW u \in Orphans, t \notin Parents[u]
               PROVE  Waits(u)'
    BY <1>0, <1>1, <1>2 DEF Pending
  <2>1. PICK x \in Parents[u] : Absent(x)
    BY <1>0 DEF IInv, Pending, LoopState, Waits
  <2>2. Absent(x)'
    BY <1>0, <2>1 DEF Absent, HaveCoins, histVars
  <2> QED BY <2>1, <2>2 DEF Waits
<1> QED BY <1>1, <1>3, <1>4, <1>5, <1>6 DEF IInv

\* An orphan that is looked at goes to the erase queue; if it is accepted, those that wait
\* for it have its turn to wait for.
LEMMA StepOrphanStep == ASSUME OrphanAssumption, IInv, NEW t \in Txs, OrphanStep(t) PROVE IInv'
<1>0. /\ pc = "orphans" /\ t \in todo /\ todo' = todo \ {t} /\ vEraseQueue' = vEraseQueue \cup {t}
      /\ UNCHANGED <<nodes, chain, orphanVars, pc, guilty, unnoticed>>
  BY DEF OrphanStep
<1>1. MapsAgree' /\ Limited' /\ Orphans' = Orphans
  BY <1>0, MapsUnchanged DEF IInv
<1>2. t \in Orphans /\ mapOrphanTransactions[t] \in Peers
  BY <1>0 DEF IInv, Typed, TypeOK
<1>3. \/ UNCHANGED <<pool, vWorkQueue>>
      \/ pool' = pool \cup {t} /\ vWorkQueue' = Append(vWorkQueue, t) /\ UNCHANGED <<setMisbehaving, punished>>
  BY DEF OrphanStep, Extended
<1>4. \/ UNCHANGED <<setMisbehaving, punished>>
      \/ /\ t \in Invalid /\ punished' = punished \cup {mapOrphanTransactions[t]}
         /\ setMisbehaving' = setMisbehaving \cup {mapOrphanTransactions[t]}
  BY DEF OrphanStep, Blamed
<1>5. vWorkQueue \in Seq(Txs) /\ vWorkQueue # <<>>
  BY <1>0 DEF IInv, Typed, TypeOK, LoopState
<1>6. vWorkQueue' \in Seq(Txs) /\ vWorkQueue' # <<>>
  BY <1>3, <1>5
<1>7. Typed'
  BY <1>0, <1>1, <1>2, <1>3, <1>4, <1>6 DEF IInv, Typed, TypeOK, orphanVars
<1>8. OrphansOwned' /\ Owed'
  BY <1>0, <1>1 DEF IInv, OrphansOwned, Owed, orphanVars
<1>9. OnlyGuiltyPunished'
  <2>1. t \in Invalid => mapOrphanTransactions[t] \in guilty
    BY <1>2 DEF IInv, Owed
  <2> QED BY <1>0, <1>4, <2>1 DEF IInv, OnlyGuiltyPunished
<1>10. LoopState'
  BY <1>0, <1>6 DEF LoopState
<1>11. Pending'
  <2> SUFFICES ASSUME NEW u \in Orphans, u \notin todo, u \notin vEraseQueue
               PROVE  Waits(u)'
    BY <1>0, <1>1 DEF Pending
  <2>1. PICK x \in Parents[u] : Absent(x) \/ Queued(x)
    BY DEF IInv, Pending, Waits
  <2>2. Absent(x) => Absent(x)' \/ (x = t /\ vWorkQueue' = Append(vWorkQueue, t))
    <3>1. UNCHANGED <<chain, unnoticed>>
      BY <1>0
    <3>2. CASE UNCHANGED <<pool, vWorkQueue>>
      BY <3>1, <3>2 DEF Absent, HaveCoins
    <3>3. CASE pool' = pool \cup {t} /\ vWorkQueue' = Append(vWorkQueue, t)
      BY <3>1, <3>3 DEF Absent, HaveCoins
    <3> QED BY <1>3, <3>2, <3>3
  <2>3. Queued(x) => Queued(x)'
    BY <1>3, <1>5 DEF Queued
  <2>4. vWorkQueue' = Append(vWorkQueue, t) => Queued(t)'
    <3>1. Len(vWorkQueue) \in Nat /\ Len(vWorkQueue) >= 1
      BY <1>5
    <3> QED BY <1>5, <3>1 DEF Queued
  <2> QED BY <1>0, <2>1, <2>2, <2>3, <2>4 DEF Waits
<1> QED BY <1>1, <1>7, <1>8, <1>9, <1>10, <1>11 DEF IInv

\* The next transaction of the work queue, or the end: what is erased has been looked at,
\* and what stays waits for something still.
LEMMA StepOrphanNext == ASSUME OrphanAssumption, IInv, OrphanNext PROVE IInv'
<1>0. /\ pc = "orphans" /\ todo = {} /\ vWorkQueue' = Tail(vWorkQueue)
      /\ UNCHANGED <<nodes, pool, chain, histVars>>
  BY DEF OrphanNext
<1>1. vWorkQueue \in Seq(Txs) /\ vWorkQueue # <<>>
  BY <1>0 DEF IInv, Typed, TypeOK, LoopState
<1>2. vWorkQueue' \in Seq(Txs)
  BY <1>0, <1>1
<1>3. \A x : Absent(x) => Absent(x)'
  BY <1>0 DEF Absent, HaveCoins, histVars
<1>4. CASE Len(vWorkQueue) > 1
  <2> DEFINE next == vWorkQueue[2]
  <2>1. todo' = Waiting(next) /\ UNCHANGED <<pc, vEraseQueue, setMisbehaving, orphanVars>>
    BY <1>4 DEF OrphanNext
  <2>2. next \in Txs /\ vWorkQueue' # <<>>
    <3>1. Len(vWorkQueue) \in Nat /\ 2 \in 1..Len(vWorkQueue)
      BY <1>1, <1>4
    <3>2. next \in Txs
      BY <1>1, <3>1
    <3>3. Len(Tail(vWorkQueue)) = Len(vWorkQueue) - 1
      BY <1>1
    <3> QED BY <1>0, <1>4, <3>1, <3>2, <3>3
  <2>3. MapsAgree' /\ Limited' /\ Orphans' = Orphans
    BY <2>1, MapsUnchanged DEF IInv
  <2>4. Waiting(next) = {u \in Orphans : next \in Parents[u]}
    BY <2>2 DEF IInv, MapsAgree
  <2>5. Typed'
    BY <1>0, <1>2, <2>1, <2>3, <2>4 DEF IInv, Typed, TypeOK, orphanVars
  <2>6. OrphansOwned' /\ Owed' /\ OnlyGuiltyPunished' /\ LoopState'
    BY <1>0, <2>1, <2>2, <2>3
       DEF IInv, OrphansOwned, Owed, OnlyGuiltyPunished, LoopState, orphanVars, histVars
  <2>7. Pending'
    <3> SUFFICES ASSUME NEW u \in Orphans, u \notin todo', u \notin vEraseQueue
                 PROVE  Waits(u)'
      BY <2>1, <2>3 DEF Pending
    <3>1. PICK x \in Parents[u] : Absent(x) \/ Queued(x)
      BY <1>0 DEF IInv, Pending, Waits
    <3>2. x # next
      BY <2>1, <2>4
    <3>3. Queued(x) => Queued(x)'
      <4> SUFFICES ASSUME NEW i \in 2..Len(vWorkQueue), vWorkQueue[i] = x
                   PROVE  \E j \in 2..Len(vWorkQueue') : vWorkQueue'[j] = x
        BY DEF Queued
      <4>1. i # 2 /\ i \in Int /\ Len(vWorkQueue) \in Nat
        BY <1>1, <3>2
      <4>2. Len(vWorkQueue') = Len(vWorkQueue) - 1
        BY <1>0, <1>1
      <4>3. i - 1 \in 2..Len(vWorkQueue')
        BY <4>1, <4>2
      <4>4. vWorkQueue'[i - 1] = vWorkQueue[i]
        BY <1>0, <1>1, <4>1, <4>2, <4>3
      <4> QED BY <4>3, <4>4
    <3> QED BY <1>0, <1>3, <2>1, <3>1, <3>3 DEF Waits
  <2> QED BY <2>3, <2>5, <2>6, <2>7 DEF IInv
<1>5. CASE ~(Len(vWorkQueue) > 1)
  <2>1. EraseOrphans(vEraseQueue) /\ pc' = "idle" /\ vEraseQueue' = {} /\ setMisbehaving' = {} /\ todo' = todo
    BY <1>5 DEF OrphanNext
  <2>2. /\ Orphans' = Orphans \ vEraseQueue
        /\ \A t \in Orphans' : mapOrphanTransactions'[t] = mapOrphanTransactions[t]
        /\ DOMAIN mapOrphanTransactionsByPrev' \subseteq Txs
        /\ MapsAgree' /\ Limited'
    BY <2>1, EraseStep DEF IInv
  <2>3. Typed'
    <3>1. Orphans' \subseteq Txs /\ \A t \in Orphans' : mapOrphanTransactions'[t] \in Peers
      BY <2>2 DEF IInv, Typed, TypeOK
    <3>2. \A x \in DOMAIN mapOrphanTransactionsByPrev' : mapOrphanTransactionsByPrev'[x] \subseteq Txs
      BY <2>2, <3>1, AgreeAtNext DEF At
    <3> QED BY <1>0, <1>2, <2>1, <2>2, <3>1, <3>2 DEF IInv, Typed, TypeOK
  <2>4. OrphansOwned' /\ Owed' /\ OnlyGuiltyPunished' /\ LoopState'
    BY <1>0, <2>1, <2>2 DEF IInv, OrphansOwned, Owed, OnlyGuiltyPunished, LoopState, histVars
  <2>5. Pending'
    <3> SUFFICES ASSUME NEW u \in Orphans, u \notin vEraseQueue
                 PROVE  Waits(u)'
      BY <2>2 DEF Pending
    <3>1. PICK x \in Parents[u] : Absent(x) \/ Queued(x)
      BY <1>0 DEF IInv, Pending, Waits
    <3>2. ~Queued(x)
      BY <1>1, <1>5 DEF Queued
    <3> QED BY <1>3, <3>1, <3>2 DEF Waits
  <2> QED BY <2>2, <2>3, <2>4, <2>5 DEF IInv
<1> QED BY <1>4, <1>5

\* Every step preserves the inductive invariant.
LEMMA StepIInv == ASSUME OrphanAssumption, IInv, [Next]_vars PROVE IInv'
<1>1. CASE UNCHANGED vars
  <2>1. UNCHANGED <<nodes, pool, chain, orphanVars, callVars, histVars>>
    BY <1>1 DEF vars
  <2>2. MapsAgree' /\ Limited' /\ Orphans' = Orphans
    BY <2>1, MapsUnchanged DEF IInv
  <2> QED BY <2>1, <2>2
       DEF IInv, Typed, TypeOK, OrphansOwned, LoopState, Pending, Waits, Absent, Queued, HaveCoins,
           Owed, OnlyGuiltyPunished, orphanVars, callVars, histVars
<1>2. ASSUME NEW p \in Peers, Connect(p) \/ Disconnect(p) PROVE IInv'
  BY <1>2, StepConnect, StepDisconnect
<1>3. ASSUME NEW p \in Peers, NEW t \in Txs, TxAccepted(p, t) \/ TxMissingInputs(p, t) \/ TxInvalid(p, t)
      PROVE  IInv'
  BY <1>3, StepTxAccepted, StepTxMissingInputs, StepTxInvalid
<1>4. ASSUME NEW t \in Txs, LocalTx(t) \/ BlockTx(t) \/ OrphanStep(t) PROVE IInv'
  BY <1>4, StepLocalTx, StepBlockTx, StepOrphanStep
<1>5. CASE OrphanNext
  BY <1>5, StepOrphanNext
<1> QED BY <1>1, <1>2, <1>3, <1>4, <1>5 DEF Next

\* What the inductive invariant says of the maps, the limit, the loop and the peers.
LEMMA ExactFromIInv == ASSUME IInv PROVE OrphanTxExact
<1>1. Resolved
  BY DEF IInv, Pending, LoopState, Waits, Absent, Resolved
<1> QED BY <1>1 DEF IInv, Typed, Limited, OrphansBounded, OrphanTxExact

\* Whatever transactions arrive, in whatever order, from whatever peers, and whichever
\* orphans are evicted: the two maps stay inverse to each other, the orphans keep to their
\* limit and to connected peers, the loop leaves none behind that could be accepted, and
\* only peers that sent an invalid transaction are punished.
THEOREM OrphanTxCorrect == ASSUME OrphanAssumption PROVE Spec => []OrphanTxExact
<1>1. Init => IInv
  BY InitIInv
<1>2. IInv /\ [Next]_vars => IInv'
  BY StepIInv
<1>3. IInv => OrphanTxExact
  BY ExactFromIInv
<1> QED BY <1>1, <1>2, <1>3, PTL DEF Spec
=============================================================================
