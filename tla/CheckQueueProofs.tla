--------------------------- MODULE CheckQueueProofs ---------------------------
(***************************************************************************)
(* Proofs about CheckQueue, for every number of workers and checks and     *)
(* every size of batches.                                                  *)
(*                                                                         *)
(* The counters are exact because each thread is in the pool exactly while *)
(* it is between its first entry and its return, and a check is counted    *)
(* exactly while it is in the queue or in one batch (Placed, Accounted).   *)
(* The verdict is exact because fAllOk speaks for the checks accounted     *)
(* for, and the local fOk of a thread for its batch, which may be skipped  *)
(* only when another check of the block has failed (Judged).               *)
(***************************************************************************)
EXTENDS CheckQueue, FiniteSetTheorems, TLAPS

IdleThreads == {t \in Threads : pc[t] \in {"waiting", "woken", "interrupted"}}
Pool == {t \in Threads : InPool(t)}

\* Where a thread is, and what it has there.
Placed ==
    /\ \A w \in Workers : pc[w] \notin {"none", "open", "assertFailed"}
    /\ pc[Master] # "interrupted"
    /\ \A t \in Threads : pc[t] = "locked" <=> mutex = t
    /\ \A t \in Threads : batch[t] # {} => pc[t] \in {"working", "enter"}
    /\ \A t \in Threads : pc[t] = "working" => batch[t] # {}

\* Every outstanding check belongs to this block.
Accounted == Outstanding \subseteq added /\ TodoExact /\ CountersExact

\* What fAllOk and the threads' fOk say of the checks of this block.
Judged ==
    pc[Master] \notin {"none", "assertFailed"} =>
        /\ fAllOk => (added \ Outstanding) \cap BadChecks = {}
        /\ ~fAllOk => added \cap BadChecks # {}
        /\ \A t \in Threads : pc[t] = "enter" /\ fOk[t] => batch[t] \cap BadChecks = {}
        /\ \A t \in Threads : batch[t] # {} /\ ~fOk[t] => added \cap BadChecks # {}

IInv == TypeOK /\ Placed /\ Accounted /\ QuietBetweenBlocks /\ Judged

-----------------------------------------------------------------------------
(* Finite sets *)

\* There are finitely many threads.
LEMMA ThreadsFinite == IsFiniteSet(Threads) /\ Cardinality(Threads) \in Nat
  BY ThreadsAssumption, FS_AddElement, FS_CardinalityType DEF Threads

\* A set of threads has at most as many members as there are threads.
LEMMA ThreadCount ==
  ASSUME NEW S \in SUBSET Threads
  PROVE  IsFiniteSet(S) /\ Cardinality(S) \in Nat /\ Cardinality(S) \in 0..Cardinality(Threads)
  BY ThreadsFinite, FS_Subset, FS_CardinalityType

\* A set of checks has at most as many members as there are checks.
LEMMA CheckCount ==
  ASSUME NEW S \in SUBSET Checks
  PROVE  IsFiniteSet(S) /\ Cardinality(S) \in Nat /\ Cardinality(S) \in 0..Cardinality(Checks)
  BY ChecksAssumption, FS_Subset, FS_CardinalityType

\* One thread more.
LEMMA CountJoins ==
  ASSUME NEW S \in SUBSET Threads, NEW t \in Threads, t \notin S
  PROVE  Cardinality(S \cup {t}) = Cardinality(S) + 1
  BY ThreadCount, FS_AddElement

\* One thread less.
LEMMA CountLeaves ==
  ASSUME NEW S \in SUBSET Threads, NEW t \in S
  PROVE  Cardinality(S \ {t}) = Cardinality(S) - 1
  BY ThreadCount, FS_RemoveElement

\* Checks that arrive are counted once.
LEMMA ChecksArrive ==
  ASSUME NEW S \in SUBSET Checks, NEW T \in SUBSET Checks, S \cap T = {}
  PROVE  Cardinality(S \cup T) = Cardinality(S) + Cardinality(T)
<1>1. IsFiniteSet(S) /\ IsFiniteSet(T) /\ Cardinality(S) \in Nat /\ Cardinality(T) \in Nat
  BY CheckCount
<1>2. Cardinality(S \cup T) = Cardinality(S) + Cardinality(T) - Cardinality(S \cap T)
  BY <1>1, FS_Union
<1>3. Cardinality(S \cap T) = 0
  BY FS_EmptySet
<1> QED BY <1>1, <1>2, <1>3

\* Checks that are done are subtracted once.
LEMMA ChecksDone ==
  ASSUME NEW S \in SUBSET Checks, NEW T \in SUBSET S
  PROVE  Cardinality(S \ T) = Cardinality(S) - Cardinality(T)
<1>1. IsFiniteSet(S) /\ S \cap T = T
  BY CheckCount
<1> QED BY <1>1, FS_Difference

\* No check is outstanding when the counter is zero.
LEMMA NoneOutstanding ==
  ASSUME TypeOK, TodoExact
  PROVE  nTodo = 0 <=> Outstanding = {}
<1>1. Outstanding \in SUBSET Checks
  BY DEF TypeOK, Outstanding
<1> QED BY <1>1, CheckCount, FS_EmptySet DEF TodoExact

\* A batch has at least one check (max(1U, ...)).
LEMMA BatchNotEmpty ==
  ASSUME TypeOK, NEW S \in SUBSET queue, Cardinality(S) = BatchLimit
  PROVE  S # {}
<1>1. BatchLimit >= 1
  <2>1. Cardinality(queue) \in Nat /\ nTotal \in Nat /\ nIdle \in Nat /\ nBatchSize \in Nat
    BY CheckCount, ThreadsFinite, ChecksAssumption DEF TypeOK
  <2>2. Cardinality(queue) \div (nTotal + nIdle + 1) \in Int
    BY <2>1
  <2> QED BY <2>1, <2>2 DEF BatchLimit
<1> QED BY <1>1, FS_EmptySet

-----------------------------------------------------------------------------
(* The inductive invariant *)

\* The members of TypeOK that later steps use.
LEMMA Types ==
  ASSUME TypeOK
  PROVE  /\ pc \in [Threads -> PCs] /\ batch \in [Threads -> SUBSET Checks]
         /\ fOk \in [Threads -> BOOLEAN] /\ fAllOk \in BOOLEAN
         /\ nIdle \in Int /\ nTotal \in Int /\ nTodo \in Int
         /\ Outstanding \in SUBSET Checks /\ Master \in Threads /\ Workers \subseteq Threads
  BY ThreadsFinite, CheckCount, ChecksAssumption DEF TypeOK, Outstanding, Threads

\* A thread's batch is outstanding.
LEMMA BatchOutstanding == \A t \in Threads : batch[t] \subseteq Outstanding
  BY DEF Outstanding

\* Exact counters are within the range of their types.
LEMMA Ranges ==
  ASSUME CountersExact, TodoExact, Outstanding \subseteq Checks
  PROVE  /\ nIdle \in 0..Cardinality(Threads) /\ nTotal \in 0..Cardinality(Threads)
         /\ nTodo \in 0..Cardinality(Checks)
<1>1. {t \in Threads : pc[t] \in {"waiting", "woken", "interrupted"}} \in SUBSET Threads
  OBVIOUS
<1>2. {t \in Threads : InPool(t)} \in SUBSET Threads
  OBVIOUS
<1> QED BY <1>1, <1>2, ThreadCount, CheckCount DEF CountersExact, TodoExact

\* The initial state satisfies the inductive invariant.
LEMMA InitIInv == ASSUME Init PROVE IInv
<1>1. Outstanding = {} /\ nTodo = 0
  BY DEF Init, Outstanding
<1>2. IdleThreads = {} /\ {t \in Threads : InPool(t)} = {}
  BY DEF Init, IdleThreads, InPool
<1>3. CountersExact
  BY <1>2, FS_EmptySet DEF Init, CountersExact, IdleThreads
<1>4. TodoExact
  BY <1>1, FS_EmptySet DEF Init, TodoExact
<1>5. TypeOK
  BY <1>1, <1>3, <1>4, Ranges, ChecksAssumption DEF Init, TypeOK, PCs, Threads
<1>6. Placed
  BY ThreadsAssumption DEF Init, Placed, Threads
<1>7. QuietBetweenBlocks /\ Judged /\ Accounted
  BY <1>1, <1>3, <1>4 DEF Init, QuietBetweenBlocks, Judged, Accounted
<1> QED BY <1>5, <1>6, <1>7 DEF IInv

\* A step that leaves the checks alone, and takes no thread into the pool, out of it or out
\* of its wait, keeps the accounts.
LEMMA AccountsKept ==
  ASSUME Accounted, UNCHANGED <<queue, batch, nTodo, added, nIdle, nTotal>>,
         IdleThreads' = IdleThreads, Pool' = Pool
  PROVE  Accounted'
<1>1. Outstanding' = Outstanding /\ TodoExact'
  BY DEF Outstanding, Accounted, TodoExact
<1>2. CountersExact'
  BY DEF Accounted, CountersExact, IdleThreads, Pool
<1> QED BY <1>1, <1>2 DEF Accounted

\* Steps of a thread that change nothing but where it is: the constructor, Wait, wake-ups
\* nobody asked for and interrupts.
LEMMA MoveStep ==
  ASSUME IInv, NewControl \/ AssertionFails \/ Wait \/ (\E t \in Threads : SpuriousWakeUp(t))
                 \/ (\E w \in Workers : Interrupt(w))
  PROVE  IInv'
<1>0. TypeOK /\ Placed /\ Accounted /\ QuietBetweenBlocks /\ Judged
  BY DEF IInv
<1>1. PICK t \in Threads, p \in PCs :
        /\ pc' = [pc EXCEPT ![t] = p]
        /\ \/ t = Master /\ pc[t] = "none" /\ p = "open" /\ Unused /\ added' = {}
           \/ t = Master /\ pc[t] = "none" /\ p = "assertFailed" /\ added' = added
           \/ t = Master /\ pc[t] = "open" /\ p = "enter" /\ added' = added
           \/ pc[t] = "waiting" /\ p = "woken" /\ added' = added
           \/ t \in Workers /\ pc[t] = "waiting" /\ p = "interrupted" /\ added' = added
        /\ UNCHANGED <<mutex, queue, nIdle, nTotal, nTodo, fAllOk, batch, fOk, verdict>>
        /\ nSpurious' \in 0..MaxSpurious
  BY <1>0, Types, ChecksAssumption
     DEF NewControl, AssertionFails, Wait, SpuriousWakeUp, Interrupt, PCs, TypeOK, Threads
<1>2. /\ pc' \in [Threads -> PCs] /\ pc'[t] = p
      /\ \A u \in Threads \ {t} : pc'[u] = pc[u]
  BY <1>0, <1>1, Types
<1>3. batch[t] = {} /\ Outstanding' = Outstanding
  BY <1>0, <1>1 DEF Placed, Outstanding
<1>4. TypeOK'
  BY <1>0, <1>1, <1>2 DEF TypeOK
<1>5. Placed'
  BY <1>0, <1>1, <1>2, <1>3, ThreadsAssumption, Types DEF Placed
<1>6. IdleThreads' = IdleThreads
  BY <1>1, <1>2 DEF IdleThreads
<1>7. Pool' = Pool
  BY <1>1, <1>2, <1>3 DEF Pool, InPool
<1>8. CASE added' = added /\ p # "open"
  <2>1. Accounted'
    BY <1>0, <1>1, <1>6, <1>7, <1>8, AccountsKept
  <2>2. QuietBetweenBlocks'
    BY <1>0, <1>1, <1>2, <1>3, Types DEF QuietBetweenBlocks
  <2>3. Judged'
    <3>1. pc'[Master] \notin {"none", "assertFailed"} => pc[Master] \notin {"none", "assertFailed"}
      BY <1>1, <1>2, <1>8, Types, <1>0
    <3>2. \A u \in Threads : pc'[u] = "enter" => pc[u] = "enter" \/ batch[u] = {}
      BY <1>2, <1>3
    <3> QED BY <1>0, <1>1, <1>3, <1>8, <3>1, <3>2 DEF Judged
  <2> QED BY <1>4, <1>5, <2>1, <2>2, <2>3 DEF IInv
<1>9. CASE pc[Master] = "none" /\ t = Master /\ p = "open" /\ added' = {} /\ Unused
  <2>1. Outstanding = {} /\ fAllOk
    BY <1>0, <1>9 DEF QuietBetweenBlocks
  <2>2. \A u \in Threads : batch[u] = {}
    BY <2>1, BatchOutstanding
  <2>3. TodoExact' /\ CountersExact'
    BY <1>0, <1>1, <1>3, <1>6, <1>7 DEF Accounted, TodoExact, CountersExact, IdleThreads, Pool
  <2>4. Accounted'
    BY <1>3, <2>1, <2>3 DEF Accounted
  <2>5. QuietBetweenBlocks'
    BY <1>2, <1>9 DEF QuietBetweenBlocks
  <2>6. Judged'
    BY <1>1, <1>9, <2>1, <2>2 DEF Judged
  <2> QED BY <1>4, <1>5, <2>4, <2>5, <2>6 DEF IInv
<1> QED BY <1>1, <1>8, <1>9

\* Waking threads moves waiting ones only, and keeps them idle and in the pool.
LEMMA WakeMoves ==
  ASSUME TypeOK, NEW W \in SUBSET {t \in Threads : pc[t] = "waiting"}
  PROVE  /\ Wake(W) \in [Threads -> PCs]
         /\ \A u \in Threads : \/ Wake(W)[u] = pc[u]
                               \/ pc[u] = "waiting" /\ Wake(W)[u] = "woken"
  BY DEF Wake, TypeOK, PCs

\* Add: the new checks are outstanding, and none of them was.
LEMMA AddStep == ASSUME IInv, Add PROVE IInv'
<1>0. TypeOK /\ Placed /\ Accounted /\ QuietBetweenBlocks /\ Judged
  BY DEF IInv
<1>1. PICK S \in SUBSET (Checks \ added) :
        /\ queue' = queue \cup S /\ nTodo' = nTodo + Cardinality(S) /\ added' = added \cup S
        /\ \E W \in Woken(Cardinality(S)) : pc' = Wake(W)
  BY DEF Add
<1>2. PICK W \in SUBSET {t \in Threads : pc[t] = "waiting"} : pc' = Wake(W)
  BY <1>1 DEF Woken, Threads
<1>3. /\ pc' \in [Threads -> PCs]
      /\ \A u \in Threads : pc'[u] = pc[u] \/ (pc[u] = "waiting" /\ pc'[u] = "woken")
  BY <1>0, <1>2, WakeMoves
<1>4. /\ UNCHANGED <<mutex, nIdle, nTotal, fAllOk, batch, fOk, verdict, nSpurious>>
      /\ pc[Master] = "open" /\ mutex = NoThread
  BY DEF Add
<1>5. Outstanding' = Outstanding \cup S /\ Outstanding \cap S = {} /\ Outstanding' \subseteq added'
  BY <1>0, <1>1, <1>4 DEF Outstanding, Accounted
<1>6. TodoExact'
  <2>1. nTodo' = Cardinality(Outstanding')
    BY <1>0, <1>1, <1>5, Types, ChecksArrive DEF Accounted, TodoExact
  <2>2. \A t \in Threads : batch[t] \cap queue' = {}
    BY <1>0, <1>1, <1>5, BatchOutstanding DEF Accounted, TodoExact
  <2> QED BY <1>0, <1>4, <2>1, <2>2 DEF Accounted, TodoExact
<1>7. CountersExact'
  <2>1. IdleThreads' = IdleThreads
    BY <1>3 DEF IdleThreads
  <2>2. Pool' = Pool
    BY <1>3, <1>4 DEF Pool, InPool
  <2> QED BY <1>0, <1>4, <2>1, <2>2 DEF Accounted, CountersExact, IdleThreads, Pool
<1>8. added' \subseteq Checks /\ Outstanding' \subseteq Checks
  BY <1>0, <1>1, <1>5 DEF TypeOK
<1>9. TypeOK'
  <2>1. /\ nIdle' \in 0..Cardinality(Threads) /\ nTotal' \in 0..Cardinality(Threads)
        /\ nTodo' \in 0..Cardinality(Checks)
    <3>1. IdleThreads' \in SUBSET Threads /\ Pool' \in SUBSET Threads
      BY DEF IdleThreads, Pool
    <3> QED BY <1>6, <1>7, <1>8, <3>1, ThreadCount, CheckCount
         DEF CountersExact, TodoExact, IdleThreads, Pool
  <2> QED BY <1>0, <1>1, <1>3, <1>4, <1>8, <2>1 DEF TypeOK
<1>10. Placed'
  BY <1>0, <1>3, <1>4, ThreadsAssumption, Types DEF Placed
<1>11. QuietBetweenBlocks'
  BY <1>3, <1>4, Types, <1>0 DEF QuietBetweenBlocks
<1>12. Judged'
  <2>1. (added' \ Outstanding') = added \ Outstanding
    BY <1>1, <1>5
  <2>2. \A t \in Threads : pc'[t] = "enter" => pc[t] = "enter"
    BY <1>3
  <2> QED BY <1>0, <1>1, <1>4, <2>1, <2>2 DEF Judged
<1> QED BY <1>5, <1>6, <1>7, <1>9, <1>10, <1>11, <1>12 DEF IInv, Accounted

\* Wait's return: the counter says that nothing is outstanding.
LEMMA FinishStep == ASSUME IInv, Finish PROVE IInv'
<1>0. TypeOK /\ Placed /\ Accounted /\ QuietBetweenBlocks /\ Judged
  BY DEF IInv
<1>1. /\ pc' = [pc EXCEPT ![Master] = "none"] /\ pc[Master] = "locked" /\ nTodo = 0
      /\ nTotal' = nTotal - 1 /\ fAllOk' = TRUE /\ mutex' = NoThread /\ verdict' = fAllOk
      /\ UNCHANGED <<queue, nIdle, nTodo, batch, fOk, added, nSpurious>>
  BY DEF Finish, MayLeave
<1>2. /\ pc' \in [Threads -> PCs] /\ pc'[Master] = "none"
      /\ \A u \in Threads \ {Master} : pc'[u] = pc[u]
  BY <1>0, <1>1, Types DEF PCs
<1>3. Outstanding = {} /\ Outstanding' = Outstanding
  BY <1>0, <1>1, NoneOutstanding DEF Accounted, Outstanding
<1>4. batch[Master] = {}
  BY <1>3, BatchOutstanding, Types, <1>0
<1>5. IdleThreads' = IdleThreads /\ Pool' = Pool \ {Master} /\ Master \in Pool
  BY <1>0, <1>1, <1>2, <1>4, Types DEF IdleThreads, Pool, InPool
<1>6. CountersExact'
  <2>1. nTotal = Cardinality(Pool) /\ Pool \in SUBSET Threads
    BY <1>0 DEF Accounted, CountersExact, Pool
  <2>2. nTotal' = Cardinality(Pool')
    BY <1>1, <1>5, <2>1, CountLeaves
  <2>3. nIdle' = Cardinality(IdleThreads')
    BY <1>0, <1>1, <1>5 DEF Accounted, CountersExact, IdleThreads
  <2> QED BY <2>2, <2>3 DEF CountersExact, IdleThreads, Pool
<1>7. TodoExact' /\ Outstanding' \subseteq added'
  BY <1>0, <1>1, <1>3 DEF Accounted, TodoExact
<1>8. nTotal' \in 0..Cardinality(Threads)
  <2>1. Pool' \in SUBSET Threads
    BY DEF Pool
  <2> QED BY <1>6, <2>1, ThreadCount DEF CountersExact, Pool
<1>9. TypeOK'
  BY <1>0, <1>1, <1>2, <1>8 DEF TypeOK
<1>10. Placed'
  <2>1. \A t \in Threads : pc'[t] = "locked" <=> mutex' = t
    BY <1>0, <1>1, <1>2, ThreadsAssumption DEF Placed
  <2> QED BY <1>0, <1>1, <1>2, <1>4, <2>1, ThreadsAssumption, Types DEF Placed
<1>11. QuietBetweenBlocks' /\ Judged'
  BY <1>1, <1>2, <1>3 DEF QuietBetweenBlocks, Judged
<1> QED BY <1>6, <1>7, <1>9, <1>10, <1>11 DEF IInv, Accounted

\* A thread that enters accounts for its batch, or joins the pool.
LEMMA EnterStep == ASSUME IInv, NEW t \in Threads, Enter(t) PROVE IInv'
<1>0. TypeOK /\ Placed /\ Accounted /\ QuietBetweenBlocks /\ Judged
  BY DEF IInv
<1>1. /\ pc[t] = "enter" /\ mutex = NoThread /\ mutex' = t
      /\ UNCHANGED <<queue, nIdle, fOk, added, verdict, nSpurious>>
  BY DEF Enter
<1>2. CASE batch[t] # {}
  <2>1. /\ fAllOk' = (fAllOk /\ fOk[t]) /\ nTodo' = nTodo - Cardinality(batch[t])
        /\ pc' = [Wake(Informed(t)) EXCEPT ![t] = "locked"]
        /\ batch' = [batch EXCEPT ![t] = {}] /\ nTotal' = nTotal
    BY <1>2 DEF Enter, Merged, Remaining
  <2>2. Informed(t) \in SUBSET {u \in Threads : pc[u] = "waiting"}
    BY DEF Informed, Threads
  <2>3. /\ pc' \in [Threads -> PCs] /\ pc'[t] = "locked"
        /\ \A u \in Threads \ {t} : pc'[u] = pc[u] \/ (pc[u] = "waiting" /\ pc'[u] = "woken")
    BY <1>0, <2>1, <2>2, WakeMoves DEF PCs
  <2>4. /\ batch' \in [Threads -> SUBSET Checks] /\ batch'[t] = {}
        /\ \A u \in Threads \ {t} : batch'[u] = batch[u]
    BY <1>0, <2>1, Types
  <2>5. Outstanding' = Outstanding \ batch[t]
    BY <1>0, <1>1, <2>4 DEF Outstanding, Accounted, TodoExact
  <2>6. TodoExact' /\ Outstanding' \subseteq added' /\ Outstanding' \subseteq Checks
    <3>1. nTodo' = Cardinality(Outstanding')
      BY <1>0, <2>1, <2>5, BatchOutstanding, Types, ChecksDone DEF Accounted, TodoExact
    <3>2. \A u \in Threads : batch'[u] \subseteq batch[u]
      BY <2>4
    <3>3. \A u \in Threads : /\ batch'[u] \cap queue' = {}
                             /\ \A v \in Threads \ {u} : batch'[u] \cap batch'[v] = {}
      BY <1>0, <1>1, <3>2 DEF Accounted, TodoExact
    <3> QED BY <1>0, <1>1, <2>5, <3>1, <3>3, Types DEF TodoExact, Accounted
  <2>7. CountersExact'
    <3>1. IdleThreads' = IdleThreads
      BY <1>1, <2>3 DEF IdleThreads
    <3>2. Pool' = Pool
      BY <1>1, <1>2, <2>3, <2>4 DEF Pool, InPool
    <3> QED BY <1>0, <1>1, <2>1, <3>1, <3>2 DEF Accounted, CountersExact, IdleThreads, Pool
  <2>8. nTodo' \in 0..Cardinality(Checks)
    BY <2>6, CheckCount DEF TodoExact
  <2>9. TypeOK'
    BY <1>0, <1>1, <2>1, <2>3, <2>4, <2>8 DEF TypeOK
  <2>10. Placed'
    <3>1. \A u \in Threads : pc'[u] = "locked" <=> mutex' = u
      BY <1>0, <1>1, <2>3, ThreadsAssumption DEF Placed
    <3> QED BY <1>0, <1>1, <2>3, <2>4, <3>1, Types DEF Placed
  <2>11. QuietBetweenBlocks'
    <3>1. Outstanding # {}
      BY <1>2, BatchOutstanding
    <3>2. pc'[Master] # "none"
      BY <1>0, <1>1, <2>3, <3>1, Types DEF QuietBetweenBlocks
    <3> QED BY <3>2 DEF QuietBetweenBlocks
  <2>12. Judged'
    <3>1. pc'[Master] \notin {"none", "assertFailed"} => pc[Master] \notin {"none", "assertFailed"}
      BY <1>1, <2>3, Types, <1>0
    <3>2. added \ Outstanding' = (added \ Outstanding) \cup batch[t]
      BY <1>0, <2>5, BatchOutstanding DEF Accounted
    <3>3. \A u \in Threads : pc'[u] = "enter" => pc[u] = "enter" /\ batch'[u] = batch[u]
      BY <2>3, <2>4
    <3>4. \A u \in Threads : batch'[u] # {} => batch[u] # {}
      BY <2>4
    <3>5. ASSUME pc[Master] \notin {"none", "assertFailed"}
          PROVE  /\ fAllOk' => (added' \ Outstanding') \cap BadChecks = {}
                 /\ ~fAllOk' => added' \cap BadChecks # {}
      BY <1>0, <1>1, <1>2, <2>1, <3>2, <3>5 DEF Judged
    <3> QED BY <1>0, <1>1, <3>1, <3>3, <3>4, <3>5 DEF Judged
  <2> QED BY <2>6, <2>7, <2>9, <2>10, <2>11, <2>12 DEF IInv, Accounted
<1>3. CASE batch[t] = {}
  <2>1. pc' = [pc EXCEPT ![t] = "locked"] /\ nTotal' = nTotal + 1 /\ UNCHANGED <<fAllOk, nTodo, batch>>
    BY <1>3 DEF Enter
  <2>2. /\ pc' \in [Threads -> PCs] /\ pc'[t] = "locked"
        /\ \A u \in Threads \ {t} : pc'[u] = pc[u]
    BY <1>0, <2>1, Types DEF PCs
  <2>3. Outstanding' = Outstanding /\ TodoExact' /\ Outstanding' \subseteq added'
    BY <1>0, <1>1, <2>1 DEF Outstanding, Accounted, TodoExact
  <2>4. IdleThreads' = IdleThreads /\ Pool' = Pool \cup {t} /\ t \notin Pool
    BY <1>1, <1>3, <2>1, <2>2 DEF IdleThreads, Pool, InPool
  <2>5. CountersExact'
    <3>1. nTotal = Cardinality(Pool) /\ Pool \in SUBSET Threads
      BY <1>0 DEF Accounted, CountersExact, Pool
    <3>2. nTotal' = Cardinality(Pool')
      BY <2>1, <2>4, <3>1, CountJoins
    <3>3. nIdle' = Cardinality(IdleThreads')
      BY <1>0, <1>1, <2>4 DEF Accounted, CountersExact, IdleThreads
    <3> QED BY <3>2, <3>3 DEF CountersExact, IdleThreads, Pool
  <2>6. nTotal' \in 0..Cardinality(Threads)
    <3>1. Pool' \in SUBSET Threads
      BY DEF Pool
    <3> QED BY <2>5, <3>1, ThreadCount DEF CountersExact, Pool
  <2>7. TypeOK'
    BY <1>0, <1>1, <2>1, <2>2, <2>6 DEF TypeOK
  <2>8. Placed'
    <3>1. \A u \in Threads : pc'[u] = "locked" <=> mutex' = u
      BY <1>0, <1>1, <2>2, ThreadsAssumption DEF Placed
    <3> QED BY <1>0, <1>1, <1>3, <2>1, <2>2, <3>1, Types DEF Placed
  <2>9. QuietBetweenBlocks'
    BY <1>0, <1>1, <2>1, <2>2, <2>3, Types DEF QuietBetweenBlocks
  <2>10. Judged'
    <3>1. pc'[Master] \notin {"none", "assertFailed"} => pc[Master] \notin {"none", "assertFailed"}
      BY <1>1, <2>2, Types, <1>0
    <3>2. \A u \in Threads : pc'[u] = "enter" => pc[u] = "enter"
      BY <2>2
    <3> QED BY <1>0, <1>1, <2>1, <2>3, <3>1, <3>2 DEF Judged
  <2> QED BY <2>3, <2>5, <2>7, <2>8, <2>9, <2>10 DEF IInv, Accounted
<1> QED BY <1>2, <1>3

\* A thread in the pool goes to sleep, or is back from its wait.
LEMMA WaitStep == ASSUME IInv, NEW t \in Threads, Sleep(t) \/ WakeUp(t) PROVE IInv'
<1>0. TypeOK /\ Placed /\ Accounted /\ QuietBetweenBlocks /\ Judged
  BY DEF IInv
<1>1. UNCHANGED <<queue, nTotal, nTodo, fAllOk, batch, fOk, added, verdict, nSpurious>>
  BY DEF Sleep, WakeUp
<1>2. PICK p \in {"waiting", "locked"} :
        /\ pc' = [pc EXCEPT ![t] = p]
        /\ \/ p = "waiting" /\ pc[t] = "locked" /\ nIdle' = nIdle + 1 /\ mutex' = NoThread
           \/ p = "locked" /\ pc[t] = "woken" /\ nIdle' = nIdle - 1 /\ mutex = NoThread /\ mutex' = t
  BY DEF Sleep, WakeUp
<1>3. /\ pc' \in [Threads -> PCs] /\ pc'[t] = p
      /\ \A u \in Threads \ {t} : pc'[u] = pc[u]
  BY <1>0, <1>2, Types DEF PCs
<1>4. Outstanding' = Outstanding /\ TodoExact' /\ Outstanding' \subseteq added'
  BY <1>0, <1>1 DEF Outstanding, Accounted, TodoExact
<1>5. Pool' = Pool
  BY <1>1, <1>2, <1>3 DEF Pool, InPool
<1>6. CountersExact'
  <2>1. nIdle = Cardinality(IdleThreads) /\ IdleThreads \in SUBSET Threads
    BY <1>0 DEF Accounted, CountersExact, IdleThreads
  <2>2. CASE p = "waiting"
    <3>1. IdleThreads' = IdleThreads \cup {t} /\ t \notin IdleThreads
      BY <1>2, <1>3, <2>2 DEF IdleThreads
    <3>2. nIdle' = Cardinality(IdleThreads')
      BY <1>2, <2>1, <2>2, <3>1, CountJoins
    <3> QED BY <1>0, <1>1, <1>5, <3>2 DEF Accounted, CountersExact, IdleThreads, Pool
  <2>3. CASE p = "locked"
    <3>1. IdleThreads' = IdleThreads \ {t} /\ t \in IdleThreads
      BY <1>2, <1>3, <2>3 DEF IdleThreads
    <3>2. nIdle' = Cardinality(IdleThreads')
      BY <1>2, <2>1, <2>3, <3>1, CountLeaves
    <3> QED BY <1>0, <1>1, <1>5, <3>2 DEF Accounted, CountersExact, IdleThreads, Pool
  <2> QED BY <2>2, <2>3
<1>7. nIdle' \in 0..Cardinality(Threads)
  <2>1. IdleThreads' \in SUBSET Threads
    BY DEF IdleThreads
  <2> QED BY <1>6, <2>1, ThreadCount DEF CountersExact, IdleThreads
<1>8. mutex' \in Threads \cup {NoThread}
  BY <1>2
<1>9. TypeOK'
  BY <1>0, <1>1, <1>3, <1>7, <1>8 DEF TypeOK
<1>10. Placed'
  <2>1. \A u \in Threads : pc'[u] = "locked" <=> mutex' = u
    BY <1>0, <1>2, <1>3, ThreadsAssumption DEF Placed
  <2> QED BY <1>0, <1>1, <1>2, <1>3, <2>1, Types DEF Placed
<1>11. QuietBetweenBlocks'
  BY <1>0, <1>1, <1>2, <1>3, <1>4, Types DEF QuietBetweenBlocks
<1>12. Judged'
  <2>1. pc'[Master] \notin {"none", "assertFailed"} => pc[Master] \notin {"none", "assertFailed"}
    BY <1>2, <1>3, Types, <1>0
  <2>2. \A u \in Threads : pc'[u] = "enter" => pc[u] = "enter"
    BY <1>3
  <2> QED BY <1>0, <1>1, <1>4, <2>1, <2>2 DEF Judged
<1> QED BY <1>4, <1>6, <1>9, <1>10, <1>11, <1>12 DEF IInv, Accounted

\* A batch leaves the queue and is the thread's own; its checks are as outstanding as before.
LEMMA TakeStep == ASSUME IInv, NEW t \in Threads, Take(t) PROVE IInv'
<1>0. TypeOK /\ Placed /\ Accounted /\ QuietBetweenBlocks /\ Judged
  BY DEF IInv
<1>1. /\ pc[t] = "locked" /\ mutex' = NoThread /\ pc' = [pc EXCEPT ![t] = "working"]
      /\ fOk' = [fOk EXCEPT ![t] = fAllOk] /\ queue # {}
      /\ UNCHANGED <<nIdle, nTotal, nTodo, fAllOk, added, verdict, nSpurious>>
  BY DEF Take
<1>2. PICK S \in SUBSET queue :
        Cardinality(S) = BatchLimit /\ batch' = [batch EXCEPT ![t] = S] /\ queue' = queue \ S
  BY DEF Take
<1>3. S # {} /\ batch[t] = {}
  BY <1>0, <1>1, <1>2, BatchNotEmpty DEF Placed
<1>4. /\ pc' \in [Threads -> PCs] /\ pc'[t] = "working"
      /\ \A u \in Threads \ {t} : pc'[u] = pc[u]
  BY <1>0, <1>1, Types DEF PCs
<1>5. /\ batch' \in [Threads -> SUBSET Checks] /\ batch'[t] = S
      /\ \A u \in Threads \ {t} : batch'[u] = batch[u]
  BY <1>0, <1>2, Types DEF TypeOK
<1>6. /\ fOk' \in [Threads -> BOOLEAN] /\ fOk'[t] = fAllOk
      /\ \A u \in Threads \ {t} : fOk'[u] = fOk[u]
  BY <1>0, <1>1, Types
<1>7. Outstanding' = Outstanding
  BY <1>2, <1>3, <1>5 DEF Outstanding
<1>8. TodoExact' /\ Outstanding' \subseteq added'
  <2>1. \A u \in Threads : batch'[u] \cap queue' = {}
    BY <1>0, <1>2, <1>5 DEF Accounted, TodoExact
  <2>2. \A u \in Threads \ {t} : batch'[t] \cap batch'[u] = {} /\ batch'[u] \cap batch'[t] = {}
    BY <1>0, <1>2, <1>5 DEF Accounted, TodoExact
  <2>3. \A u \in Threads : \A v \in Threads \ {u} : batch'[u] \cap batch'[v] = {}
    BY <1>0, <1>5, <2>2 DEF Accounted, TodoExact
  <2> QED BY <1>0, <1>1, <1>7, <2>1, <2>3 DEF Accounted, TodoExact
<1>9. CountersExact'
  <2>1. IdleThreads' = IdleThreads
    BY <1>1, <1>4 DEF IdleThreads
  <2>2. Pool' = Pool
    BY <1>1, <1>4, <1>5 DEF Pool, InPool
  <2> QED BY <1>0, <1>1, <2>1, <2>2 DEF Accounted, CountersExact, IdleThreads, Pool
<1>10. TypeOK'
  BY <1>0, <1>1, <1>2, <1>4, <1>5, <1>6 DEF TypeOK
<1>11. Placed'
  <2>1. \A u \in Threads : pc'[u] = "locked" <=> mutex' = u
    BY <1>0, <1>1, <1>4, ThreadsAssumption DEF Placed
  <2> QED BY <1>0, <1>1, <1>3, <1>4, <1>5, <2>1, Types DEF Placed
<1>12. QuietBetweenBlocks'
  <2>1. Outstanding # {}
    BY <1>1 DEF Outstanding
  <2> QED BY <1>0, <1>4, <2>1, Types DEF QuietBetweenBlocks
<1>13. Judged'
  <2>1. pc'[Master] \notin {"none", "assertFailed"} => pc[Master] \notin {"none", "assertFailed"}
    BY <1>1, <1>4, Types, <1>0
  <2>2. \A u \in Threads : pc'[u] = "enter" => pc[u] = "enter" /\ fOk'[u] = fOk[u] /\ batch'[u] = batch[u]
    BY <1>4, <1>5, <1>6
  <2>3. \A u \in Threads : batch'[u] # {} /\ ~fOk'[u] => (batch[u] # {} /\ ~fOk[u]) \/ ~fAllOk
    BY <1>5, <1>6
  <2> QED BY <1>0, <1>1, <1>7, <2>1, <2>2, <2>3 DEF Judged
<1> QED BY <1>8, <1>9, <1>10, <1>11, <1>12, <1>13 DEF IInv, Accounted

\* A batch is evaluated: fOk speaks for it, or another check has failed.
LEMMA ExecuteStep == ASSUME IInv, NEW t \in Threads, Execute(t) PROVE IInv'
<1>0. TypeOK /\ Placed /\ Accounted /\ QuietBetweenBlocks /\ Judged
  BY DEF IInv
<1>1. /\ pc[t] = "working" /\ pc' = [pc EXCEPT ![t] = "enter"]
      /\ fOk' = [fOk EXCEPT ![t] = fOk[t] /\ batch[t] \cap BadChecks = {}]
      /\ UNCHANGED <<mutex, queue, nIdle, nTotal, nTodo, fAllOk, batch, added, verdict, nSpurious>>
  BY DEF Execute
<1>2. /\ pc' \in [Threads -> PCs] /\ pc'[t] = "enter"
      /\ \A u \in Threads \ {t} : pc'[u] = pc[u]
  BY <1>0, <1>1, Types DEF PCs
<1>3. /\ fOk' \in [Threads -> BOOLEAN]
      /\ fOk'[t] <=> (fOk[t] /\ batch[t] \cap BadChecks = {})
      /\ \A u \in Threads \ {t} : fOk'[u] = fOk[u]
  BY <1>0, <1>1, Types
<1>4. batch[t] # {} /\ Outstanding' = Outstanding
  BY <1>0, <1>1 DEF Placed, Outstanding
<1>5. Accounted'
  <2>1. IdleThreads' = IdleThreads
    BY <1>1, <1>2 DEF IdleThreads
  <2>2. Pool' = Pool
    BY <1>1, <1>2, <1>4 DEF Pool, InPool
  <2> QED BY <1>0, <1>1, <2>1, <2>2, AccountsKept
<1>6. TypeOK'
  BY <1>0, <1>1, <1>2, <1>3 DEF TypeOK
<1>7. Placed'
  BY <1>0, <1>1, <1>2, <1>4, Types DEF Placed
<1>8. QuietBetweenBlocks'
  BY <1>0, <1>1, <1>2, <1>4, Types DEF QuietBetweenBlocks
<1>9. Judged'
  <2>1. pc'[Master] \notin {"none", "assertFailed"} => pc[Master] \notin {"none", "assertFailed"}
    BY <1>1, <1>2, Types, <1>0
  <2>2. \A u \in Threads \ {t} : pc'[u] = pc[u] /\ fOk'[u] = fOk[u]
    BY <1>2, <1>3
  <2>3. batch[t] \subseteq added
    BY <1>0, BatchOutstanding DEF Accounted
  <2>4. fOk'[t] => batch[t] \cap BadChecks = {}
    BY <1>3
  <2>5. pc[Master] \notin {"none", "assertFailed"} /\ ~fOk'[t] => added \cap BadChecks # {}
    BY <1>0, <1>3, <1>4, <2>3 DEF Judged
  <2> QED BY <1>0, <1>1, <1>4, <2>1, <2>2, <2>4, <2>5 DEF Judged
<1> QED BY <1>5, <1>6, <1>7, <1>8, <1>9 DEF IInv

\* The invariant is inductive.
LEMMA NextIInv == ASSUME IInv, [Next]_vars PROVE IInv'
<1>1. CASE UNCHANGED vars
  BY <1>1 DEF vars, IInv, TypeOK, Placed, Accounted, Outstanding, TodoExact, CountersExact, InPool,
              QuietBetweenBlocks, Judged
<1>2. CASE NewControl \/ AssertionFails \/ Wait
  BY <1>2, MoveStep
<1>3. CASE Aborted
  BY <1>1, <1>3 DEF Aborted
<1>4. CASE Add
  BY <1>4, AddStep
<1>5. CASE Finish
  BY <1>5, FinishStep
<1>6. ASSUME NEW t \in Threads, LoopStep(t) PROVE IInv'
  BY <1>6, EnterStep, WaitStep, TakeStep, ExecuteStep DEF LoopStep
<1>7. ASSUME NEW t \in Threads, SpuriousWakeUp(t) PROVE IInv'
  BY <1>7, MoveStep
<1>8. ASSUME NEW w \in Workers, Interrupt(w) PROVE IInv'
  BY <1>8, MoveStep
<1> QED BY <1>1, <1>2, <1>3, <1>4, <1>5, <1>6, <1>7, <1>8 DEF Next

\* The invariant holds in every behaviour.
LEMMA AlwaysIInv == Spec => []IInv
  BY InitIInv, NextIInv, PTL DEF Spec

-----------------------------------------------------------------------------
\* Loop keeps its accounts whatever the number of threads and the order of their critical
\* sections, of wake-ups and of interrupts: nTodo counts each outstanding check once and
\* does not wrap, nIdle and nTotal are the numbers of waiting and of all pool members, and
\* the queue is as good as new between two blocks.
THEOREM AccountsCorrect == Spec => []AccountsExact
<1>1. IInv => AccountsExact
  BY DEF IInv, Accounted, AccountsExact
<1> QED BY <1>1, AlwaysIInv, PTL

\* A step of Finish decides: the verdict is that of all checks added.
LEMMA VerdictRight == ASSUME IInv, Finish PROVE verdict' = (added \cap BadChecks = {})
<1>1. Outstanding = {}
  BY NoneOutstanding DEF Finish, MayLeave, IInv, Accounted
<1>2. pc[Master] = "locked" /\ verdict' = fAllOk /\ fAllOk \in BOOLEAN
  BY Types DEF Finish, IInv
<1>3. fAllOk <=> added \cap BadChecks = {}
  BY <1>1, <1>2 DEF IInv, Judged
<1> QED BY <1>2, <1>3

\* Every step of the threads is a step of the control object, or none of its business.
LEMMA StepRefines == ASSUME IInv, [Next]_vars PROVE [Abstract!Next]_(Abstract!vars)
<1>0. TypeOK /\ Placed
  BY DEF IInv
<1>1. CASE UNCHANGED vars
  BY <1>1 DEF vars, Abstract!vars
<1>2. CASE NewControl
  <2>1. pc[Master] = "none" /\ pc'[Master] = "open" /\ added' = {} /\ verdict' = verdict
    BY <1>0, <1>2, Types DEF NewControl
  <2> QED BY <2>1 DEF Abstract!Next, Abstract!Construct
<1>3. CASE AssertionFails
  <2>1. pc[Master] = "none" /\ pc'[Master] = "assertFailed" /\ UNCHANGED <<added, verdict>>
    BY <1>0, <1>3, Types DEF AssertionFails
  <2> QED BY <2>1 DEF Abstract!vars
<1>4. CASE Aborted
  BY <1>1, <1>4 DEF Aborted
<1>5. CASE Add
  <2>1. PICK S \in SUBSET (Checks \ added) : added' = added \cup S
    BY <1>5 DEF Add
  <2>2. pc[Master] = "open" /\ verdict' = verdict
    BY <1>5 DEF Add
  <2>3. pc'[Master] = "open"
    <3>1. PICK W \in SUBSET {u \in Threads : pc[u] = "waiting"} : pc' = Wake(W)
      BY <1>5 DEF Add, Woken, Threads
    <3> QED BY <1>0, <2>2, <3>1, WakeMoves, Types
  <2> QED BY <2>1, <2>2, <2>3 DEF Abstract!Next, Abstract!Add
<1>6. CASE Wait
  <2>1. pc[Master] = "open" /\ pc'[Master] = "enter" /\ UNCHANGED <<added, verdict>>
    BY <1>0, <1>6, Types DEF Wait
  <2> QED BY <2>1 DEF Abstract!Next, Abstract!BeginWait
<1>7. CASE Finish
  <2>1. pc[Master] = "locked" /\ pc'[Master] = "none" /\ added' = added
    BY <1>0, <1>7, Types DEF Finish
  <2> QED BY <1>7, <2>1, VerdictRight DEF Abstract!Next, Abstract!Decide
<1>8. ASSUME (\E t \in Threads : LoopStep(t) \/ SpuriousWakeUp(t)) \/ (\E w \in Workers : Interrupt(w))
      PROVE  UNCHANGED Abstract!vars
  <2> DEFINE
        Waits == \/ pc'[Master] = pc[Master]
                 \/ /\ pc[Master] \in {"enter", "locked", "waiting", "woken", "working"}
                    /\ pc'[Master] \in {"enter", "locked", "waiting", "woken", "working"}
  <2>1. UNCHANGED <<added, verdict>>
    BY <1>8 DEF LoopStep, Enter, Sleep, WakeUp, Take, Execute, SpuriousWakeUp, Interrupt
  <2>2. Waits
    <3>1. ASSUME NEW t \in Threads, Enter(t)
          PROVE  Waits
      <4>1. Informed(t) \in SUBSET {u \in Threads : pc[u] = "waiting"}
        BY DEF Informed, Threads
      <4> QED BY <1>0, <3>1, <4>1, WakeMoves, Types DEF Enter
    <3>2. ASSUME NEW t \in Threads,
                 Sleep(t) \/ WakeUp(t) \/ Take(t) \/ Execute(t) \/ SpuriousWakeUp(t)
          PROVE  Waits
      BY <1>0, <3>2, Types DEF Sleep, WakeUp, Take, Execute, SpuriousWakeUp
    <3>3. ASSUME NEW w \in Workers, Interrupt(w)
          PROVE  Waits
      BY <1>0, <3>3, Types, ThreadsAssumption DEF Interrupt
    <3> QED BY <1>8, <3>1, <3>2, <3>3 DEF LoopStep
  <2> QED BY <2>1, <2>2 DEF Abstract!vars
<1> QED BY <1>1, <1>2, <1>3, <1>4, <1>5, <1>6, <1>7, <1>8 DEF Next

\* The queue keeps the promise of CCheckQueueControl for any number of workers: Wait
\* returns only when all checks have been evaluated, and returns their conjunction.
THEOREM RefinementCorrect == Spec => ImplementsAbstract
<1>1. Init => Abstract!Init
  BY ThreadsAssumption DEF Init, Abstract!Init, Threads
<1>2. IInv /\ [Next]_vars => [Abstract!Next]_(Abstract!vars)
  BY StepRefines
<1> QED BY <1>1, <1>2, AlwaysIInv, PTL DEF Spec, ImplementsAbstract, Abstract!Spec
=============================================================================
