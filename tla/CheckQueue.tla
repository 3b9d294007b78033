------------------------------- MODULE CheckQueue -------------------------------
(***************************************************************************)
(* CCheckQueue (checkqueue.h): the script checks of a block are evaluated  *)
(* by worker threads and by the master, the thread inside ConnectBlock,    *)
(* which joins the pool in Wait().                                         *)
(*                                                                         *)
(* A thread's critical section is cut where another thread can look: the   *)
(* counters nIdle and nTotal are read by CCheckQueueControl's constructor  *)
(* without the mutex.  The queue is a set, since the order of the checks   *)
(* does not matter (checkqueue.h:39).  fQuit is never set, so workers only *)
(* end when they are interrupted in their wait.                            *)
(***************************************************************************)
EXTENDS Integers, FiniteSets

CONSTANTS
    Workers,       \* the threads running ThreadScriptCheck
    Master,        \* the thread that connects a block
    NoThread,      \* the owner of an unlocked mutex
    Checks,        \* the script checks of a block
    BadChecks,     \* those that evaluate to false
    nBatchSize,    \* 128 in main.cpp
    MaxSpurious    \* bound on spurious wake-ups

Threads == Workers \cup {Master}

ASSUME ThreadsAssumption ==
    /\ Master \notin Workers
    /\ NoThread \notin Threads
    /\ IsFiniteSet(Workers)

ASSUME ChecksAssumption ==
    /\ IsFiniteSet(Checks)
    /\ BadChecks \subseteq Checks
    /\ nBatchSize \in Nat \ {0}
    /\ MaxSpurious \in Nat

VARIABLES
    mutex,       \* the thread that holds the mutex
    pc,          \* where each thread is
    queue,       \* checks not taken yet
    nIdle,
    nTotal,
    nTodo,
    fAllOk,
    batch,       \* vChecks of each thread; its size is nNow
    fOk,         \* local of Loop
    added,       \* history: the checks added since the constructor
    verdict,     \* what the last Wait() returned
    nSpurious    \* spurious wake-ups so far

vars == <<mutex, pc, queue, nIdle, nTotal, nTodo, fAllOk, batch, fOk, added, verdict,
          nSpurious>>

-----------------------------------------------------------------------------
(* Helpers *)

\* Add: notify_one wakes one waiting worker, notify_all every one.
Woken(n) ==
    LET waiting == {w \in Workers : pc[w] = "waiting"} IN
    CASE n = 0 -> {{}}
      [] n = 1 -> IF waiting = {} THEN {{}} ELSE {{w} : w \in waiting}
      [] OTHER -> {waiting}

Wake(S) == [t \in Threads |-> IF t \in S THEN "woken" ELSE pc[t]]

\* The number of checks a thread takes at once.
BatchLimit ==
    LET share == Cardinality(queue) \div (nTotal + nIdle + 1)
        most  == IF nBatchSize < share THEN nBatchSize ELSE share
    IN IF most < 1 THEN 1 ELSE most

\* A failed assertion ends the process, and all its threads.
Running == pc[Master] # "assertFailed"

-----------------------------------------------------------------------------
(* The master *)

\* The assertions of CCheckQueueControl's constructor, which looks at the queue
\* without locking it.
Unused == nTotal = nIdle /\ nTodo = 0 /\ fAllOk

NewControl ==
    /\ pc[Master] = "none"
    /\ Unused
    /\ pc' = [pc EXCEPT ![Master] = "open"]
    /\ added' = {}
    /\ UNCHANGED <<mutex, queue, nIdle, nTotal, nTodo, fAllOk, batch, fOk, verdict, nSpurious>>

AssertionFails ==
    /\ pc[Master] = "none"
    /\ ~Unused
    /\ pc' = [pc EXCEPT ![Master] = "assertFailed"]
    /\ UNCHANGED <<mutex, queue, nIdle, nTotal, nTodo, fAllOk, batch, fOk, added, verdict,
                   nSpurious>>

Aborted == ~Running /\ UNCHANGED vars

\* Add: one critical section.
Add ==
    /\ pc[Master] = "open"
    /\ mutex = NoThread
    /\ \E S \in SUBSET (Checks \ added) :
          /\ queue' = queue \cup S
          /\ nTodo' = nTodo + Cardinality(S)
          /\ added' = added \cup S
          /\ \E W \in Woken(Cardinality(S)) : pc' = Wake(W)
    /\ UNCHANGED <<mutex, nIdle, nTotal, fAllOk, batch, fOk, verdict, nSpurious>>

\* Wait, from ConnectBlock or from the destructor after an early return.
Wait ==
    /\ pc[Master] = "open"
    /\ pc' = [pc EXCEPT ![Master] = "enter"]
    /\ UNCHANGED <<mutex, queue, nIdle, nTotal, nTodo, fAllOk, batch, fOk, added, verdict,
                   nSpurious>>

-----------------------------------------------------------------------------
(* Loop *)

\* Mutant of Merged: the verdict of the last batch replaces the others'.
Merged_Overwrite(t) == fOk[t]

\* fAllOk &= fOk
Merged(t) == fAllOk /\ fOk[t]

\* Mutant of Remaining: one check of the batch is accounted for, not all.
Remaining_One(t) == nTodo - 1

\* nTodo -= nNow
Remaining(t) == nTodo - Cardinality(batch[t])

\* Mutant of Informed: the master is told when any batch is done, not the last,
\* and the worker that does finish the last one keeps silent.
Informed_NotLast(t) == IF nTodo # Cardinality(batch[t]) /\ t # Master /\ pc[Master] = "waiting"
                       THEN {Master} ELSE {}

\* The worker that finishes the last check notifies the master.
Informed(t) == IF Remaining(t) = 0 /\ t # Master /\ pc[Master] = "waiting"
               THEN {Master} ELSE {}

\* Take the mutex and account for the previous batch, or join the pool.
Enter(t) ==
    /\ Running
    /\ pc[t] = "enter"
    /\ mutex = NoThread
    /\ mutex' = t
    /\ \/ /\ batch[t] # {}
          /\ fAllOk' = Merged(t)
          /\ nTodo' = Remaining(t)
          /\ pc' = [Wake(Informed(t)) EXCEPT ![t] = "locked"]
          /\ batch' = [batch EXCEPT ![t] = {}]
          /\ UNCHANGED nTotal
       \/ /\ batch[t] = {}
          /\ nTotal' = nTotal + 1
          /\ pc' = [pc EXCEPT ![t] = "locked"]
          /\ UNCHANGED <<fAllOk, nTodo, batch>>
    /\ UNCHANGED <<queue, nIdle, fOk, added, verdict, nSpurious>>

\* The condition under which Loop returns instead of waiting.
MayLeave(t) == t = Master /\ nTodo = 0

\* The queue is empty and nothing is outstanding: the master leaves.
Finish ==
    /\ pc[Master] = "locked"
    /\ queue = {}
    /\ MayLeave(Master)
    /\ nTotal' = nTotal - 1
    /\ verdict' = fAllOk
    /\ fAllOk' = TRUE
    /\ mutex' = NoThread
    /\ pc' = [pc EXCEPT ![Master] = "none"]
    /\ UNCHANGED <<queue, nIdle, nTodo, batch, fOk, added, nSpurious>>

\* The queue is empty: wait on condMaster or condWorker, which frees the mutex.
Sleep(t) ==
    /\ Running
    /\ pc[t] = "locked"
    /\ queue = {}
    /\ ~MayLeave(t)
    /\ nIdle' = nIdle + 1
    /\ mutex' = NoThread
    /\ pc' = [pc EXCEPT ![t] = "waiting"]
    /\ UNCHANGED <<queue, nTotal, nTodo, fAllOk, batch, fOk, added, verdict, nSpurious>>

\* Return from the wait with the mutex, for another look at the queue.
WakeUp(t) ==
    /\ Running
    /\ pc[t] = "woken"
    /\ mutex = NoThread
    /\ mutex' = t
    /\ nIdle' = nIdle - 1
    /\ pc' = [pc EXCEPT ![t] = "locked"]
    /\ UNCHANGED <<queue, nTotal, nTodo, fAllOk, batch, fOk, added, verdict, nSpurious>>

\* Move a batch out of the queue and free the mutex.
Take(t) ==
    /\ Running
    /\ pc[t] = "locked"
    /\ queue # {}
    /\ \E S \in SUBSET queue :
          /\ Cardinality(S) = BatchLimit
          /\ batch' = [batch EXCEPT ![t] = S]
          /\ queue' = queue \ S
    /\ fOk' = [fOk EXCEPT ![t] = fAllOk]
    /\ mutex' = NoThread
    /\ pc' = [pc EXCEPT ![t] = "working"]
    /\ UNCHANGED <<nIdle, nTotal, nTodo, fAllOk, added, verdict, nSpurious>>

\* Evaluate the batch, stopping at the first failure anywhere.
Execute(t) ==
    /\ Running
    /\ pc[t] = "working"
    /\ fOk' = [fOk EXCEPT ![t] = fOk[t] /\ batch[t] \cap BadChecks = {}]
    /\ pc' = [pc EXCEPT ![t] = "enter"]
    /\ UNCHANGED <<mutex, queue, nIdle, nTotal, nTodo, fAllOk, batch, added, verdict, nSpurious>>

\* A condition variable may wake a thread nobody notified.
SpuriousWakeUp(t) ==
    /\ Running
    /\ pc[t] = "waiting"
    /\ nSpurious < MaxSpurious
    /\ nSpurious' = nSpurious + 1
    /\ pc' = [pc EXCEPT ![t] = "woken"]
    /\ UNCHANGED <<mutex, queue, nIdle, nTotal, nTodo, fAllOk, batch, fOk, added, verdict>>

\* At shutdown interrupt_all ends a waiting worker by an exception, which leaves
\* the counters as they are.
Interrupt(w) ==
    /\ Running
    /\ pc[w] = "waiting"
    /\ pc' = [pc EXCEPT ![w] = "interrupted"]
    /\ UNCHANGED <<mutex, queue, nIdle, nTotal, nTodo, fAllOk, batch, fOk, added, verdict,
                   nSpurious>>

-----------------------------------------------------------------------------
Init ==
    /\ mutex = NoThread
    /\ pc = [t \in Threads |-> IF t = Master THEN "none" ELSE "enter"]
    /\ queue = {}
    /\ nIdle = 0
    /\ nTotal = 0
    /\ nTodo = 0
    /\ fAllOk = TRUE
    /\ batch = [t \in Threads |-> {}]
    /\ fOk = [t \in Threads |-> TRUE]
    /\ added = {}
    /\ verdict = TRUE
    /\ nSpurious = 0

LoopStep(t) == Enter(t) \/ Sleep(t) \/ WakeUp(t) \/ Take(t) \/ Execute(t)

Next ==
    \/ NewControl
    \/ AssertionFails
    \/ Aborted
    \/ Add
    \/ Wait
    \/ Finish
    \/ \E t \in Threads : LoopStep(t) \/ SpuriousWakeUp(t)
    \/ \E w \in Workers : Interrupt(w)

\* Every thread keeps running; nobody is obliged to start a new block.
Fairness == WF_vars(Finish) /\ \A t \in Threads : WF_vars(LoopStep(t))

Spec == Init /\ [][Next]_vars /\ Fairness

-----------------------------------------------------------------------------
PCs == {"none", "open", "enter", "locked", "waiting", "woken", "working",
        "interrupted", "assertFailed"}

\* The values every variable may hold; the counters never leave their range, so
\* the unsigned nTodo does not wrap and no thread is counted twice.
TypeOK ==
    /\ mutex \in Threads \cup {NoThread}
    /\ pc \in [Threads -> PCs]
    /\ queue \subseteq Checks
    /\ nIdle \in 0..Cardinality(Threads)
    /\ nTotal \in 0..Cardinality(Threads)
    /\ nTodo \in 0..Cardinality(Checks)
    /\ fAllOk \in BOOLEAN
    /\ batch \in [Threads -> SUBSET Checks]
    /\ fOk \in [Threads -> BOOLEAN]
    /\ added \subseteq Checks
    /\ verdict \in BOOLEAN
    /\ nSpurious \in 0..MaxSpurious

Outstanding == queue \cup UNION {batch[t] : t \in Threads}

\* nTodo counts the checks in the queue and in all batches, each once, whatever
\* threads are between taking a batch and accounting for it.
TodoExact ==
    /\ nTodo = Cardinality(Outstanding)
    /\ \A t \in Threads : /\ batch[t] \cap queue = {}
                           /\ \A u \in Threads \ {t} : batch[t] \cap batch[u] = {}

InPool(t) == \/ pc[t] \in {"locked", "waiting", "woken", "working", "interrupted"}
             \/ pc[t] = "enter" /\ batch[t] # {}

\* nIdle and nTotal are the numbers of waiting and of all pool members, although
\* wake-ups, spurious ones and interrupts happen in any order.
CountersExact ==
    /\ nIdle = Cardinality({t \in Threads : pc[t] \in {"waiting", "woken", "interrupted"}})
    /\ nTotal = Cardinality({t \in Threads : InPool(t)})

\* The master continues only when every check it added has been evaluated and the
\* queue is as good as new (checkqueue.h:155: "guarantees the passed queue is
\* finished before continuing").
QuietBetweenBlocks ==
    pc[Master] = "none" => Outstanding = {} /\ nTodo = 0 /\ fAllOk

\* Together: every thread's view of the queue and its counters agrees with what the
\* threads hold and do.
AccountsExact == TypeOK /\ TodoExact /\ CountersExact /\ QuietBetweenBlocks

\* The queue implements the abstract verification: the verdict is the conjunction
\* of the checks added, however they were batched and interleaved.
Abstract == INSTANCE BatchVerification WITH
    phase <- CASE pc[Master] \in {"none", "assertFailed"} -> "none"
               [] pc[Master] = "open" -> "open"
               [] OTHER -> "waiting"

ImplementsAbstract == Abstract!Spec

\* Wait returns: the master is told about the last check even when a worker
\* finishes it, and is not left waiting when workers are interrupted.
WaitReturns == pc[Master] = "enter" ~> pc[Master] = "none"

-----------------------------------------------------------------------------
\* checkqueue.h:167: "passed queue is supposed to be unused" whenever a block is
\* connected.  The constructor looks without the mutex, and a worker that holds it in
\* Loop may be counted in nTotal and not in nIdle: one that has just been started and
\* has not come to its first wait (between nTotal++ and nIdle++), or one that was
\* woken for an earlier block and found nothing to do (between nIdle-- and nIdle++).
QueueUnused == pc[Master] # "assertFailed"
=============================================================================
