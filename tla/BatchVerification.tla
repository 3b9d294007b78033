--------------------------- MODULE BatchVerification ---------------------------
(***************************************************************************)
(* What a CCheckQueueControl promises its owner (checkqueue.h): "guarantees*)
(* the passed queue is finished before continuing", and Wait() returns     *)
(* "whether all evaluations were successful".  Between construction and    *)
(* Wait the owner adds checks; the verdict is the conjunction of all of    *)
(* them, however many threads evaluate them in whatever order.             *)
(***************************************************************************)
CONSTANTS Checks, BadChecks

VARIABLES phase,    \* "none" | "open" | "waiting": the life of the control object
          added,    \* the checks handed over so far
          verdict   \* what the last Wait returned

vars == <<phase, added, verdict>>

Init == phase = "none" /\ added = {} /\ verdict = TRUE

Construct == /\ phase = "none"
             /\ phase' = "open"
             /\ added' = {}
             /\ UNCHANGED verdict

Add == /\ phase = "open"
       /\ \E S \in SUBSET (Checks \ added) : added' = added \cup S
       /\ UNCHANGED <<phase, verdict>>

BeginWait == /\ phase = "open"
             /\ phase' = "waiting"
             /\ UNCHANGED <<added, verdict>>

Decide == /\ phase = "waiting"
          /\ phase' = "none"
          /\ verdict' = (added \cap BadChecks = {})
          /\ UNCHANGED added

Next == Construct \/ Add \/ BeginWait \/ Decide

Spec == Init /\ [][Next]_vars
=============================================================================
