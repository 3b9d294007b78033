------------------------------- MODULE MCKeys -------------------------------
(***************************************************************************)
(* The key pool, the wallet database and the lock of the wallet.  The      *)
(* three models share no state, so one of them takes steps at a time and   *)
(* the others stay in their initial state: part says which.                *)
(***************************************************************************)
EXTENDS KeyPool, WalletUnlock, WalletDB

VARIABLE part

\* Three CReserveKeys on a plain wallet, and two on one that is encrypted and makes fewer keys.
StaysPlain == ~fUseCrypto'
Encrypts == holder'["c"] = NoReservation /\ nKeys' <= 5

\* The database has two threads and a kill; or it has Rewrite, and one of the threads starts late.
Rewritten == INSTANCE WalletDB WITH Early <- {"t1"}, CanRewrite <- TRUE, MaxKills <- 0

ASSUME KeysAssumption ==
    /\ KeyPoolAssumption /\ WalletUnlockAssumption
    /\ WalletDBAssumption /\ Rewritten!WalletDBAssumption

MCInit ==
    /\ part \in {"plain", "encrypted", "killed", "rewritten", "unlock"}
    /\ Init /\ LockInit /\ DbInit

MCNext ==
    /\ UNCHANGED part
    /\ \/ part = "plain" /\ Next /\ StaysPlain /\ UNCHANGED <<dbVars, lockVars>>
       \/ part = "encrypted" /\ Next /\ Encrypts /\ UNCHANGED <<dbVars, lockVars>>
       \/ part = "killed" /\ DbNext /\ UNCHANGED <<vars, lockVars>>
       \/ part = "rewritten" /\ Rewritten!DbNext /\ UNCHANGED <<vars, lockVars>>
       \/ part = "unlock" /\ LockNext /\ UNCHANGED <<vars, dbVars>>

\* The flushing thread, Rewrite and the CDBs; the clock, the timer, the command and the
\* user interface after its dialog.
Fairness ==
    /\ WF_dbVars(part = "rewritten" /\ Rewritten!Flusher)
    /\ WF_dbVars(part = "rewritten" /\ Rewritten!Rewriting)
    /\ \A t \in {"t1", "t2"} : WF_dbVars(part = "rewritten" /\ Rewritten!Scope(t))
    /\ WF_lockVars(part = "unlock" /\ Tick)
    /\ WF_lockVars(part = "unlock" /\ Timer)
    /\ WF_lockVars(part = "unlock" /\ Command)
    /\ WF_lockVars(part = "unlock" /\ Context)

MCSpec == MCInit /\ [][MCNext]_<<part, vars, dbVars, lockVars>> /\ Fairness
-----------------------------------------------------------------------------
\* wallet.dat gets every update the flushing thread knows of (ThreadFlushWalletDB).
RewrittenFlushed == part = "rewritten" => Rewritten!UpdatesFlushed
=============================================================================
