---------------------------- MODULE WalletUnlock ----------------------------
(***************************************************************************)
(* How long an encrypted wallet stays unlocked (src/rpcwallet.cpp,         *)
(* src/rpcserver.cpp, src/wallet.cpp, src/qt/walletmodel.cpp).  Commands   *)
(* and the user interface unlock the wallet under cs_wallet; the timer     *)
(* that locks it again runs in a thread of its own and takes only the      *)
(* locks of the key store and of nWalletUnlockTime.                        *)
(***************************************************************************)
EXTENDS Integers

CONSTANTS Timeouts,   \* the time-outs given to walletpassphrase
          Gui,        \* whether the graphical interface unlocks the wallet
          MaxTime,    \* bound on the clock
          MaxQueued   \* bound on the handlers of the timer that wait to run

WalletUnlockAssumption ==
    /\ Timeouts \subseteq Nat
    /\ Gui \in BOOLEAN
    /\ MaxTime \in Nat \ {0}
    /\ MaxQueued \in Nat

VARIABLES
    now,
    locked,             \* vMasterKey is empty
    nWalletUnlockTime,  \* what getinfo shows as unlocked_until
    timer,              \* the deadline "lockwallet" waits for
    queued,             \* its handlers that are due and have not run
    command,            \* the command that holds cs_wallet
    gui,                \* requestUnlock, and the UnlockContext it makes
    until,              \* history: the time the last walletpassphrase promised
    missed              \* history: what would have locked the wallet ran, or looked at it, while
                        \* its passphrase was changed, or a walletpassphrase threw that had unlocked it

lockVars == <<now, locked, nWalletUnlockTime, timer, queued, command, gui, until, missed>>

NoTimer == -1
NoCommand == [pc |-> "idle", nSleepTime |-> 0, fWasLocked |-> FALSE]

(* ChangeWalletPassphrase is under way. *)
Changing == command.pc \in {"lock", "try", "relock"}

LockInit ==
    /\ now = 1
    /\ locked = TRUE
    /\ nWalletUnlockTime = 0
    /\ timer = NoTimer
    /\ queued = 0
    /\ command = NoCommand
    /\ gui = "none"
    /\ until = 0
    /\ missed = FALSE

(* The clock, bounded so that no deadline lies beyond MaxTime. *)
Tick ==
    /\ now + command.nSleepTime < MaxTime
    /\ now' = now + 1
    /\ UNCHANGED <<locked, nWalletUnlockTime, timer, queued, command, gui, until, missed>>

-----------------------------------------------------------------------------
(* walletpassphrase unlocks the wallet, ... *)
WalletPassphrase(t) ==
    /\ command.pc = "idle"
    /\ now + t <= MaxTime
    /\ locked' = FALSE
    /\ command' = [NoCommand EXCEPT !.pc = "topup", !.nSleepTime = t]
    /\ UNCHANGED <<now, nWalletUnlockTime, timer, queued, gui, until, missed>>

(* ... fills the key pool, which throws if the wallet is locked meanwhile, ... *)
TopUpThrows ==
    /\ command.pc = "topup"
    /\ locked
    /\ command' = NoCommand
    /\ UNCHANGED <<now, locked, nWalletUnlockTime, timer, queued, gui, until, missed>>

TopUpReturns ==
    /\ command.pc = "topup"
    /\ command' = [command EXCEPT !.pc = "arm"]
    /\ UNCHANGED <<now, locked, nWalletUnlockTime, timer, queued, gui, until, missed>>

(* ... reads the time-out, which throws if it is no number, ... *)
TimeoutThrows ==
    /\ command.pc = "arm"
    /\ command' = NoCommand
    /\ missed' = ~locked
    /\ UNCHANGED <<now, locked, nWalletUnlockTime, timer, queued, gui, until>>

(* ... and sets the timer.  RPCRunLater cancels a wait that is not yet due; a
   handler that is due runs all the same. *)
ArmTimer ==
    /\ command.pc = "arm"
    /\ nWalletUnlockTime' = now + command.nSleepTime
    /\ timer' = now + command.nSleepTime
    /\ until' = now + command.nSleepTime
    /\ command' = NoCommand
    /\ missed' = FALSE
    /\ UNCHANGED <<now, locked, queued, gui>>

TimerDue ==
    /\ timer # NoTimer
    /\ now >= timer
    /\ queued < MaxQueued
    /\ timer' = NoTimer
    /\ queued' = queued + 1
    /\ UNCHANGED <<now, locked, nWalletUnlockTime, command, gui, until, missed>>

(* Mutant: the handler only resets the time. *)
LockWallet_TimeOnly ==
    /\ queued > 0
    /\ queued' = queued - 1
    /\ nWalletUnlockTime' = 0
    /\ missed' = Changing
    /\ UNCHANGED <<now, locked, timer, command, gui, until>>

(* LockWallet, the handler of the timer. *)
LockWallet ==
    /\ queued > 0
    /\ queued' = queued - 1
    /\ nWalletUnlockTime' = 0
    /\ locked' = TRUE
    /\ missed' = Changing
    /\ UNCHANGED <<now, timer, command, gui, until>>

(* walletlock; the timer is left alone. *)
WalletLock ==
    /\ command.pc = "idle"
    /\ locked' = TRUE
    /\ nWalletUnlockTime' = 0
    /\ until' = 0
    /\ missed' = FALSE
    /\ UNCHANGED <<now, timer, queued, command, gui>>

-----------------------------------------------------------------------------
(* ChangeWalletPassphrase notes whether the wallet is locked, locks it, ... *)
ChangePassphrase ==
    /\ command.pc = "idle"
    /\ command' = [NoCommand EXCEPT !.pc = "lock", !.fWasLocked = locked]
    /\ UNCHANGED <<now, locked, nWalletUnlockTime, timer, queued, gui, until, missed>>

ChangeLocks ==
    /\ command.pc = "lock"
    /\ locked' = TRUE
    /\ command' = [command EXCEPT !.pc = "try"]
    /\ UNCHANGED <<now, nWalletUnlockTime, timer, queued, gui, until, missed>>

(* ... stops if the old passphrase is wrong, ... *)
ChangeFails ==
    /\ command.pc = "try"
    /\ command' = NoCommand
    /\ missed' = FALSE
    /\ UNCHANGED <<now, locked, nWalletUnlockTime, timer, queued, gui, until>>

(* ... and else unlocks it, writes the master key, and locks it again if it
   was locked before. *)
ChangeUnlocks ==
    /\ command.pc = "try"
    /\ locked' = FALSE
    /\ command' = [command EXCEPT !.pc = "relock"]
    /\ UNCHANGED <<now, nWalletUnlockTime, timer, queued, gui, until, missed>>

ChangeDone ==
    /\ command.pc = "relock"
    /\ locked' = (command.fWasLocked \/ locked)
    /\ missed' = (missed /\ ~command.fWasLocked /\ ~locked)
    /\ command' = NoCommand
    /\ UNCHANGED <<now, nWalletUnlockTime, timer, queued, gui, until>>

-----------------------------------------------------------------------------
(* WalletModel::requestUnlock looks, without cs_wallet, whether the wallet is
   locked.  If not, the context it makes will do nothing.  If it is, it shows the
   dialog, which returns after it has unlocked the wallet under cs_wallet, ... *)
RequestUnlock ==
    /\ Gui
    /\ gui = "none"
    /\ locked
    /\ gui' = "asking"
    /\ UNCHANGED <<now, locked, nWalletUnlockTime, timer, queued, command, until, missed>>

DialogUnlocks ==
    /\ gui = "asking"
    /\ command.pc = "idle"
    /\ locked' = FALSE
    /\ gui' = "answered"
    /\ UNCHANGED <<now, nWalletUnlockTime, timer, queued, command, until, missed>>

(* ... or was cancelled, ... *)
DialogCancelled ==
    /\ gui = "asking"
    /\ gui' = "answered"
    /\ UNCHANGED <<now, locked, nWalletUnlockTime, timer, queued, command, until, missed>>

(* ... looks again, and makes a context that locks the wallet at its end if the
   wallet is unlocked now. *)
ReadValid ==
    /\ gui = "answered"
    /\ gui' = IF locked THEN "none" ELSE "holds"
    /\ missed' = IF locked THEN Changing ELSE missed
    /\ UNCHANGED <<now, locked, nWalletUnlockTime, timer, queued, command, until>>

(* Mutant: the duty to lock goes to a copy that is never destroyed. *)
UnlockContextEnds_Copied ==
    /\ gui = "holds"
    /\ UNCHANGED lockVars

UnlockContextEnds ==
    /\ gui = "holds"
    /\ gui' = "none"
    /\ locked' = TRUE
    /\ missed' = Changing
    /\ UNCHANGED <<now, nWalletUnlockTime, timer, queued, command, until>>

(* What goes on by itself, with the clock: the timer's thread, the user interface
   once the dialog is closed, and a command until it returns. *)
Timer == TimerDue \/ LockWallet
Context == ReadValid \/ UnlockContextEnds
Command ==
    \/ TopUpThrows \/ TopUpReturns \/ TimeoutThrows \/ ArmTimer
    \/ ChangeLocks \/ ChangeFails \/ ChangeUnlocks \/ ChangeDone

LockNext ==
    \/ Tick \/ Timer \/ Context \/ Command
    \/ \E t \in Timeouts : WalletPassphrase(t)
    \/ WalletLock \/ ChangePassphrase
    \/ RequestUnlock \/ DialogUnlocks \/ DialogCancelled

LockSpec == LockInit /\ [][LockNext]_lockVars

-----------------------------------------------------------------------------
LockTypeOK ==
    /\ now \in 1..MaxTime /\ until \in 0..MaxTime
    /\ locked \in BOOLEAN /\ gui \in {"none", "asking", "answered", "holds"} /\ missed \in BOOLEAN
    /\ nWalletUnlockTime \in 0..MaxTime
    /\ timer \in {NoTimer} \cup 0..MaxTime
    /\ queued \in 0..MaxQueued
    /\ command \in [pc : {"idle", "topup", "arm", "lock", "try", "relock"},
                    nSleepTime : {0} \cup Timeouts, fWasLocked : BOOLEAN]

(* A lock time that getinfo announces is the one the timer waits for, or its
   handler is due: whatever order commands and handlers run in, no announced
   time is left without a lock behind it. *)
AnnouncedTimeArmed ==
    /\ nWalletUnlockTime # 0 => timer # NoTimer \/ queued > 0
    /\ timer # NoTimer /\ nWalletUnlockTime # 0 => nWalletUnlockTime = timer

(* An unlocked wallet always has something that will lock it: a command, a
   requestUnlock after its dialog or its context, a timer that waits or a handler
   that is due, unless that ran while the passphrase was changed, or
   walletpassphrase threw. *)
UnlockedGuarded ==
    ~locked => \/ command.pc # "idle" \/ gui \in {"answered", "holds"}
               \/ timer # NoTimer \/ queued > 0 \/ missed

(* The lock time getinfo announces has a timer behind it, and an unlocked wallet has
   something that will lock it (walletpassphrase, LockWallet, UnlockContext), ... *)
LockArmed == LockTypeOK /\ AnnouncedTimeArmed /\ UnlockedGuarded

(* ... and is locked in the end, unless a further command takes its time.
   walletpassphrase: "Stores the wallet decryption key in memory for 'timeout'
   seconds". *)
\* Where missed holds the code does not keep this (README, section 4).
AlwaysRelocked ==
    ~locked /\ command.pc = "idle" /\ ~missed ~> locked \/ command.pc # "idle"

(* walletpassphrase: "will set a new unlock time that overrides the old one".
   The timer does not lock the wallet before the time that was promised. *)
\* The code does not keep this (README, section 4).
OldTimeOverridden ==
    [][queued' < queued /\ ~locked /\ command.pc = "idle" => now >= until]_lockVars

(* getinfo: unlocked_until is "0 if the wallet is locked". *)
\* The code does not keep this (README, section 4).
UnlockedUntilTrue == locked /\ command.pc = "idle" => nWalletUnlockTime = 0
=============================================================================
