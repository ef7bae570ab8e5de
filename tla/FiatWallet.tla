----------------------------- MODULE FiatWallet -----------------------------
(***************************************************************************)
(* FiatWalletService.updateBalance (src/src/modules/fiatWallet) on one     *)
(* wallet row: a read-modify-write inside LockerService.withLock, writing  *)
(* the ABSOLUTE new balance.  The lock is module Locker itself; this       *)
(* module says what its callbacks do.                                      *)
(*                                                                         *)
(* PostgreSQL runs at READ COMMITTED: a read sees the last committed row,  *)
(* an UPDATE locks the row until its transaction ends and waits for        *)
(* another transaction that has it locked.  A call without knexTransaction *)
(* opens and commits its own transaction inside the callback; a call that  *)
(* is given one returns, and releases the Redis lock, before its caller    *)
(* commits.                                                                *)
(***************************************************************************)
EXTENDS Locker, Integers

CONSTANTS
    Amount,          \* amount passed by each call (negative: a withdrawal)
    TxOf,            \* the transactions row each call works for
    OuterTrx,        \* calls that are given the caller's knexTransaction
    InitialBalance

ASSUME FiatWalletAssumption ==
    /\ Amount \in [Callers -> Int]
    /\ OuterTrx \subseteq Callers
    /\ Runners = {}
    /\ InitialBalance \in Nat

VARIABLES
    balance,      \* committed fiat_wallets.balance
    rowLock,      \* the call whose transaction has the row locked
    written,      \* its uncommitted balance
    step,         \* how far each callback is
    seen,         \* wallet.balance as read by the callback
    completed,    \* transactions whose committed status is COMPLETED
    credited      \* observer: sum of the amounts that were committed

walletVars == <<balance, rowLock, written, step, seen, completed, credited>>
vars == <<lockVars, walletVars>>

Steps == {"start", "read", "checked", "written", "committed", "failed"}

TypeOK ==
    /\ LockerTypeOK
    /\ balance \in Int
    /\ rowLock \in Callers \cup {NoOwner}
    /\ written \in Int
    /\ step \in [Callers -> Steps]
    /\ seen \in [Callers -> Int]
    /\ completed \subseteq {TxOf[c] : c \in Callers}
    /\ credited \in Int

Init ==
    /\ LockerInit
    /\ balance = InitialBalance
    /\ rowLock = NoOwner
    /\ written = 0
    /\ step = [c \in Callers |-> "start"]
    /\ seen = [c \in Callers |-> 0]
    /\ completed = {}
    /\ credited = 0

-----------------------------------------------------------------------------
(* Variant: the wallet is read before the lock is taken.                   *)
ReadBeforeLock(c) ==
    /\ pc[c] \in {"acquiring", "callback"}
    /\ step[c] = "start"
    /\ seen' = [seen EXCEPT ![c] = balance]
    /\ step' = [step EXCEPT ![c] = "read"]
    /\ UNCHANGED <<lockVars, balance, rowLock, written, completed, credited>>

(* findById(walletId, undefined, knexTransaction).                         *)
ReadWallet(c) ==
    /\ pc[c] = "callback"
    /\ step[c] = "start"
    /\ seen' = [seen EXCEPT ![c] = balance]
    /\ step' = [step EXCEPT ![c] = "read"]
    /\ UNCHANGED <<lockVars, balance, rowLock, written, completed, credited>>

(* The transaction must not be COMPLETED yet, and a withdrawal must not    *)
(* take the balance that was read below zero.                              *)
Sufficient(c) == Amount[c] < 0 => seen[c] + Amount[c] >= 0

CheckTransaction(c) ==
    /\ pc[c] = "callback"
    /\ step[c] = "read"
    /\ step' = [step EXCEPT ![c] =
                  IF TxOf[c] \notin completed /\ Sufficient(c)
                  THEN "checked" ELSE "failed"]
    /\ UNCHANGED <<lockVars, balance, rowLock, written, seen, completed,
                   credited>>

(* updateBalanceWithTransaction: UPDATE fiat_wallets SET balance = seen +  *)
(* amount, then the fiat wallet transaction row, in the same transaction.  *)
WriteBalance(c) ==
    /\ pc[c] = "callback"
    /\ step[c] = "checked"
    /\ rowLock = NoOwner
    /\ rowLock' = c
    /\ written' = seen[c] + Amount[c]
    /\ step' = [step EXCEPT ![c] = "written"]
    /\ UNCHANGED <<lockVars, balance, seen, completed, credited>>

Commit(c) ==
    /\ balance' = written
    /\ credited' = credited + Amount[c]
    /\ rowLock' = NoOwner
    /\ written' = 0
    /\ step' = [step EXCEPT ![c] = "committed"]

Rollback(c) ==
    /\ rowLock' = IF rowLock = c THEN NoOwner ELSE rowLock
    /\ written' = IF rowLock = c THEN 0 ELSE written
    /\ step' = [step EXCEPT ![c] = "failed"]

(* fiatWalletRepository.transaction(...) commits before the callback ends. *)
CommitOwn(c) ==
    /\ c \notin OuterTrx
    /\ pc[c] = "callback"
    /\ step[c] = "written"
    /\ Commit(c)
    /\ UNCHANGED <<lockVars, seen, completed>>

(* Variant: the balance is written outside the database transaction.       *)
DbErrorKeepsWrite(c) ==
    /\ pc[c] = "callback"
    /\ step[c] \in {"start", "read", "checked", "written"}
    /\ Rollback(c)
    /\ balance' = IF rowLock = c THEN written ELSE balance
    /\ UNCHANGED <<lockVars, seen, completed, credited>>

(* A statement of the callback fails: 'Failed to update wallet balance'.   *)
DbError(c) ==
    /\ pc[c] = "callback"
    /\ step[c] \in {"start", "read", "checked", "written"}
    /\ Rollback(c)
    /\ UNCHANGED <<lockVars, balance, seen, completed, credited>>

(* Variant: the callback does not await the commit.                        *)
FinishedBeforeCommit(c) == step[c] = "written"

(* The callback returns the updated wallet or throws.                      *)
Finished(c) == step[c] = IF c \in OuterTrx THEN "written" ELSE "committed"

UpdateReturns(c) ==
    \/ /\ Finished(c)
       /\ CallbackReturns(c, "value")
       /\ UNCHANGED walletVars
    \/ /\ step[c] = "failed"
       /\ CallbackReturns(c, "error")
       /\ UNCHANGED walletVars

(* The caller that supplied knexTransaction marks the transaction          *)
(* COMPLETED in it and commits, after withLock has returned.               *)
CommitOuter(c) ==
    /\ c \in OuterTrx
    /\ pc[c] = "done"
    /\ outcome[c] = "value"
    /\ step[c] = "written"
    /\ Commit(c)
    /\ completed' = completed \cup {TxOf[c]}
    /\ UNCHANGED <<lockVars, seen>>

(* ... or rolls back: because withLock threw, or for a failure of its own. *)
RollbackOuter(c) ==
    /\ c \in OuterTrx
    /\ pc[c] = "done"
    /\ step[c] = "written"
    /\ Rollback(c)
    /\ UNCHANGED <<lockVars, balance, seen, completed, credited>>

(* A dying process loses its database connection: PostgreSQL rolls back.   *)
CrashUpdate(c) ==
    /\ Crash(c)
    /\ IF step[c] = "committed"
       THEN UNCHANGED <<rowLock, written, step>>
       ELSE Rollback(c)
    /\ UNCHANGED <<balance, seen, completed, credited>>

LockStep(c) ==
    /\ Call(c) \/ SaveOk(c) \/ SaveBusy(c) \/ Release(c)
    /\ UNCHANGED walletVars

Expire == Tick /\ UNCHANGED walletVars

Next ==
    \/ \E c \in Callers :
          \/ LockStep(c)
          \/ ReadWallet(c)
          \/ CheckTransaction(c)
          \/ WriteBalance(c)
          \/ CommitOwn(c)
          \/ DbError(c)
          \/ UpdateReturns(c)
          \/ CommitOuter(c)
          \/ RollbackOuter(c)
          \/ CrashUpdate(c)
    \/ Expire

Spec == Init /\ [][Next]_vars

-----------------------------------------------------------------------------
(* What takes the trust away: a lease that ran out under a callback, or a  *)
(* balance committed after its Redis lock was released.                    *)
Disturbed ==
    \E c \in Callers :
        LeaseLost(c) \/ (c \in OuterTrx /\ step[c] = "committed")

(* No lost update: the balance is the initial one plus every amount that   *)
(* was committed, although each call writes an absolute value it computed  *)
(* from an earlier read.                                                   *)
NoLostUpdate == ~Disturbed => balance = InitialBalance + credited

(* The wallet is never overdrawn, not even by calls that lost their lease  *)
(* or that committed late: each writes a value it checked.                 *)
NeverOverdrawn == balance >= 0 /\ (rowLock # NoOwner => written >= 0)

(* The result a caller gets tells it what happened to the money: a value   *)
(* means the update is committed, an error of the callback or of acquire() *)
(* that nothing was written.  (LockNotOwnedError tells it nothing.)        *)
ReportMatchesEffect ==
    \A c \in Callers \ OuterTrx :
        /\ outcome[c] = "value" => step[c] = "committed"
        /\ outcome[c] \in {"callbackError", "notAcquired"} =>
               step[c] # "committed" /\ rowLock # c

(* updateBalance implements an atomic account as long as it is undisturbed.*)
AccountRef == INSTANCE Account
                WITH Amounts <- {Amount[c] : c \in Callers},
                     trusted <- ~Disturbed

AccountSpec == AccountRef!Spec
=============================================================================
