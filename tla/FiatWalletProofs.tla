-------------------------- MODULE FiatWalletProofs --------------------------
(***************************************************************************)
(* TLAPS proofs about Locker and FiatWallet, for every set of calls,       *)
(* amounts, lease and retry count.  The lock comes first: its inductive    *)
(* invariant relates the clock each caller would see (age) to the key's    *)
(* remaining lease in Redis.  The wallet's proofs rest on it: every step   *)
(* of updateBalance is a step of the lock or leaves it alone.              *)
(***************************************************************************)
EXTENDS FiatWallet, TLAPS

-----------------------------------------------------------------------------
(* The lock.                                                               *)

(* A callback whose lease was not lost is the holder, and Redis agrees     *)
(* with the caller's own clock about how long the lease still lasts.       *)
LeaseInv ==
    \A c \in Callers :
        Active(c) /\ ~LeaseLost(c) => holder = c /\ remaining = Ttl - age[c]

(* A caller that was intruded upon no longer owns the key, and a caller    *)
(* that has not acquired it yet cannot have been intruded upon.            *)
IntruderInv ==
    \A c \in Callers :
        /\ intruder[c] /\ Active(c) => holder # c
        /\ pc[c] \in {"idle", "acquiring"} => ~intruder[c]

(* Only a finished call has an outcome.                                    *)
OutcomeInv ==
    \A c \in Callers : outcome[c] # "none" => pc[c] = "done"

(* The inductive invariant of the lock.                                    *)
LockerInv ==
    /\ LockerTypeOK
    /\ LeaseInv
    /\ IntruderInv
    /\ OutcomeInv
    /\ ReportedMeansNoIntruder
    /\ NoSpuriousLoss

(* Type correctness: every variable of the lock keeps its type.            *)
THEOREM LockerTyping == LockerSpec => []LockerTypeOK
<1> USE LockerAssumption DEF LockerTypeOK, Results, Outcomes, Phases
<1>1. LockerInit => LockerTypeOK
  BY DEF LockerInit
<1>2. LockerTypeOK /\ [LockerNext]_lockVars => LockerTypeOK'
  <2> SUFFICES ASSUME LockerTypeOK, [LockerNext]_lockVars
               PROVE  LockerTypeOK'
    OBVIOUS
  <2>1. ASSUME NEW c \in Callers, Call(c) PROVE LockerTypeOK'
    BY <2>1 DEF Call
  <2>2. ASSUME NEW c \in Callers, SaveOk(c) PROVE LockerTypeOK'
    BY <2>2 DEF SaveOk, Active
  <2>3. ASSUME NEW c \in Callers, SaveBusy(c) PROVE LockerTypeOK'
    <3>1. attempts' \in [Callers -> 0..(RetryCount - 1)]
      BY <2>3 DEF SaveBusy
    <3>2. QED  BY <2>3, <3>1 DEF SaveBusy
  <2>4. ASSUME NEW c \in Callers, Extend(c) PROVE LockerTypeOK'
    BY <2>4 DEF Extend
  <2>5. ASSUME NEW c \in Callers, Release(c) PROVE LockerTypeOK'
    BY <2>5 DEF Release, Reported
  <2>6. ASSUME NEW c \in Callers, Crash(c) PROVE LockerTypeOK'
    BY <2>6 DEF Crash
  <2>7. ASSUME NEW c \in Callers, NEW r \in Results, CallbackReturns(c, r)
        PROVE  LockerTypeOK'
    BY <2>7 DEF CallbackReturns
  <2>8. CASE ForceRelease
    BY <2>8 DEF ForceRelease
  <2>9. CASE Tick
    BY <2>9 DEF Tick
  <2>10. CASE UNCHANGED lockVars
    BY <2>10 DEF lockVars
  <2> QED
    BY <2>1, <2>2, <2>3, <2>4, <2>5, <2>6, <2>7, <2>8, <2>9, <2>10
       DEF LockerNext
<1> QED
  BY <1>1, <1>2, PTL DEF LockerSpec

(* Each step of the lock preserves the invariant, one step per action.     *)
LEMMA LockerInvPreserved ==
  ASSUME LockerInv, LockerTypeOK', [LockerNext]_lockVars
  PROVE  LockerInv'
<1> USE LockerAssumption DEF LockerInv, LockerTypeOK, LeaseInv, IntruderInv,
        OutcomeInv, ReportedMeansNoIntruder, NoSpuriousLoss, Active, LeaseLost
<1>1. ASSUME NEW c \in Callers, Call(c) PROVE LockerInv'
  BY <1>1 DEF Call
<1>2. ASSUME NEW c \in Callers, SaveOk(c) PROVE LockerInv'
  BY <1>2 DEF SaveOk
<1>3. ASSUME NEW c \in Callers, SaveBusy(c) PROVE LockerInv'
  BY <1>3 DEF SaveBusy
<1>4. ASSUME NEW c \in Callers, Extend(c) PROVE LockerInv'
  BY <1>4 DEF Extend
<1>5. ASSUME NEW c \in Callers, Release(c) PROVE LockerInv'
  BY <1>5 DEF Release, Reported
<1>6. ASSUME NEW c \in Callers, Crash(c) PROVE LockerInv'
  BY <1>6 DEF Crash
<1>7. ASSUME NEW c \in Callers, NEW r \in Results, CallbackReturns(c, r)
      PROVE  LockerInv'
  BY <1>7 DEF CallbackReturns
<1>8. CASE ForceRelease
  BY <1>8 DEF ForceRelease
<1>9. CASE Tick
  BY <1>9 DEF Tick
<1>10. CASE UNCHANGED lockVars
  BY <1>10 DEF lockVars
<1> QED
  BY <1>1, <1>2, <1>3, <1>4, <1>5, <1>6, <1>7, <1>8, <1>9, <1>10
     DEF LockerNext

(* The invariant holds in every reachable state.                           *)
THEOREM LockerSafety == LockerSpec => []LockerInv
<1>1. LockerInit => LockerInv
  BY LockerAssumption
     DEF LockerInit, LockerInv, LockerTypeOK, LeaseInv, IntruderInv, OutcomeInv,
         ReportedMeansNoIntruder, NoSpuriousLoss, Active, Results, Outcomes,
         Phases
<1>2. LockerInv /\ LockerTypeOK' /\ [LockerNext]_lockVars => LockerInv'
  BY LockerInvPreserved
<1> QED
  BY <1>1, <1>2, LockerTyping, PTL DEF LockerSpec

(* Two callbacks of one key overlap only after a lease was lost: what the  *)
(* balance updates and the webhook handlers rely on when they take a lock. *)
THEOREM LockerMutex == LockerSpec => []MutexWithinLease
<1>1. LockerInv => MutexWithinLease
  BY DEF LockerInv, LeaseInv, MutexWithinLease
<1> QED
  BY <1>1, LockerSafety, PTL

(* A result or an error of the callback is reported only when no other     *)
(* callback started meanwhile (the compare-and-delete of release()).       *)
THEOREM LockerReported == LockerSpec => []ReportedMeansNoIntruder
<1>1. LockerInv => ReportedMeansNoIntruder
  BY DEF LockerInv
<1> QED
  BY <1>1, LockerSafety, PTL

(* LockNotOwnedError reaches only a caller that lost its lease.            *)
THEOREM LockerNoSpuriousLoss == LockerSpec => []NoSpuriousLoss
<1>1. LockerInv => NoSpuriousLoss
  BY DEF LockerInv
<1> QED
  BY <1>1, LockerSafety, PTL

(* The key is removed by its owner, by its expiry or by forceRelease, and  *)
(* never handed over directly.                                             *)
THEOREM LockerOnlyOwnerReleases == LockerSpec => OnlyOwnerReleases
<1> DEFINE A == holder # NoOwner /\ holder' # holder =>
                  /\ holder' = NoOwner
                  /\ \/ pc[holder] = "releasing" /\ pc'[holder] = "done"
                     \/ remaining = 1 /\ pc' = pc
                     \/ evicted'[holder]
<1>1. LockerTypeOK /\ [LockerNext]_lockVars => [A]_lockVars
  <2> SUFFICES ASSUME LockerTypeOK, LockerNext,
                      holder # NoOwner, holder' # holder
               PROVE  /\ holder' = NoOwner
                      /\ \/ pc[holder] = "releasing" /\ pc'[holder] = "done"
                         \/ remaining = 1 /\ pc' = pc
                         \/ evicted'[holder]
    OBVIOUS
  <2> USE DEF LockerTypeOK
  <2>1. ASSUME NEW c \in Callers, Release(c)
        PROVE  holder = c /\ holder' = NoOwner /\ pc[c] = "releasing"
                 /\ pc'[c] = "done"
    BY <2>1 DEF Release
  <2>2. CASE ForceRelease
    BY <2>2 DEF ForceRelease
  <2>3. CASE Tick
    BY <2>3 DEF Tick
  <2>4. ASSUME NEW c \in Callers,
               Call(c) \/ SaveOk(c) \/ SaveBusy(c) \/ Extend(c) \/ Crash(c)
                 \/ \E r \in Results : CallbackReturns(c, r)
        PROVE  FALSE
    BY <2>4 DEF Call, SaveOk, SaveBusy, Extend, Crash, CallbackReturns
  <2> QED
    BY <2>1, <2>2, <2>3, <2>4 DEF LockerNext
<1> QED
  BY <1>1, LockerTyping, PTL DEF LockerSpec, OnlyOwnerReleases

-----------------------------------------------------------------------------
(* The wallet.                                                             *)

(* A call that has not acquired the lock has done nothing yet.             *)
FreshInv ==
    \A c \in Callers :
        pc[c] \in {"idle", "acquiring"} => age[c] = 0 /\ step[c] = "start"

(* The row lock belongs to the call whose UPDATE is not yet committed, and *)
(* what it wrote is what it read plus its amount.                          *)
RowInv ==
    /\ \A c \in Callers : step[c] = "written" <=> rowLock = c
    /\ \A c \in Callers : rowLock = c => written = seen[c] + Amount[c]

(* Every value that was read, checked or written is not negative.          *)
FundsInv ==
    /\ NeverOverdrawn
    /\ \A c \in Callers :
          /\ seen[c] >= 0
          /\ step[c] = "checked" => Sufficient(c)

(* While nothing disturbs the account, a callback between its read and its *)
(* commit works on the current balance.                                    *)
UndisturbedInv ==
    ~Disturbed =>
        /\ \A c \in Callers :
              pc[c] = "callback" /\ step[c] \in {"read", "checked"}
                  => seen[c] = balance
        /\ \A c \in Callers : rowLock = c => seen[c] = balance
        /\ balance = InitialBalance + credited

ReportInv ==
    /\ ReportMatchesEffect
    /\ \A c \in Callers \ OuterTrx :
          pc[c] = "releasing" =>
              step[c] = IF pending[c] = "value" THEN "committed" ELSE "failed"
    /\ \A c \in Callers : pending[c] \in {"value", "error"}
    /\ \A c \in Callers : step[c] = "written" /\ c \notin OuterTrx
                              => pc[c] = "callback"

WalletInv == FreshInv /\ RowInv /\ FundsInv /\ UndisturbedInv /\ ReportInv

-----------------------------------------------------------------------------
(* Every step of the wallet is a step of the lock, or leaves the lock      *)
(* alone.                                                                  *)
LEMMA WalletStepIsLockerStep == ASSUME [Next]_vars PROVE [LockerNext]_lockVars
<1> USE DEF Results
<1>1. ASSUME NEW c \in Callers, LockStep(c) PROVE LockerNext
  BY <1>1 DEF LockStep, LockerNext
<1>2. ASSUME NEW c \in Callers,
             ReadWallet(c) \/ CheckTransaction(c) \/ WriteBalance(c)
               \/ CommitOwn(c) \/ DbError(c) \/ CommitOuter(c)
               \/ RollbackOuter(c)
      PROVE  UNCHANGED lockVars
  BY <1>2 DEF ReadWallet, CheckTransaction, WriteBalance, CommitOwn, DbError,
              CommitOuter, RollbackOuter
<1>3. ASSUME NEW c \in Callers, UpdateReturns(c) PROVE LockerNext
  BY <1>3 DEF UpdateReturns, LockerNext
<1>4. ASSUME NEW c \in Callers, CrashUpdate(c) PROVE LockerNext
  BY <1>4 DEF CrashUpdate, LockerNext
<1>5. CASE Expire
  BY <1>5 DEF Expire, LockerNext
<1>6. CASE UNCHANGED vars
  BY <1>6 DEF vars
<1> QED
  BY <1>1, <1>2, <1>3, <1>4, <1>5, <1>6 DEF Next

(* The lock's theorems hold of the wallet's lock.                          *)
THEOREM WalletImplementsLocker == Spec => LockerSpec
<1>1. Init => LockerInit
  BY DEF Init
<1>2. [Next]_vars => [LockerNext]_lockVars
  BY WalletStepIsLockerStep
<1> QED
  BY <1>1, <1>2, PTL DEF Spec, LockerSpec

(* Type correctness of the wallet.                                         *)
THEOREM WalletTyping == Spec => []TypeOK
<1> USE LockerAssumption, FiatWalletAssumption DEF TypeOK, Steps
<1>1. Init => TypeOK
  <2>1. LockerInit => LockerTypeOK
    BY DEF LockerInit, LockerTypeOK, Results, Outcomes, Phases
  <2> QED
    BY <2>1 DEF Init
<1>2. TypeOK /\ LockerTypeOK' /\ [Next]_vars => TypeOK'
  <2> SUFFICES ASSUME TypeOK, LockerTypeOK', [Next]_vars
               PROVE  TypeOK'
    OBVIOUS
  <2>1. ASSUME NEW c \in Callers, LockStep(c) PROVE TypeOK'
    BY <2>1 DEF LockStep, walletVars
  <2>2. ASSUME NEW c \in Callers, ReadWallet(c) PROVE TypeOK'
    BY <2>2 DEF ReadWallet
  <2>3. ASSUME NEW c \in Callers, CheckTransaction(c) PROVE TypeOK'
    BY <2>3 DEF CheckTransaction
  <2>4. ASSUME NEW c \in Callers, WriteBalance(c) PROVE TypeOK'
    BY <2>4 DEF WriteBalance
  <2>5. ASSUME NEW c \in Callers, CommitOwn(c) PROVE TypeOK'
    BY <2>5 DEF CommitOwn, Commit
  <2>6. ASSUME NEW c \in Callers, DbError(c) PROVE TypeOK'
    BY <2>6 DEF DbError, Rollback
  <2>7. ASSUME NEW c \in Callers, UpdateReturns(c) PROVE TypeOK'
    BY <2>7 DEF UpdateReturns, walletVars
  <2>8. ASSUME NEW c \in Callers, CommitOuter(c) PROVE TypeOK'
    BY <2>8 DEF CommitOuter, Commit
  <2>9. ASSUME NEW c \in Callers, RollbackOuter(c) PROVE TypeOK'
    BY <2>9 DEF RollbackOuter, Rollback
  <2>10. ASSUME NEW c \in Callers, CrashUpdate(c) PROVE TypeOK'
    BY <2>10 DEF CrashUpdate, Rollback
  <2>11. CASE Expire
    BY <2>11 DEF Expire, walletVars
  <2>12. CASE UNCHANGED vars
    BY <2>12 DEF vars, walletVars
  <2> QED
    BY <2>1, <2>2, <2>3, <2>4, <2>5, <2>6, <2>7, <2>8, <2>9, <2>10, <2>11,
       <2>12 DEF Next
<1> QED
  BY <1>1, <1>2, WalletImplementsLocker, LockerTyping, PTL DEF Spec

-----------------------------------------------------------------------------
(* A waiting call stays untouched.                                         *)
LEMMA FreshPreserved ==
  ASSUME TypeOK, FreshInv, [Next]_vars
  PROVE  FreshInv'
<1> USE LockerAssumption, FiatWalletAssumption
        DEF TypeOK, LockerTypeOK, Steps, FreshInv, Active
<1>1. ASSUME NEW c \in Callers, LockStep(c) PROVE FreshInv'
  BY <1>1 DEF LockStep, walletVars, Call, SaveOk, SaveBusy, Release, Reported
<1>2. ASSUME NEW c \in Callers, ReadWallet(c) PROVE FreshInv'
  BY <1>2 DEF ReadWallet, lockVars
<1>3. ASSUME NEW c \in Callers, CheckTransaction(c) PROVE FreshInv'
  BY <1>3 DEF CheckTransaction, lockVars
<1>4. ASSUME NEW c \in Callers, WriteBalance(c) PROVE FreshInv'
  BY <1>4 DEF WriteBalance, lockVars
<1>5. ASSUME NEW c \in Callers, CommitOwn(c) PROVE FreshInv'
  BY <1>5 DEF CommitOwn, Commit, lockVars
<1>6. ASSUME NEW c \in Callers, DbError(c) PROVE FreshInv'
  BY <1>6 DEF DbError, Rollback, lockVars
<1>7. ASSUME NEW c \in Callers, UpdateReturns(c) PROVE FreshInv'
  BY <1>7 DEF UpdateReturns, walletVars, CallbackReturns, Finished
<1>8. ASSUME NEW c \in Callers, CommitOuter(c) PROVE FreshInv'
  BY <1>8 DEF CommitOuter, Commit, lockVars
<1>9. ASSUME NEW c \in Callers, RollbackOuter(c) PROVE FreshInv'
  BY <1>9 DEF RollbackOuter, Rollback, lockVars
<1>10. ASSUME NEW c \in Callers, CrashUpdate(c) PROVE FreshInv'
  BY <1>10 DEF CrashUpdate, Crash, Rollback
<1>11. CASE Expire
  BY <1>11 DEF Expire, Tick, walletVars
<1>12. CASE UNCHANGED vars
  BY <1>12 DEF vars, walletVars, lockVars
<1> QED
  BY <1>1, <1>2, <1>3, <1>4, <1>5, <1>6, <1>7,
     <1>8, <1>9, <1>10, <1>11, <1>12 DEF Next

(* Row lock and step of its owner change together.                         *)
LEMMA RowPreserved ==
  ASSUME TypeOK, RowInv, [Next]_vars
  PROVE  RowInv'
<1> USE LockerAssumption, FiatWalletAssumption
        DEF TypeOK, LockerTypeOK, Steps, RowInv, Results
<1>1. ASSUME NEW c \in Callers, LockStep(c) PROVE RowInv'
  BY <1>1 DEF LockStep, walletVars, Call, SaveOk, SaveBusy, Release, Reported
<1>2. ASSUME NEW c \in Callers, ReadWallet(c) PROVE RowInv'
  BY <1>2 DEF ReadWallet, lockVars
<1>3. ASSUME NEW c \in Callers, CheckTransaction(c) PROVE RowInv'
  BY <1>3 DEF CheckTransaction, lockVars
<1>4. ASSUME NEW c \in Callers, WriteBalance(c) PROVE RowInv'
  BY <1>4 DEF WriteBalance, lockVars
<1>5. ASSUME NEW c \in Callers, CommitOwn(c) PROVE RowInv'
  BY <1>5 DEF CommitOwn, Commit, lockVars
<1>6. ASSUME NEW c \in Callers, DbError(c) PROVE RowInv'
  BY <1>6 DEF DbError, Rollback, lockVars
<1>7. ASSUME NEW c \in Callers, UpdateReturns(c) PROVE RowInv'
  BY <1>7 DEF UpdateReturns, walletVars, CallbackReturns, Finished
<1>8. ASSUME NEW c \in Callers, CommitOuter(c) PROVE RowInv'
  BY <1>8 DEF CommitOuter, Commit, lockVars
<1>9. ASSUME NEW c \in Callers, RollbackOuter(c) PROVE RowInv'
  BY <1>9 DEF RollbackOuter, Rollback, lockVars
<1>10. ASSUME NEW c \in Callers, CrashUpdate(c) PROVE RowInv'
  BY <1>10 DEF CrashUpdate, Crash, Rollback
<1>11. CASE Expire
  BY <1>11 DEF Expire, Tick, walletVars
<1>12. CASE UNCHANGED vars
  BY <1>12 DEF vars, walletVars, lockVars
<1> QED
  BY <1>1, <1>2, <1>3, <1>4, <1>5, <1>6, <1>7,
     <1>8, <1>9, <1>10, <1>11, <1>12 DEF Next

(* No step makes a read, checked or written value negative.                *)
LEMMA FundsPreserved ==
  ASSUME TypeOK, RowInv, FundsInv, [Next]_vars
  PROVE  FundsInv'
<1> USE LockerAssumption, FiatWalletAssumption
        DEF TypeOK, LockerTypeOK, Steps, RowInv, FundsInv,
            NeverOverdrawn, Sufficient
<1>1. ASSUME NEW c \in Callers, LockStep(c) PROVE FundsInv'
  BY <1>1 DEF LockStep, walletVars, Call, SaveOk, SaveBusy, Release, Reported
<1>2. ASSUME NEW c \in Callers, ReadWallet(c) PROVE FundsInv'
  BY <1>2 DEF ReadWallet, lockVars
<1>3. ASSUME NEW c \in Callers, CheckTransaction(c) PROVE FundsInv'
  BY <1>3 DEF CheckTransaction, lockVars
<1>4. ASSUME NEW c \in Callers, WriteBalance(c) PROVE FundsInv'
  BY <1>4 DEF WriteBalance, lockVars
<1>5. ASSUME NEW c \in Callers, CommitOwn(c) PROVE FundsInv'
  BY <1>5 DEF CommitOwn, Commit, lockVars
<1>6. ASSUME NEW c \in Callers, DbError(c) PROVE FundsInv'
  BY <1>6 DEF DbError, Rollback, lockVars
<1>7. ASSUME NEW c \in Callers, UpdateReturns(c) PROVE FundsInv'
  BY <1>7 DEF UpdateReturns, walletVars, CallbackReturns, Finished
<1>8. ASSUME NEW c \in Callers, CommitOuter(c) PROVE FundsInv'
  BY <1>8 DEF CommitOuter, Commit, lockVars
<1>9. ASSUME NEW c \in Callers, RollbackOuter(c) PROVE FundsInv'
  BY <1>9 DEF RollbackOuter, Rollback, lockVars
<1>10. ASSUME NEW c \in Callers, CrashUpdate(c) PROVE FundsInv'
  BY <1>10 DEF CrashUpdate, Crash, Rollback
<1>11. CASE Expire
  BY <1>11 DEF Expire, Tick, walletVars
<1>12. CASE UNCHANGED vars
  BY <1>12 DEF vars, walletVars, lockVars
<1> QED
  BY <1>1, <1>2, <1>3, <1>4, <1>5, <1>6, <1>7,
     <1>8, <1>9, <1>10, <1>11, <1>12 DEF Next

(* Trust, once lost, is not regained: age is reset only by the SET of a    *)
(* call that had none, and a committed call stays committed.               *)
LEMMA DisturbedStable ==
  ASSUME TypeOK, RowInv, FreshInv, [Next]_vars
  PROVE  (Disturbed => Disturbed')
<1> USE LockerAssumption, FiatWalletAssumption
        DEF TypeOK, LockerTypeOK, Steps, RowInv, FreshInv,
            Disturbed, LeaseLost, Active
<1>1. ASSUME NEW c \in Callers, LockStep(c) PROVE (Disturbed => Disturbed')
  BY <1>1 DEF LockStep, walletVars, Call, SaveOk, SaveBusy, Release, Reported
<1>2. ASSUME NEW c \in Callers, ReadWallet(c) PROVE (Disturbed => Disturbed')
  BY <1>2 DEF ReadWallet, lockVars
<1>3. ASSUME NEW c \in Callers, CheckTransaction(c)
      PROVE  (Disturbed => Disturbed')
  BY <1>3 DEF CheckTransaction, lockVars
<1>4. ASSUME NEW c \in Callers, WriteBalance(c) PROVE (Disturbed => Disturbed')
  BY <1>4 DEF WriteBalance, lockVars
<1>5. ASSUME NEW c \in Callers, CommitOwn(c) PROVE (Disturbed => Disturbed')
  BY <1>5 DEF CommitOwn, Commit, lockVars
<1>6. ASSUME NEW c \in Callers, DbError(c) PROVE (Disturbed => Disturbed')
  BY <1>6 DEF DbError, Rollback, lockVars
<1>7. ASSUME NEW c \in Callers, UpdateReturns(c) PROVE (Disturbed => Disturbed')
  BY <1>7 DEF UpdateReturns, walletVars, CallbackReturns, Finished
<1>8. ASSUME NEW c \in Callers, CommitOuter(c) PROVE (Disturbed => Disturbed')
  BY <1>8 DEF CommitOuter, Commit, lockVars
<1>9. ASSUME NEW c \in Callers, RollbackOuter(c) PROVE (Disturbed => Disturbed')
  BY <1>9 DEF RollbackOuter, Rollback, lockVars
<1>10. ASSUME NEW c \in Callers, CrashUpdate(c) PROVE (Disturbed => Disturbed')
  BY <1>10 DEF CrashUpdate, Crash, Rollback
<1>11. CASE Expire
  BY <1>11 DEF Expire, Tick, walletVars
<1>12. CASE UNCHANGED vars
  BY <1>12 DEF vars, walletVars, lockVars
<1> QED
  BY <1>1, <1>2, <1>3, <1>4, <1>5, <1>6, <1>7,
     <1>8, <1>9, <1>10, <1>11, <1>12 DEF Next

(* Outcome and effect of a call stay consistent.                           *)
LEMMA ReportPreserved ==
  ASSUME TypeOK, LockerInv, RowInv, FreshInv, ReportInv, [Next]_vars
  PROVE  ReportInv'
<1> USE LockerAssumption, FiatWalletAssumption
        DEF TypeOK, LockerTypeOK, Steps, LockerInv, OutcomeInv, RowInv,
            FreshInv, ReportInv,
            ReportMatchesEffect, Phases, Outcomes, Results
<1>1. ASSUME NEW c \in Callers, LockStep(c) PROVE ReportInv'
  BY <1>1 DEF LockStep, walletVars, Call, SaveOk, SaveBusy, Release, Reported
<1>2. ASSUME NEW c \in Callers, ReadWallet(c) PROVE ReportInv'
  BY <1>2 DEF ReadWallet, lockVars
<1>3. ASSUME NEW c \in Callers, CheckTransaction(c) PROVE ReportInv'
  BY <1>3 DEF CheckTransaction, lockVars
<1>4. ASSUME NEW c \in Callers, WriteBalance(c) PROVE ReportInv'
  BY <1>4 DEF WriteBalance, lockVars
<1>5. ASSUME NEW c \in Callers, CommitOwn(c) PROVE ReportInv'
  BY <1>5 DEF CommitOwn, Commit, lockVars
<1>6. ASSUME NEW c \in Callers, DbError(c) PROVE ReportInv'
  BY <1>6 DEF DbError, Rollback, lockVars
<1>7. ASSUME NEW c \in Callers, UpdateReturns(c) PROVE ReportInv'
  BY <1>7 DEF UpdateReturns, walletVars, CallbackReturns, Finished
<1>8. ASSUME NEW c \in Callers, CommitOuter(c) PROVE ReportInv'
  BY <1>8 DEF CommitOuter, Commit, lockVars
<1>9. ASSUME NEW c \in Callers, RollbackOuter(c) PROVE ReportInv'
  BY <1>9 DEF RollbackOuter, Rollback, lockVars
<1>10. ASSUME NEW c \in Callers, CrashUpdate(c) PROVE ReportInv'
  BY <1>10 DEF CrashUpdate, Crash, Rollback
<1>11. CASE Expire
  BY <1>11 DEF Expire, Tick, walletVars
<1>12. CASE UNCHANGED vars
  BY <1>12 DEF vars, walletVars, lockVars
<1> QED
  BY <1>1, <1>2, <1>3, <1>4, <1>5, <1>6, <1>7,
     <1>8, <1>9, <1>10, <1>11, <1>12 DEF Next

(* Two calls that have kept their leases are not in the callback together, *)
(* so a commit of one cannot make the value another has read stale.        *)
LEMMA UndisturbedPreserved ==
  ASSUME TypeOK, LockerInv, RowInv, FreshInv, ReportInv, UndisturbedInv,
         [Next]_vars
  PROVE  UndisturbedInv'
<1> USE LockerAssumption, FiatWalletAssumption DEF TypeOK, LockerTypeOK, Steps
<1> SUFFICES ASSUME ~Disturbed' PROVE UndisturbedInv'
  BY DEF UndisturbedInv
<1>a. ~Disturbed
  BY DisturbedStable
<1>b. \A c, d \in Callers :
         pc[c] = "callback" /\ pc[d] = "callback" => c = d
  BY <1>a DEF Disturbed, LockerInv, LeaseInv, Active
<1> USE <1>a DEF UndisturbedInv
<1>1. ASSUME NEW c \in Callers, LockStep(c) PROVE UndisturbedInv'
  BY <1>1 DEF LockStep, walletVars, Call, SaveOk, SaveBusy, Release, FreshInv
<1>2. ASSUME NEW c \in Callers, ReadWallet(c) PROVE UndisturbedInv'
  BY <1>2 DEF ReadWallet, lockVars, RowInv
<1>3. ASSUME NEW c \in Callers, CheckTransaction(c) PROVE UndisturbedInv'
  BY <1>3 DEF CheckTransaction, lockVars
<1>4. ASSUME NEW c \in Callers, WriteBalance(c) PROVE UndisturbedInv'
  BY <1>4 DEF WriteBalance, lockVars
<1>5. ASSUME NEW c \in Callers, CommitOwn(c) PROVE UndisturbedInv'
  <2>1. balance' = balance + Amount[c] /\ credited' = credited + Amount[c]
    BY <1>5 DEF CommitOwn, Commit, RowInv
  <2>2. ASSUME NEW d \in Callers, pc'[d] = "callback",
               step'[d] \in {"read", "checked"}
        PROVE  FALSE
    BY <1>5, <1>b, <2>2 DEF CommitOwn, Commit, lockVars
  <2>3. rowLock' = NoOwner
    BY <1>5 DEF CommitOwn, Commit
  <2> QED
    BY <2>1, <2>2, <2>3
<1>6. ASSUME NEW c \in Callers, DbError(c) PROVE UndisturbedInv'
  BY <1>6 DEF DbError, Rollback, lockVars
<1>7. ASSUME NEW c \in Callers, UpdateReturns(c) PROVE UndisturbedInv'
  BY <1>7 DEF UpdateReturns, walletVars, CallbackReturns
<1>8. ASSUME NEW c \in Callers, CommitOuter(c) PROVE UndisturbedInv'
  BY <1>8 DEF CommitOuter, Commit, Disturbed
<1>9. ASSUME NEW c \in Callers, RollbackOuter(c) PROVE UndisturbedInv'
  BY <1>9 DEF RollbackOuter, Rollback, lockVars
<1>10. ASSUME NEW c \in Callers, CrashUpdate(c) PROVE UndisturbedInv'
  BY <1>10 DEF CrashUpdate, Crash, Rollback
<1>11. CASE Expire
  BY <1>11 DEF Expire, Tick, walletVars
<1>12. CASE UNCHANGED vars
  BY <1>12 DEF vars, walletVars, lockVars
<1> QED
  BY <1>1, <1>2, <1>3, <1>4, <1>5, <1>6, <1>7,
     <1>8, <1>9, <1>10, <1>11, <1>12 DEF Next

(* The inductive invariant of the wallet holds in every reachable state.   *)
THEOREM WalletSafety == Spec => []WalletInv
<1>1. Init => WalletInv
  BY LockerAssumption, FiatWalletAssumption
     DEF Init, LockerInit, WalletInv, FreshInv, RowInv, FundsInv,
         NeverOverdrawn, UndisturbedInv, ReportInv, ReportMatchesEffect
<1>2. TypeOK /\ LockerInv /\ WalletInv /\ [Next]_vars => WalletInv'
  BY FreshPreserved, RowPreserved, FundsPreserved, UndisturbedPreserved,
     ReportPreserved DEF WalletInv
<1> QED
  BY <1>1, <1>2, WalletTyping, WalletImplementsLocker, LockerSafety, PTL
     DEF Spec

(* No lost update while no lease is lost and no balance is committed after *)
(* its Redis lock was released.                                            *)
THEOREM WalletNoLostUpdate == Spec => []NoLostUpdate
<1>1. WalletInv => NoLostUpdate
  BY DEF WalletInv, UndisturbedInv, NoLostUpdate
<1> QED
  BY <1>1, WalletSafety, PTL

(* The wallet is never overdrawn, disturbed or not.                        *)
THEOREM WalletNeverOverdrawn == Spec => []NeverOverdrawn
<1>1. WalletInv => NeverOverdrawn
  BY DEF WalletInv, FundsInv
<1> QED
  BY <1>1, WalletSafety, PTL

(* A call's result tells whether its update was committed.                 *)
THEOREM WalletReport == Spec => []ReportMatchesEffect
<1>1. WalletInv => ReportMatchesEffect
  BY DEF WalletInv, ReportInv
<1> QED
  BY <1>1, WalletSafety, PTL

-----------------------------------------------------------------------------
(* Every step of updateBalance is an atomic step of the account, the loss  *)
(* of its trust, or invisible to it.                                       *)
LEMMA WalletStepSimulation ==
  ASSUME TypeOK, LockerInv, WalletInv, WalletInv', [Next]_vars
  PROVE  [AccountRef!Next]_<<balance, ~Disturbed>>
<1> USE LockerAssumption, FiatWalletAssumption DEF TypeOK
<1>a. Disturbed => Disturbed'
  BY DisturbedStable DEF WalletInv
<1>b. balance' >= 0 /\ balance \in Int
  BY DEF WalletInv, FundsInv, NeverOverdrawn
<1>1. CASE balance' = balance
  BY <1>1, <1>a DEF AccountRef!Next, AccountRef!LoseTrust
<1>2. ASSUME NEW c \in Callers, CommitOwn(c) \/ CommitOuter(c)
      PROVE  AccountRef!Next
  <2>1. rowLock = c /\ balance' = written /\ balance' \in Int
    BY <1>2 DEF CommitOwn, CommitOuter, Commit, WalletInv, RowInv
  <2>2. CASE Disturbed
    BY <2>2, <2>1, <1>a, <1>b DEF AccountRef!Next, AccountRef!Untrusted
  <2>3. CASE ~Disturbed
    <3>1. balance' = balance + Amount[c]
      BY <2>1, <2>3 DEF WalletInv, RowInv, UndisturbedInv
    <3>2. AccountRef!Apply(Amount[c])
      BY <3>1, <2>3, <1>b DEF AccountRef!Apply
    <3> QED
      BY <3>2 DEF AccountRef!Next
  <2> QED
    BY <2>2, <2>3
<1>3. ASSUME NEW c \in Callers,
             LockStep(c) \/ ReadWallet(c) \/ CheckTransaction(c)
               \/ WriteBalance(c) \/ DbError(c) \/ UpdateReturns(c)
               \/ RollbackOuter(c) \/ CrashUpdate(c)
      PROVE  balance' = balance
  BY <1>3 DEF LockStep, ReadWallet, CheckTransaction, WriteBalance, DbError,
              UpdateReturns, RollbackOuter, CrashUpdate, walletVars
<1>4. CASE Expire
  BY <1>4, <1>1 DEF Expire, walletVars
<1>5. CASE UNCHANGED vars
  BY <1>5, <1>1 DEF vars, walletVars
<1> QED
  BY <1>1, <1>2, <1>3, <1>4, <1>5 DEF Next

(* updateBalance implements the atomic account.                            *)
THEOREM WalletRefinesAccount == Spec => AccountSpec
<1>1. Init => AccountRef!Init
  BY LockerAssumption, FiatWalletAssumption
     DEF Init, LockerInit, AccountRef!Init, Disturbed, LeaseLost
<1>2. TypeOK /\ LockerInv /\ WalletInv /\ WalletInv' /\ [Next]_vars
        => [AccountRef!Next]_<<balance, ~Disturbed>>
  BY WalletStepSimulation
<1> QED
  BY <1>1, <1>2, WalletTyping, WalletImplementsLocker, LockerSafety,
     WalletSafety, PTL DEF Spec, AccountSpec, AccountRef!Spec
=============================================================================
