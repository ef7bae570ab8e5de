------------------------- MODULE PagaDepositProofs -------------------------
(***************************************************************************)
(* Proofs about PagaDeposit, for any number of references and deliveries,  *)
(* any notifications and with or without lasting leases.  The argument:    *)
(* whoever has written the ledger account is alone until it commits, so    *)
(* what it reads of the wallet and of the status stays true.               *)
(***************************************************************************)
EXTENDS PagaDeposit, TLAPS

Success(d) == Message[d] = "SUCCESS"

(* A delivery that has written the ledger account.                         *)
Depositing(d) ==
    pc[d] \in WalletPoints \/ (pc[d] \in StatusPoints /\ Success(d))

(* Which rows a delivery has locked, by the place it is at.                *)
LockInv ==
    \A d \in Deliveries :
        /\ ledgerLock = d <=> Depositing(d)
        /\ \A r \in Refs :
              /\ statusLock[r] = d =>
                    /\ Ref[d] = r
                    /\ pc[d] \in {"rowRead", "rowStatusWrite", "commit"}
              /\ rowLock[r] = d =>
                    /\ Ref[d] = r
                    /\ \/ pc[d] = "commit"
                       \/ pc[d] \in StatusPoints /\ Success(d)
        /\ pc[d] \in StatusPoints /\ Success(d) =>
              rowLock[Ref[d]] = d /\ pc[d] # "rowStatusWrite"
        /\ walletLock = d =>
              Depositing(d) /\ pc[d] \notin {"walletRead", "walletCheck", "walletWrite"}

(* Which notification leads to which place.                                *)
MessageInv ==
    \A d \in Deliveries :
        /\ pc[d] \in LedgerPoints \cup WalletPoints \cup {"notify"} =>
              Success(d)
        /\ pc[d] \in StatusPoints => Message[d] \in {"SUCCESS", "FAILED"}

(* The fiat wallet transaction is created by one delivery only, and nobody *)
(* gets as far as to change it before it exists.                           *)
RowInv ==
    \A d \in Deliveries :
        /\ pc[d] = "createRow" =>
              /\ rowStatus[Ref[d]] = "none"
              /\ txStatus[Ref[d]] # "none"
              /\ \A e \in Deliveries :
                    Ref[e] = Ref[d] /\ pc[e] = "createRow" => e = d
        /\ found[d] => rowStatus[Ref[d]] # "none"
        /\ pc[d] \in (WalletPoints \ {"walletRead"}) \cup StatusPoints =>
              found[d]
        /\ rowStatus[Ref[d]] # "none" => txStatus[Ref[d]] # "none"

(* What a depositing delivery has read of the wallet is still so.          *)
WalletInv ==
    /\ wallet >= 0
    /\ \A d \in Deliveries :
          Depositing(d) /\ pc[d] # "walletRead" => seenWallet[d] = wallet

(* Credits leave their mark in both statuses, and in the answer.           *)
CreditInv ==
    /\ \A r \in Refs :
          txStatus[r] = "COMPLETED" \/ rowStatus[r] = "COMPLETED" =>
             credits[r] > 0
    /\ \A d \in Deliveries :
          pc[d] = "notify" \/ (Success(d) /\ answer[d] = "ok")
             => credits[Ref[d]] > 0

(* Unless Paga contradicted itself: one credit, which the statuses show,   *)
(* and whoever passed the COMPLETED check is the first to credit.          *)
OnceInv ==
    \A r \in Refs : ~Contradicted(r) =>
        /\ credits[r] = IF txStatus[r] = "COMPLETED" THEN 1 ELSE 0
        /\ rowStatus[r] = "COMPLETED" <=> txStatus[r] = "COMPLETED"
        /\ txStatus[r] # "FAILED"
        /\ \A d \in Deliveries : Ref[d] = r /\ Success(d) =>
              /\ pc[d] \in {"walletWrite", "rowWrite"} \cup StatusPoints =>
                    txStatus[r] # "COMPLETED"
              /\ pc[d] \in {"rowRead", "rowStatusWrite", "commit"} =>
                    statusLock[r] = d

Inv == /\ TypeOK /\ LockInv /\ MessageInv /\ RowInv
       /\ WalletInv /\ CreditInv /\ OnceInv

USE DEF Statuses, LedgerPoints, WalletPoints, StatusPoints, Points

(* Nothing is being handled at the start, so every part holds.             *)
LEMMA InitInv == ASSUME Init PROVE Inv
BY PagaDepositAssumption
   DEF Init, Inv, TypeOK, LockInv, MessageInv, RowInv, WalletInv, CreditInv,
       OnceInv, Success, Depositing, Contradicted

(* Every step of a delivery keeps the types.                               *)
LEMMA TypesStep ==
  ASSUME TypeOK, NEW d \in Deliveries, Step(d) \/ Fails(d)
  PROVE  TypeOK'
<1> USE PagaDepositAssumption DEF TypeOK, balances, locks, reads, Goto, Reply
<1> Amount[Ref[d]] \in Int /\ Ref[d] \in Refs
  OBVIOUS
<1>1. CASE Receive(d)
  BY <1>1 DEF Receive
<1>2. CASE CreateTransaction(d)
  BY <1>2 DEF CreateTransaction
<1>3. CASE CreateWalletTransaction(d)
  BY <1>3 DEF CreateWalletTransaction, Continue
<1>4. CASE FindWalletTransaction(d)
  BY <1>4 DEF FindWalletTransaction, Continue
<1>5. CASE CreateLedgerRow(d)
  BY <1>5 DEF CreateLedgerRow
<1>6. CASE ReadLedger(d)
  BY <1>6 DEF ReadLedger
<1>7. CASE WriteLedger(d)
  BY <1>7 DEF WriteLedger
<1>8. CASE ReadWallet(d)
  BY <1>8 DEF ReadWallet
<1>9. CASE CheckNotCompleted(d)
  BY <1>9 DEF CheckNotCompleted
<1>10. CASE WriteWallet(d)
  BY <1>10 DEF WriteWallet
<1>11. CASE WriteRow(d)
  BY <1>11 DEF WriteRow
<1>12. CASE ReadStatus(d)
  BY <1>12 DEF ReadStatus, Target, Terminal
<1>13. CASE WriteStatus(d)
  BY <1>13 DEF WriteStatus
<1>14. CASE ReadRow(d)
  BY <1>14 DEF ReadRow
<1>15. CASE WriteRowStatus(d)
  BY <1>15 DEF WriteRowStatus
<1>16. CASE Commit(d)
  BY <1>16 DEF Commit, Committed, Target, Terminal, Unlock, Released
<1>17. CASE Notify(d)
  BY <1>17 DEF Notify
<1>18. CASE Abort(d)
  BY <1>18 DEF Abort, Unlock, Released
<1> QED
  BY <1>1, <1>2, <1>3, <1>4, <1>5, <1>6, <1>7, <1>8, <1>9, <1>10, <1>11,
     <1>12, <1>13, <1>14, <1>15, <1>16, <1>17, <1>18
     DEF Step, Fails, DuplicateReference, DuplicateLedgerRow, RowMissing,
         AlreadyCompleted

(* A row is locked by the write that precedes the place and unlocked by the*)
(* end of the transaction; a write finds the row free.                     *)
LEMMA LockInvStep ==
  ASSUME TypeOK, LockInv, MessageInv,
         NEW d \in Deliveries, Step(d) \/ Fails(d)
  PROVE  LockInv'
<1> USE PagaDepositAssumption
    DEF TypeOK, LockInv, MessageInv, Depositing, Success,
        balances, locks, reads, Goto, Reply
<1> Amount[Ref[d]] \in Nat /\ Ref[d] \in Refs
  OBVIOUS
<1>1. CASE Receive(d)
  BY <1>1 DEF Receive
<1>2. CASE CreateTransaction(d)
  BY <1>2 DEF CreateTransaction
<1>3. CASE CreateWalletTransaction(d)
  BY <1>3 DEF CreateWalletTransaction, Continue
<1>4. CASE FindWalletTransaction(d)
  BY <1>4 DEF FindWalletTransaction, Continue
<1>5. CASE CreateLedgerRow(d)
  BY <1>5 DEF CreateLedgerRow
<1>6. CASE ReadLedger(d)
  BY <1>6 DEF ReadLedger
<1>7. CASE WriteLedger(d)
  BY <1>7 DEF WriteLedger
<1>8. CASE ReadWallet(d)
  BY <1>8 DEF ReadWallet
<1>9. CASE CheckNotCompleted(d)
  BY <1>9 DEF CheckNotCompleted
<1>10. CASE WriteWallet(d)
  BY <1>10 DEF WriteWallet
<1>11. CASE WriteRow(d)
  BY <1>11 DEF WriteRow
<1>12. CASE ReadStatus(d)
  BY <1>12 DEF ReadStatus, Target, Terminal
<1>13. CASE WriteStatus(d)
  BY <1>13 DEF WriteStatus
<1>14. CASE ReadRow(d)
  BY <1>14 DEF ReadRow
<1>15. CASE WriteRowStatus(d)
  BY <1>15 DEF WriteRowStatus
<1>16. CASE Commit(d)
  BY <1>16 DEF Commit, Committed, Target, Terminal, Unlock, Released
<1>17. CASE Notify(d)
  BY <1>17 DEF Notify
<1>18. CASE Abort(d)
  BY <1>18 DEF Abort, Unlock, Released
<1> QED
  BY <1>1, <1>2, <1>3, <1>4, <1>5, <1>6, <1>7, <1>8, <1>9, <1>10, <1>11,
     <1>12, <1>13, <1>14, <1>15, <1>16, <1>17, <1>18
     DEF Step, Fails, DuplicateReference, DuplicateLedgerRow, RowMissing,
         AlreadyCompleted

(* The branch taken after the lookup is the one of the notification.       *)
LEMMA MessageInvStep ==
  ASSUME TypeOK, MessageInv,
         NEW d \in Deliveries, Step(d) \/ Fails(d)
  PROVE  MessageInv'
<1> USE PagaDepositAssumption
    DEF TypeOK, MessageInv, Success,
        balances, locks, reads, Goto, Reply
<1> Amount[Ref[d]] \in Nat /\ Ref[d] \in Refs
  OBVIOUS
<1>1. CASE Receive(d)
  BY <1>1 DEF Receive
<1>2. CASE CreateTransaction(d)
  BY <1>2 DEF CreateTransaction
<1>3. CASE CreateWalletTransaction(d)
  BY <1>3 DEF CreateWalletTransaction, Continue
<1>4. CASE FindWalletTransaction(d)
  BY <1>4 DEF FindWalletTransaction, Continue
<1>5. CASE CreateLedgerRow(d)
  BY <1>5 DEF CreateLedgerRow
<1>6. CASE ReadLedger(d)
  BY <1>6 DEF ReadLedger
<1>7. CASE WriteLedger(d)
  BY <1>7 DEF WriteLedger
<1>8. CASE ReadWallet(d)
  BY <1>8 DEF ReadWallet
<1>9. CASE CheckNotCompleted(d)
  BY <1>9 DEF CheckNotCompleted
<1>10. CASE WriteWallet(d)
  BY <1>10 DEF WriteWallet
<1>11. CASE WriteRow(d)
  BY <1>11 DEF WriteRow
<1>12. CASE ReadStatus(d)
  BY <1>12 DEF ReadStatus, Target, Terminal
<1>13. CASE WriteStatus(d)
  BY <1>13 DEF WriteStatus
<1>14. CASE ReadRow(d)
  BY <1>14 DEF ReadRow
<1>15. CASE WriteRowStatus(d)
  BY <1>15 DEF WriteRowStatus
<1>16. CASE Commit(d)
  BY <1>16 DEF Commit, Committed, Target, Terminal, Unlock, Released
<1>17. CASE Notify(d)
  BY <1>17 DEF Notify
<1>18. CASE Abort(d)
  BY <1>18 DEF Abort, Unlock, Released
<1> QED
  BY <1>1, <1>2, <1>3, <1>4, <1>5, <1>6, <1>7, <1>8, <1>9, <1>10, <1>11,
     <1>12, <1>13, <1>14, <1>15, <1>16, <1>17, <1>18
     DEF Step, Fails, DuplicateReference, DuplicateLedgerRow, RowMissing,
         AlreadyCompleted

(* The reference is UNIQUE, so only the delivery that created the          *)
(* transaction inserts the row; the others have found it or give up.       *)
LEMMA RowInvStep ==
  ASSUME TypeOK, LockInv, RowInv,
         NEW d \in Deliveries, Step(d) \/ Fails(d)
  PROVE  RowInv'
<1> USE PagaDepositAssumption
    DEF TypeOK, LockInv, RowInv, Depositing, Success,
        balances, locks, reads, Goto, Reply
<1> Amount[Ref[d]] \in Nat /\ Ref[d] \in Refs
  OBVIOUS
<1>1. CASE Receive(d)
  BY <1>1 DEF Receive
<1>2. CASE CreateTransaction(d)
  BY <1>2 DEF CreateTransaction
<1>3. CASE CreateWalletTransaction(d)
  BY <1>3 DEF CreateWalletTransaction, Continue
<1>4. CASE FindWalletTransaction(d)
  <2>1. CASE rowStatus[Ref[d]] # "none"
    <3> found' = [found EXCEPT ![d] = TRUE]
      BY <1>4, <2>1 DEF FindWalletTransaction, Continue
    <3> QED
      BY <1>4, <2>1 DEF FindWalletTransaction, Continue
  <2>2. CASE rowStatus[Ref[d]] = "none"
    <3> found' = [found EXCEPT ![d] = FALSE]
      BY <1>4, <2>2 DEF FindWalletTransaction, Continue
    <3> QED
      BY <1>4, <2>2 DEF FindWalletTransaction, Continue
  <2> QED
    BY <2>1, <2>2
<1>5. CASE CreateLedgerRow(d)
  BY <1>5 DEF CreateLedgerRow
<1>6. CASE ReadLedger(d)
  BY <1>6 DEF ReadLedger
<1>7. CASE WriteLedger(d)
  BY <1>7 DEF WriteLedger
<1>8. CASE ReadWallet(d)
  BY <1>8 DEF ReadWallet
<1>9. CASE CheckNotCompleted(d)
  BY <1>9 DEF CheckNotCompleted
<1>10. CASE WriteWallet(d)
  BY <1>10 DEF WriteWallet
<1>11. CASE WriteRow(d)
  BY <1>11 DEF WriteRow
<1>12. CASE ReadStatus(d)
  BY <1>12 DEF ReadStatus, Target, Terminal
<1>13. CASE WriteStatus(d)
  BY <1>13 DEF WriteStatus
<1>14. CASE ReadRow(d)
  BY <1>14 DEF ReadRow
<1>15. CASE WriteRowStatus(d)
  BY <1>15 DEF WriteRowStatus
<1>16. CASE Commit(d)
  BY <1>16 DEF Commit, Committed, Target, Terminal, Unlock, Released
<1>17. CASE Notify(d)
  BY <1>17 DEF Notify
<1>18. CASE Abort(d)
  BY <1>18 DEF Abort, Unlock, Released
<1> QED
  BY <1>1, <1>2, <1>3, <1>4, <1>5, <1>6, <1>7, <1>8, <1>9, <1>10, <1>11,
     <1>12, <1>13, <1>14, <1>15, <1>16, <1>17, <1>18
     DEF Step, Fails, DuplicateReference, DuplicateLedgerRow, RowMissing,
         AlreadyCompleted

(* The wallet changes only at the commit of a depositing delivery, and     *)
(* there is no other depositing delivery whose reading it could spoil.     *)
LEMMA WalletInvStep ==
  ASSUME TypeOK, LockInv, MessageInv, WalletInv,
         NEW d \in Deliveries, Step(d) \/ Fails(d)
  PROVE  WalletInv'
<1> USE PagaDepositAssumption
    DEF TypeOK, LockInv, MessageInv, WalletInv, Depositing, Success,
        balances, locks, reads, Goto, Reply
<1> Amount[Ref[d]] \in Nat /\ Ref[d] \in Refs
  OBVIOUS
<1>1. CASE Receive(d)
  BY <1>1 DEF Receive
<1>2. CASE CreateTransaction(d)
  BY <1>2 DEF CreateTransaction
<1>3. CASE CreateWalletTransaction(d)
  BY <1>3 DEF CreateWalletTransaction, Continue
<1>4. CASE FindWalletTransaction(d)
  BY <1>4 DEF FindWalletTransaction, Continue
<1>5. CASE CreateLedgerRow(d)
  BY <1>5 DEF CreateLedgerRow
<1>6. CASE ReadLedger(d)
  BY <1>6 DEF ReadLedger
<1>7. CASE WriteLedger(d)
  BY <1>7 DEF WriteLedger
<1>8. CASE ReadWallet(d)
  BY <1>8 DEF ReadWallet
<1>9. CASE CheckNotCompleted(d)
  BY <1>9 DEF CheckNotCompleted
<1>10. CASE WriteWallet(d)
  BY <1>10 DEF WriteWallet
<1>11. CASE WriteRow(d)
  BY <1>11 DEF WriteRow
<1>12. CASE ReadStatus(d)
  BY <1>12 DEF ReadStatus, Target, Terminal
<1>13. CASE WriteStatus(d)
  BY <1>13 DEF WriteStatus
<1>14. CASE ReadRow(d)
  BY <1>14 DEF ReadRow
<1>15. CASE WriteRowStatus(d)
  BY <1>15 DEF WriteRowStatus
<1>16. CASE Commit(d)
  <2> USE <1>16 DEF Commit, Unlock, Released
  <2>1. CASE Success(d)
    <3>1. wallet' = wallet + Amount[Ref[d]] /\ seenWallet[d] = wallet
      BY <2>1
    <3>2. wallet' >= 0
      BY <3>1
    <3>3. \A e \in Deliveries : e # d => ~Depositing(e)
      BY <2>1
    <3>4. \A e \in Deliveries : ~Depositing(e)'
      BY <2>1, <3>3
    <3> QED
      BY <3>2, <3>4
  <2>2. CASE Message[d] = "FAILED"
    BY <2>2
  <2> QED
    BY <2>1, <2>2
<1>17. CASE Notify(d)
  BY <1>17 DEF Notify
<1>18. CASE Abort(d)
  BY <1>18 DEF Abort, Unlock, Released
<1> QED
  BY <1>1, <1>2, <1>3, <1>4, <1>5, <1>6, <1>7, <1>8, <1>9, <1>10, <1>11,
     <1>12, <1>13, <1>14, <1>15, <1>16, <1>17, <1>18
     DEF Step, Fails, DuplicateReference, DuplicateLedgerRow, RowMissing,
         AlreadyCompleted

(* COMPLETED is written by the transaction that credits, and ok follows    *)
(* its commit or a COMPLETED that was read.                                *)
LEMMA CreditInvStep ==
  ASSUME TypeOK, LockInv, MessageInv, RowInv, CreditInv,
         NEW d \in Deliveries, Step(d) \/ Fails(d)
  PROVE  CreditInv'
<1> USE PagaDepositAssumption
    DEF TypeOK, LockInv, MessageInv, RowInv, CreditInv, Depositing, Success,
        balances, locks, reads, Goto, Reply
<1> Amount[Ref[d]] \in Nat /\ Ref[d] \in Refs
  OBVIOUS
<1>1. CASE Receive(d)
  BY <1>1 DEF Receive
<1>2. CASE CreateTransaction(d)
  BY <1>2 DEF CreateTransaction
<1>3. CASE CreateWalletTransaction(d)
  BY <1>3 DEF CreateWalletTransaction, Continue
<1>4. CASE FindWalletTransaction(d)
  BY <1>4 DEF FindWalletTransaction, Continue
<1>5. CASE CreateLedgerRow(d)
  BY <1>5 DEF CreateLedgerRow
<1>6. CASE ReadLedger(d)
  BY <1>6 DEF ReadLedger
<1>7. CASE WriteLedger(d)
  BY <1>7 DEF WriteLedger
<1>8. CASE ReadWallet(d)
  BY <1>8 DEF ReadWallet
<1>9. CASE CheckNotCompleted(d)
  BY <1>9 DEF CheckNotCompleted
<1>10. CASE WriteWallet(d)
  BY <1>10 DEF WriteWallet
<1>11. CASE WriteRow(d)
  BY <1>11 DEF WriteRow
<1>12. CASE ReadStatus(d)
  BY <1>12 DEF ReadStatus, Target, Terminal
<1>13. CASE WriteStatus(d)
  BY <1>13 DEF WriteStatus
<1>14. CASE ReadRow(d)
  BY <1>14 DEF ReadRow
<1>15. CASE WriteRowStatus(d)
  BY <1>15 DEF WriteRowStatus
<1>16. CASE Commit(d)
  BY <1>16 DEF Commit, Committed, Target, Terminal, Unlock, Released
<1>17. CASE Notify(d)
  BY <1>17 DEF Notify
<1>18. CASE Abort(d)
  BY <1>18 DEF Abort, Unlock, Released
<1> QED
  BY <1>1, <1>2, <1>3, <1>4, <1>5, <1>6, <1>7, <1>8, <1>9, <1>10, <1>11,
     <1>12, <1>13, <1>14, <1>15, <1>16, <1>17, <1>18
     DEF Step, Fails, DuplicateReference, DuplicateLedgerRow, RowMissing,
         AlreadyCompleted

(* Without a FAILED notification only the one depositing delivery changes  *)
(* the statuses; it saw that they were not COMPLETED and they stay so.     *)
LEMMA OnceInvStep ==
  ASSUME Inv,
         NEW d \in Deliveries, Step(d) \/ Fails(d)
  PROVE  OnceInv'
<1> USE PagaDepositAssumption
    DEF Inv, TypeOK, LockInv, MessageInv, RowInv, OnceInv,
        Contradicted, Depositing, Success,
        balances, locks, reads, Goto, Reply
<1> Amount[Ref[d]] \in Nat /\ Ref[d] \in Refs
  OBVIOUS
<1>1. CASE Receive(d)
  BY <1>1 DEF Receive
<1>2. CASE CreateTransaction(d)
  BY <1>2 DEF CreateTransaction
<1>3. CASE CreateWalletTransaction(d)
  BY <1>3 DEF CreateWalletTransaction, Continue
<1>4. CASE FindWalletTransaction(d)
  BY <1>4 DEF FindWalletTransaction, Continue
<1>5. CASE CreateLedgerRow(d)
  BY <1>5 DEF CreateLedgerRow
<1>6. CASE ReadLedger(d)
  BY <1>6 DEF ReadLedger
<1>7. CASE WriteLedger(d)
  BY <1>7 DEF WriteLedger
<1>8. CASE ReadWallet(d)
  BY <1>8 DEF ReadWallet
<1>9. CASE CheckNotCompleted(d)
  BY <1>9 DEF CheckNotCompleted
<1>10. CASE WriteWallet(d)
  BY <1>10 DEF WriteWallet
<1>11. CASE WriteRow(d)
  BY <1>11 DEF WriteRow
<1>12. CASE ReadStatus(d)
  BY <1>12 DEF ReadStatus, Target, Terminal
<1>13. CASE WriteStatus(d)
  BY <1>13 DEF WriteStatus
<1>14. CASE ReadRow(d)
  BY <1>14 DEF ReadRow
<1>15. CASE WriteRowStatus(d)
  BY <1>15 DEF WriteRowStatus
<1>16. CASE Commit(d)
  BY <1>16 DEF Commit, Committed, Target, Terminal, Unlock, Released
<1>17. CASE Notify(d)
  BY <1>17 DEF Notify
<1>18. CASE Abort(d)
  BY <1>18 DEF Abort, Unlock, Released
<1> QED
  BY <1>1, <1>2, <1>3, <1>4, <1>5, <1>6, <1>7, <1>8, <1>9, <1>10, <1>11,
     <1>12, <1>13, <1>14, <1>15, <1>16, <1>17, <1>18
     DEF Step, Fails, DuplicateReference, DuplicateLedgerRow, RowMissing,
         AlreadyCompleted

-----------------------------------------------------------------------------
(* The type invariant holds in every reachable state: no step of the       *)
(* webhook leaves the ranges of the rows, locks and program points.        *)
THEOREM DepositTypes == Spec => []TypeOK
<1>1. Init => TypeOK
  BY InitInv DEF Inv
<1>2. TypeOK /\ [Next]_vars => TypeOK'
  <2>1. CASE UNCHANGED vars
    BY <2>1 DEF TypeOK, vars, balances, locks, reads
  <2> QED
    BY <2>1, TypesStep DEF Next
<1> QED
  BY <1>1, <1>2, PTL DEF Spec

(* The inductive invariant of the webhook: rows locked, values read and    *)
(* credits given agree with the place every delivery is at.                *)
THEOREM DepositInv == Spec => []Inv
<1>1. Init => Inv
  BY InitInv
<1>2. Inv /\ [Next]_vars => Inv'
  <2>1. CASE UNCHANGED vars
    BY <2>1 DEF Inv, TypeOK, LockInv, MessageInv, RowInv, WalletInv, CreditInv,
                OnceInv, Success, Depositing, Contradicted, vars, balances,
                locks, reads
  <2>2. ASSUME Inv, NEW d \in Deliveries, Step(d) \/ Fails(d)
        PROVE  Inv'
    BY <2>2, TypesStep, LockInvStep, MessageInvStep, RowInvStep, WalletInvStep,
       CreditInvStep, OnceInvStep DEF Inv
  <2> QED
    BY <2>1, <2>2 DEF Next
<1> QED
  BY <1>1, <1>2, PTL DEF Spec

(* However often and however concurrently Paga delivers a notification, it *)
(* credits the wallet once, unless Paga also says that it failed.          *)
THEOREM DepositCreditedOnce == Spec => []CreditedOnce
<1>1. Inv => CreditedOnce
  BY DEF Inv, TypeOK, OnceInv, CreditedOnce
<1> QED
  BY <1>1, DepositInv, PTL

(* The webhook answers a SUCCESS notification with ok only after the       *)
(* wallet has been credited for its reference.                             *)
THEOREM DepositAcknowledged == Spec => []AcknowledgedIsCredited
<1>1. Inv => AcknowledgedIsCredited
  BY DEF Inv, CreditInv, AcknowledgedIsCredited, Success
<1> QED
  BY <1>1, DepositInv, PTL

(* The transaction and the fiat wallet transaction say COMPLETED exactly   *)
(* when the wallet has been credited, unless Paga contradicted itself.     *)
THEOREM DepositCompleted == Spec => []CompletedIffCredited
<1>1. Inv => CompletedIffCredited
  BY DEF Inv, TypeOK, CreditInv, OnceInv, CompletedIffCredited
<1> QED
  BY <1>1, DepositInv, PTL

(* Whoever waits waits for somebody further on: for the ledger account,    *)
(* the delivery that deposits; for a status, one that has locked it.       *)
(* Only the two rows of a reference can be wanted in two orders.           *)
LEMMA WaitsFor ==
  ASSUME Inv, \A d \in Deliveries : pc[d] \notin {"idle", "done"} => Waits(d),
         ~Contradiction
  PROVE  AllAtRest
<1> USE PagaDepositAssumption DEF Inv, TypeOK, Success
<1>0. ASSUME NEW d \in Deliveries, pc[d] \in {"rowWrite", "rowStatusWrite"}
      PROVE  \E h \in Deliveries : rowLock[Ref[d]] = h /\ Depositing(h) /\ pc[h] \in StatusPoints
  <2>1. PICK h \in Deliveries : rowLock[Ref[d]] = h
    BY <1>0 DEF Waits
  <2>2. \/ pc[h] = "commit"
        \/ pc[h] \in StatusPoints /\ Success(h)
    BY <2>1 DEF LockInv
  <2>3. pc[h] # "commit"
    BY DEF Waits
  <2> QED
    BY <2>1, <2>2, <2>3 DEF Depositing
<1>1. ASSUME NEW d \in Deliveries, Depositing(d) PROVE FALSE
  <2>1. \A e \in Deliveries : Depositing(e) => e = d
    BY <1>1 DEF LockInv
  <2>2. Success(d)
    BY <1>1 DEF Depositing, MessageInv
  <2>3. \A e \in Deliveries : ~(pc[e] = "rowStatusWrite" /\ Ref[e] = Ref[d])
          \/ pc[d] \notin {"statusRead", "statusWrite", "rowRead"}
    BY <2>1, <2>2 DEF Contradiction, MessageInv, LockInv, Depositing
  <2>4. pc[d] # "walletWrite"
    BY <1>1, <2>1 DEF Waits, LockInv
  <2>5. pc[d] # "rowWrite"
    BY <1>0, <2>1
  <2>6. pc[d] # "rowRead"
    BY <2>3 DEF Waits, StatusLockFree
  <2>7. ASSUME NEW e \in Deliveries, Ref[e] = Ref[d], pc[e] = "statusWrite",
               pc[d] \in {"statusRead", "statusWrite"}
        PROVE  FALSE
    <3>1. PICK h \in Deliveries : statusLock[Ref[d]] = h
      BY <2>7 DEF Waits
    <3>2. Ref[h] = Ref[d] /\ pc[h] \in {"rowRead", "rowStatusWrite", "commit"}
      BY <3>1 DEF LockInv
    <3>3. pc[h] = "rowRead"
      BY <2>3, <2>7, <3>2 DEF Waits
    <3> QED
      BY <2>3, <2>7, <3>2, <3>3 DEF Waits, StatusLockFree
  <2>8. pc[d] \notin {"statusRead", "statusWrite"}
    BY <2>7 DEF Waits, StatusLockFree
  <2> QED
    BY <1>1, <2>2, <2>4, <2>5, <2>6, <2>8 DEF Depositing, Waits, LockInv
<1>2. \A d \in Deliveries : pc[d] \notin LedgerPoints
  <2>1. \A d \in Deliveries : pc[d] # "ledgerWrite"
    BY <1>1 DEF Waits, LockInv
  <2>2. \A d \in Deliveries : pc[d] # "ledgerRead"
    BY <2>1 DEF Waits, LedgerLockFree
  <2> QED
    BY <2>1, <2>2 DEF Waits, DepositLockFree
<1>3. \A d \in Deliveries : pc[d] \notin StatusPoints
  <2>1. \A d \in Deliveries : pc[d] # "rowStatusWrite"
    BY <1>0, <1>1
  <2>2. \A d \in Deliveries : pc[d] # "rowRead"
    BY <2>1 DEF Waits, StatusLockFree
  <2>3. \A d \in Deliveries : pc[d] # "statusWrite"
    BY <2>1, <2>2 DEF Waits, LockInv
  <2>4. \A d \in Deliveries : pc[d] # "statusRead"
    BY <2>3 DEF Waits, StatusLockFree
  <2> QED
    BY <2>1, <2>2, <2>3, <2>4 DEF Waits
<1> QED
  BY <1>1, <1>2, <1>3 DEF AllAtRest, Waits, Depositing

(* Rows and Redis locks are never waited for in a circle, however many     *)
(* deliveries there are and whether or not the leases last, unless Paga    *)
(* reports one reference both ways at the same time.                       *)
THEOREM DepositWaits == Spec => []OnlyContradictionsWait
<1>1. Inv => OnlyContradictionsWait
  BY WaitsFor DEF OnlyContradictionsWait
<1> QED
  BY <1>1, DepositInv, PTL

(* A credit adds its amount to the wallet as it is at the commit, so       *)
(* concurrent deposits implement the atomic account.                       *)
LEMMA DepositStepSimulation ==
  ASSUME Inv, [Next]_vars
  PROVE  [AccountRef!Next]_<<wallet, TRUE>>
<1>1. CASE UNCHANGED vars
  BY <1>1 DEF vars, balances
<1>2. ASSUME NEW d \in Deliveries, Commit(d), Success(d)
      PROVE  AccountRef!Apply(Amount[Ref[d]])
  <2>1. Amount[Ref[d]] \in Nat
    BY PagaDepositAssumption
  <2>2. wallet' = wallet + Amount[Ref[d]]
    BY <1>2 DEF Commit, Inv, WalletInv, Depositing, Success
  <2>3. wallet' >= 0
    BY <2>1, <2>2 DEF Inv, TypeOK, WalletInv
  <2> QED
    BY <2>2, <2>3 DEF AccountRef!Apply
<1>3. ASSUME NEW d \in Deliveries, Step(d) \/ Fails(d),
             ~(Commit(d) /\ Success(d))
      PROVE  wallet' = wallet
  BY <1>3 DEF Step, Fails, Receive, CreateTransaction, DuplicateReference,
     CreateWalletTransaction, FindWalletTransaction, CreateLedgerRow,
     DuplicateLedgerRow, ReadLedger, WriteLedger, ReadWallet, RowMissing,
     CheckNotCompleted, AlreadyCompleted, WriteWallet, WriteRow, ReadStatus,
     WriteStatus, ReadRow, WriteRowStatus, Commit, Notify, Abort, Success,
     balances
<1>4. \A d \in Deliveries : Amount[Ref[d]] \in {Amount[r] : r \in Refs}
  BY PagaDepositAssumption
<1> QED
  BY <1>1, <1>2, <1>3, <1>4 DEF Next, AccountRef!Next

(* Concurrent deposits lose none of each other's credits: the wallet       *)
(* refines the account that applies each amount in one atomic step.        *)
THEOREM DepositsRefineAccount == Spec => DepositsAreAtomic
<1>1. Init => AccountRef!Init
  BY DEF Init, AccountRef!Init
<1>2. Inv /\ [Next]_vars => [AccountRef!Next]_<<wallet, TRUE>>
  BY DepositStepSimulation
<1> QED
  BY <1>1, <1>2, DepositInv, PTL DEF Spec, DepositsAreAtomic, AccountRef!Spec
=============================================================================
