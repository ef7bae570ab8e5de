---------------------------- MODULE PagaDeposit ----------------------------
(***************************************************************************)
(* Deposits to the main account of one user: deliveries of Paga's          *)
(* persistent-account webhook (PagaWebhookService, the main-account branch *)
(* of handlePersistentAccountWebhook), with the ledger account             *)
(* (PagaLedgerAccountService.depositMoney, updateBalance) and the wallet   *)
(* (FiatWalletService.updateBalance), all in one database transaction per  *)
(* delivery.                                                               *)
(*                                                                         *)
(* A delivery is one POST; Paga may repeat a notification, also while the  *)
(* first is being handled.  PostgreSQL runs at READ COMMITTED: a read sees *)
(* committed rows, an UPDATE locks its row until the transaction ends and  *)
(* waits for another transaction that has it locked.  What a transaction   *)
(* wrote follows from the rows it has locked and what it read, so the      *)
(* uncommitted values are not variables.                                   *)
(*                                                                         *)
(* The Redis locks (of depositMoney, of updateBalance and of the two       *)
(* updateStatus) are released before the commit.  LeasesLast says whether  *)
(* they protect what they enclose: FALSE allows every interleaving, as     *)
(* after leases that ran out.  The Redis lock of the wallet is left out:   *)
(* it is taken with the ledger account's row locked, which nobody else     *)
(* has.                                                                    *)
(***************************************************************************)
EXTENDS Integers, FiniteSets

CONSTANTS
    Refs,            \* payload.transactionReference
    Deliveries,      \* webhook requests
    Ref,             \* the reference of each
    Message,         \* payload.statusMessage of each
    Amount,          \* payload.amount, in kobo
    InitialBalance,  \* of the wallet and of the ledger account
    Nobody,          \* no transaction has the row locked
    LeasesLast

ASSUME PagaDepositAssumption ==
    /\ Ref \in [Deliveries -> Refs]
    /\ Message \in [Deliveries -> {"SUCCESS", "FAILED", "PENDING"}]
    /\ Amount \in [Refs -> Nat \ {0}]
    /\ InitialBalance \in Nat
    /\ Nobody \notin Deliveries
    /\ LeasesLast \in BOOLEAN

VARIABLES
    wallet,        \* fiat_wallets.balance
    ledger,        \* paga_ledger_accounts.available_balance
    txStatus,      \* transactions.status, by reference (which is UNIQUE)
    rowStatus,     \* fiat_wallet_transactions.status, by reference
    ledgerRows,    \* number of paga_ledger_transactions rows
    ledgerLock,    \* the delivery whose transaction locks the ledger account
    walletLock,    \* ... the wallet
    statusLock,    \* ... the transactions row
    rowLock,       \* ... the fiat_wallet_transactions row
    pc,            \* the call each delivery awaits next
    found,         \* it holds a fiat wallet transaction row
    seenLedger,    \* available_balance as read
    seenWallet,    \* balance as read
    answer,        \* the HTTP answer
    credits        \* observer: committed credits to the wallet, by reference

balances == <<wallet, ledger, ledgerRows, credits>>
locks == <<ledgerLock, walletLock, statusLock, rowLock>>
reads == <<found, seenLedger, seenWallet>>
vars == <<balances, txStatus, rowStatus, locks, pc, reads, answer>>

Statuses == {"none", "PENDING", "COMPLETED", "FAILED"}

(* The awaits inside the database transaction, in the order of the code.   *)
LedgerPoints == {"ledgerRow", "ledgerRead", "ledgerWrite"}
WalletPoints == {"walletRead", "walletCheck", "walletWrite", "rowWrite"}
StatusPoints == {"statusRead", "statusWrite", "rowRead", "rowStatusWrite",
                 "commit"}

Points == {"idle", "createTx", "createRow", "findRow", "notify", "done"}
            \cup LedgerPoints \cup WalletPoints \cup StatusPoints

TypeOK ==
    /\ wallet \in Int
    /\ ledger \in Int
    /\ txStatus \in [Refs -> Statuses]
    /\ rowStatus \in [Refs -> Statuses]
    /\ ledgerRows \in [Refs -> Nat]
    /\ ledgerLock \in Deliveries \cup {Nobody}
    /\ walletLock \in Deliveries \cup {Nobody}
    /\ statusLock \in [Refs -> Deliveries \cup {Nobody}]
    /\ rowLock \in [Refs -> Deliveries \cup {Nobody}]
    /\ pc \in [Deliveries -> Points]
    /\ found \in [Deliveries -> BOOLEAN]
    /\ seenLedger \in [Deliveries -> Int]
    /\ seenWallet \in [Deliveries -> Int]
    /\ answer \in [Deliveries -> {"none", "ok", "error"}]
    /\ credits \in [Refs -> Nat]

Init ==
    /\ wallet = InitialBalance
    /\ ledger = InitialBalance
    /\ txStatus = [r \in Refs |-> "none"]
    /\ rowStatus = [r \in Refs |-> "none"]
    /\ ledgerRows = [r \in Refs |-> 0]
    /\ ledgerLock = Nobody
    /\ walletLock = Nobody
    /\ statusLock = [r \in Refs |-> Nobody]
    /\ rowLock = [r \in Refs |-> Nobody]
    /\ pc = [d \in Deliveries |-> "idle"]
    /\ found = [d \in Deliveries |-> FALSE]
    /\ seenLedger = [d \in Deliveries |-> 0]
    /\ seenWallet = [d \in Deliveries |-> 0]
    /\ answer = [d \in Deliveries |-> "none"]
    /\ credits = [r \in Refs |-> 0]

Goto(d, p) == pc' = [pc EXCEPT ![d] = p]

Reply(d, a) ==
    /\ Goto(d, "done")
    /\ answer' = [answer EXCEPT ![d] = a]

Released(lock, d) == IF lock = d THEN Nobody ELSE lock

(* Variant: a failed transaction keeps the wallet's row.                   *)
UnlockForgetsWallet(d) ==
    /\ ledgerLock' = Released(ledgerLock, d)
    /\ statusLock' = [r \in Refs |-> Released(statusLock[r], d)]
    /\ rowLock' = [r \in Refs |-> Released(rowLock[r], d)]
    /\ UNCHANGED walletLock

(* The end of a database transaction unlocks its rows.                     *)
Unlock(d) ==
    /\ ledgerLock' = Released(ledgerLock, d)
    /\ walletLock' = Released(walletLock, d)
    /\ statusLock' = [r \in Refs |-> Released(statusLock[r], d)]
    /\ rowLock' = [r \in Refs |-> Released(rowLock[r], d)]

(* An exception: the transaction is rolled back and the request answered   *)
(* with an error.                                                          *)
Abort(d) ==
    /\ Reply(d, "error")
    /\ Unlock(d)
    /\ UNCHANGED <<balances, txStatus, rowStatus, reads>>

-----------------------------------------------------------------------------
(* Variant: any transaction that exists counts as handled.                 *)
ReceiveKnown(d) ==
    /\ pc[d] = "idle"
    /\ \/ /\ txStatus[Ref[d]] # "none"
          /\ Reply(d, "ok")
       \/ /\ txStatus[Ref[d]] = "none"
          /\ Goto(d, "createTx")
          /\ UNCHANGED answer
    /\ UNCHANGED <<balances, txStatus, rowStatus, locks, reads>>

(* findOne({ reference }): nothing to do for a COMPLETED transaction.      *)
Receive(d) ==
    /\ pc[d] = "idle"
    /\ \/ /\ txStatus[Ref[d]] = "COMPLETED"
          /\ Reply(d, "ok")
       \/ /\ txStatus[Ref[d]] = "none"
          /\ Goto(d, "createTx")
          /\ UNCHANGED answer
       \/ /\ txStatus[Ref[d]] \in {"PENDING", "FAILED"}
          /\ Goto(d, "findRow")
          /\ UNCHANGED answer
    /\ UNCHANGED <<balances, txStatus, rowStatus, locks, reads>>

(* createTransactionAndFiatWalletTransaction: two inserts, each committed  *)
(* on its own; the first fails when the reference exists by now.           *)
CreateTransaction(d) ==
    /\ pc[d] = "createTx"
    /\ txStatus[Ref[d]] = "none"
    /\ txStatus' = [txStatus EXCEPT ![Ref[d]] = "PENDING"]
    /\ Goto(d, "createRow")
    /\ UNCHANGED <<balances, rowStatus, locks, reads, answer>>

DuplicateReference(d) ==
    /\ pc[d] = "createTx"
    /\ txStatus[Ref[d]] # "none"
    /\ Abort(d)

(* What follows the lookup depends on the notification.  Without a row the *)
(* FAILED branch fails on `fiatWalletTransaction.id`; the SUCCESS branch   *)
(* only after the ledger deposit.                                          *)
Continue(d, row) ==
    /\ found' = [found EXCEPT ![d] = row]
    /\ \/ /\ Message[d] = "SUCCESS"
          /\ Goto(d, "ledgerRow")
          /\ UNCHANGED answer
       \/ /\ Message[d] = "FAILED"
          /\ row
          /\ Goto(d, "statusRead")
          /\ UNCHANGED answer
       \/ /\ Message[d] = "FAILED"
          /\ ~row
          /\ Reply(d, "error")
       \/ /\ Message[d] = "PENDING"
          /\ Reply(d, "ok")

CreateWalletTransaction(d) ==
    /\ pc[d] = "createRow"
    /\ rowStatus' = [rowStatus EXCEPT ![Ref[d]] = "PENDING"]
    /\ Continue(d, TRUE)
    /\ UNCHANGED <<balances, txStatus, locks, seenLedger, seenWallet>>

FindWalletTransaction(d) ==
    /\ pc[d] = "findRow"
    /\ Continue(d, rowStatus[Ref[d]] # "none")
    /\ UNCHANGED <<balances, txStatus, rowStatus, locks, seenLedger,
                   seenWallet>>

-----------------------------------------------------------------------------
(* The Redis lock `${accountNumber}-${referenceNumber}:deposit-money`.     *)
DepositLockFree(d) ==
    LeasesLast =>
        \A e \in Deliveries \ {d} :
            Ref[e] = Ref[d] => pc[e] \notin {"ledgerRead", "ledgerWrite"}

(* The Redis lock `${accountNumber}:balance-update` of the ledger account. *)
LedgerLockFree(d) ==
    LeasesLast => \A e \in Deliveries \ {d} : pc[e] # "ledgerWrite"

(* PagaLedgerTransactionService.create: look the reference up, then        *)
(* insert; nothing in the schema makes it unique.                          *)
CreateLedgerRow(d) ==
    /\ pc[d] = "ledgerRow"
    /\ DepositLockFree(d)
    /\ ledgerRows[Ref[d]] = 0
    /\ Goto(d, "ledgerRead")
    /\ UNCHANGED <<balances, txStatus, rowStatus, locks, reads, answer>>

DuplicateLedgerRow(d) ==
    /\ pc[d] = "ledgerRow"
    /\ DepositLockFree(d)
    /\ ledgerRows[Ref[d]] > 0
    /\ Abort(d)

(* PagaLedgerAccountService.updateBalance reads the account ...            *)
ReadLedger(d) ==
    /\ pc[d] = "ledgerRead"
    /\ LedgerLockFree(d)
    /\ seenLedger' = [seenLedger EXCEPT ![d] = ledger]
    /\ Goto(d, "ledgerWrite")
    /\ UNCHANGED <<balances, txStatus, rowStatus, locks, found, seenWallet,
                   answer>>

(* Variant: the account is not written in the caller's transaction, so its *)
(* row is not locked until the commit.                                     *)
WriteLedgerUnlocked(d) ==
    /\ pc[d] = "ledgerWrite"
    /\ Goto(d, "walletRead")
    /\ UNCHANGED <<balances, txStatus, rowStatus, locks, reads, answer>>

(* ... and writes the absolute new balance.                                *)
WriteLedger(d) ==
    /\ pc[d] = "ledgerWrite"
    /\ ledgerLock = Nobody
    /\ ledgerLock' = d
    /\ Goto(d, "walletRead")
    /\ UNCHANGED <<balances, txStatus, rowStatus, walletLock, statusLock,
                   rowLock, reads, answer>>

(* FiatWalletService.updateBalance: the wallet, which needs the row of the *)
(* lookup ...                                                              *)
ReadWallet(d) ==
    /\ pc[d] = "walletRead"
    /\ found[d]
    /\ seenWallet' = [seenWallet EXCEPT ![d] = wallet]
    /\ Goto(d, "walletCheck")
    /\ UNCHANGED <<balances, txStatus, rowStatus, locks, found, seenLedger,
                   answer>>

RowMissing(d) ==
    /\ pc[d] = "walletRead"
    /\ ~found[d]
    /\ Abort(d)

(* Variant: COMPLETED is not refused.                                      *)
CheckNothing(d) ==
    /\ pc[d] = "walletCheck"
    /\ Goto(d, "walletWrite")
    /\ UNCHANGED <<balances, txStatus, rowStatus, locks, reads, answer>>

(* ... then the transaction, which must not be COMPLETED ...               *)
CheckNotCompleted(d) ==
    /\ pc[d] = "walletCheck"
    /\ txStatus[Ref[d]] # "COMPLETED"
    /\ Goto(d, "walletWrite")
    /\ UNCHANGED <<balances, txStatus, rowStatus, locks, reads, answer>>

AlreadyCompleted(d) ==
    /\ pc[d] = "walletCheck"
    /\ txStatus[Ref[d]] = "COMPLETED"
    /\ Abort(d)

(* ... then the absolute new balance ...                                   *)
WriteWallet(d) ==
    /\ pc[d] = "walletWrite"
    /\ walletLock = Nobody
    /\ walletLock' = d
    /\ Goto(d, "rowWrite")
    /\ UNCHANGED <<balances, txStatus, rowStatus, ledgerLock, statusLock,
                   rowLock, reads, answer>>

(* ... and COMPLETED into the fiat wallet transaction, whatever it says.   *)
WriteRow(d) ==
    /\ pc[d] = "rowWrite"
    /\ rowLock[Ref[d]] = Nobody
    /\ rowLock' = [rowLock EXCEPT ![Ref[d]] = d]
    /\ Goto(d, "statusRead")
    /\ UNCHANGED <<balances, txStatus, rowStatus, ledgerLock, walletLock,
                   statusLock, reads, answer>>

-----------------------------------------------------------------------------
Target(d) == IF Message[d] = "SUCCESS" THEN "COMPLETED" ELSE "FAILED"

(* Both updateStatus keep a terminal status that is not the target.        *)
Terminal == {"COMPLETED", "FAILED"}

(* The Redis locks `transaction:${id}:update-status` and                   *)
(* `fiat-wallet-transaction:${id}:update-status`.                          *)
StatusLockFree(d, point) ==
    LeasesLast => \A e \in Deliveries \ {d} : Ref[e] = Ref[d] => pc[e] # point

(* TransactionService.updateStatus.                                        *)
ReadStatus(d) ==
    /\ pc[d] = "statusRead"
    /\ StatusLockFree(d, "statusWrite")
    /\ Goto(d, IF txStatus[Ref[d]] \in Terminal \ {Target(d)}
               THEN "rowRead" ELSE "statusWrite")
    /\ UNCHANGED <<balances, txStatus, rowStatus, locks, reads, answer>>

(* Variant: the status is written outside the database transaction.        *)
WriteStatusAtOnce(d) ==
    /\ pc[d] = "statusWrite"
    /\ statusLock[Ref[d]] = Nobody
    /\ txStatus' = [txStatus EXCEPT ![Ref[d]] = Target(d)]
    /\ Goto(d, "rowRead")
    /\ UNCHANGED <<balances, rowStatus, locks, reads, answer>>

WriteStatus(d) ==
    /\ pc[d] = "statusWrite"
    /\ statusLock[Ref[d]] = Nobody
    /\ statusLock' = [statusLock EXCEPT ![Ref[d]] = d]
    /\ Goto(d, "rowRead")
    /\ UNCHANGED <<balances, txStatus, rowStatus, ledgerLock, walletLock,
                   rowLock, reads, answer>>

(* FiatWalletTransactionService.updateStatus.  A delivery that has written *)
(* the row reads its own COMPLETED and writes it again.                    *)
ReadRow(d) ==
    /\ pc[d] = "rowRead"
    /\ StatusLockFree(d, "rowStatusWrite")
    /\ Goto(d, IF \/ rowLock[Ref[d]] = d
                  \/ rowStatus[Ref[d]] \in Terminal \ {Target(d)}
               THEN "commit" ELSE "rowStatusWrite")
    /\ UNCHANGED <<balances, txStatus, rowStatus, locks, reads, answer>>

WriteRowStatus(d) ==
    /\ pc[d] = "rowStatusWrite"
    /\ rowLock[Ref[d]] = Nobody
    /\ rowLock' = [rowLock EXCEPT ![Ref[d]] = d]
    /\ Goto(d, "commit")
    /\ UNCHANGED <<balances, txStatus, rowStatus, ledgerLock, walletLock,
                   statusLock, reads, answer>>

(* The commit publishes what the transaction wrote.                        *)
Committed(d, status, lock) ==
    [status EXCEPT ![Ref[d]] = IF lock[Ref[d]] = d THEN Target(d) ELSE @]

Commit(d) ==
    /\ pc[d] = "commit"
    /\ txStatus' = Committed(d, txStatus, statusLock)
    /\ rowStatus' = Committed(d, rowStatus, rowLock)
    /\ Unlock(d)
    /\ \/ /\ Message[d] = "SUCCESS"
          /\ ledger' = seenLedger[d] + Amount[Ref[d]]
          /\ ledgerRows' = [ledgerRows EXCEPT ![Ref[d]] = @ + 1]
          /\ wallet' = seenWallet[d] + Amount[Ref[d]]
          /\ credits' = [credits EXCEPT ![Ref[d]] = @ + 1]
          /\ Goto(d, "notify")
          /\ UNCHANGED answer
       \/ /\ Message[d] = "FAILED"
          /\ Reply(d, "ok")
          /\ UNCHANGED balances
    /\ UNCHANGED reads

(* balance_after, push notification and email, with no row locked; then    *)
(* the answer.                                                             *)
Notify(d) ==
    /\ pc[d] = "notify"
    /\ Reply(d, "ok")
    /\ UNCHANGED <<balances, txStatus, rowStatus, locks, reads>>

(* Any awaited call fails, a Redis lock is not obtained in time, the       *)
(* database breaks a deadlock, or the process dies: nothing that was not   *)
(* committed remains.                                                      *)
Fails(d) ==
    /\ pc[d] \notin {"idle", "done"}
    /\ Abort(d)

Step(d) ==
    \/ Receive(d) \/ CreateTransaction(d) \/ DuplicateReference(d)
    \/ CreateWalletTransaction(d) \/ FindWalletTransaction(d)
    \/ CreateLedgerRow(d) \/ DuplicateLedgerRow(d) \/ ReadLedger(d)
    \/ WriteLedger(d) \/ ReadWallet(d) \/ RowMissing(d)
    \/ CheckNotCompleted(d) \/ AlreadyCompleted(d) \/ WriteWallet(d)
    \/ WriteRow(d) \/ ReadStatus(d) \/ WriteStatus(d) \/ ReadRow(d)
    \/ WriteRowStatus(d) \/ Commit(d) \/ Notify(d)

Next == \E d \in Deliveries : Step(d) \/ Fails(d)

Spec == Init /\ [][Next]_vars

-----------------------------------------------------------------------------
(* Paga told us about this reference that it failed.                       *)
Contradicted(r) ==
    \E d \in Deliveries :
        Ref[d] = r /\ Message[d] = "FAILED" /\ pc[d] # "idle"

(* A notification credits the wallet once, however often and however       *)
(* concurrently it is delivered.  It is neither the reference check nor    *)
(* the COMPLETED check alone that ensures this: a second delivery passes   *)
(* the first unseen, waits for the ledger account's row, and meets the     *)
(* COMPLETED status only because that row was locked until the commit.     *)
CreditedOnce ==
    \A r \in Refs : ~Contradicted(r) => credits[r] <= 1

(* An acknowledged SUCCESS notification, which Paga will not repeat, has   *)
(* credited the wallet.                                                    *)
AcknowledgedIsCredited ==
    \A d \in Deliveries :
        Message[d] = "SUCCESS" /\ answer[d] = "ok" => credits[Ref[d]] > 0

(* Both statuses tell the user what happened to the money.                 *)
CompletedIffCredited ==
    \A r \in Refs : \A status \in {txStatus[r], rowStatus[r]} :
        /\ status = "COMPLETED" => credits[r] > 0
        /\ credits[r] > 0 /\ ~Contradicted(r) => status = "COMPLETED"

(* Concurrent deposits do not lose each other's credit to the wallet: the  *)
(* wallet behaves like the atomic account.                                 *)
AccountRef == INSTANCE Account
                WITH balance <- wallet,
                     Amounts <- {Amount[r] : r \in Refs},
                     trusted <- TRUE

DepositsAreAtomic == AccountRef!Spec

(* A delivery waits for another one's Redis lock or locked row.            *)
Waits(d) ==
    \/ pc[d] = "ledgerRow" /\ ~DepositLockFree(d)
    \/ pc[d] = "ledgerRead" /\ ~LedgerLockFree(d)
    \/ pc[d] = "ledgerWrite" /\ ledgerLock # Nobody
    \/ pc[d] = "walletWrite" /\ walletLock # Nobody
    \/ pc[d] \in {"rowWrite", "rowStatusWrite"} /\ rowLock[Ref[d]] # Nobody
    \/ pc[d] = "statusRead" /\ ~StatusLockFree(d, "statusWrite")
    \/ pc[d] = "statusWrite" /\ statusLock[Ref[d]] # Nobody
    \/ pc[d] = "rowRead" /\ ~StatusLockFree(d, "rowStatusWrite")

AllAtRest == \A d \in Deliveries : pc[d] \in {"idle", "done"}

(* A SUCCESS has locked the fiat wallet transaction and is not through     *)
(* with the transaction, which a FAILED of the same reference locks first. *)
Contradiction ==
    \E d, e \in Deliveries :
        /\ Ref[d] = Ref[e]
        /\ Message[d] = "SUCCESS" /\ pc[d] \in {"statusRead", "statusWrite", "rowRead"}
        /\ Message[e] = "FAILED" /\ pc[e] = "rowStatusWrite"

(* Everyone waiting on everyone: each delivery keeps rows locked while it  *)
(* waits for the next one, yet some delivery can always go on, save in one *)
(* case.  A SUCCESS locks the fiat wallet transaction before the           *)
(* transaction and a FAILED of the same reference the other way round,     *)
(* which only PostgreSQL's deadlock detection ends or, when a Redis lock   *)
(* is part of the circle, the last attempt to take it.                     *)
OnlyContradictionsDeadlock ==
    \/ AllAtRest
    \/ \E d \in Deliveries : pc[d] # "idle" /\ ENABLED Step(d)
    \/ Contradiction

(* The same in terms of what the deliveries wait for.                      *)
OnlyContradictionsWait ==
    \/ AllAtRest
    \/ \E d \in Deliveries : pc[d] \notin {"idle", "done"} /\ ~Waits(d)
    \/ Contradiction
=============================================================================
