--------------------------- MODULE NgnWithdrawal ---------------------------
(***************************************************************************)
(* A naira withdrawal of one user to an external bank account:             *)
(* FiatWalletWithdrawalService (withdrawToExternalNGAccount,               *)
(* sendMoneyToExternalNGAccount, revertWithdrawalBalance), the background  *)
(* poller NgnWithdrawalStatusProcessor and the operator's decision on a    *)
(* transaction in review (TransactionService).                             *)
(*                                                                         *)
(* fiat_wallet_transactions.idempotency_key is UNIQUE, so a withdrawal is  *)
(* named by its key.  An agent is one HTTP request, one slot of the poll   *)
(* queue, or one operator request; each works for the withdrawal Tx[a] and *)
(* pc[a] names the next call it awaits.  updateBalance is one step (module *)
(* FiatWallet says when it may be).  The lock around the handler is not    *)
(* part of the state: its 30 s lease is shorter than the handler's awaits  *)
(* may last, so no interleaving is ruled out by it; a request that cannot  *)
(* take it is declined.                                                    *)
(***************************************************************************)
EXTENDS Integers, FiniteSets

CONSTANTS
    Keys,           \* withdrawals, by idempotency key
    Requests,       \* HTTP requests; several may carry one key
    Jobs,           \* slots for poll jobs in the queue
    Operators,      \* operator requests on transactions in review
    Tx,             \* the withdrawal each agent works for
    Amount,         \* amount of each withdrawal
    InitialBalance,
    MaxAttempts,    \* maxAttempts of processStatusPoll (10)
    MaxFaults       \* bound on exceptions and restarts in a behaviour

Agents == Requests \cup Jobs \cup Operators

ASSUME NgnWithdrawalAssumption ==
    /\ Requests \cap Jobs = {}
    /\ Requests \cap Operators = {}
    /\ Jobs \cap Operators = {}
    /\ Tx \in [Agents -> Keys]
    /\ Amount \in [Keys -> Nat \ {0}]
    /\ InitialBalance \in Nat
    /\ MaxAttempts \in Nat \ {0}
    /\ MaxFaults \in Nat

VARIABLES
    balance,      \* fiat_wallets.balance
    txStatus,     \* transactions.status
    fwtStatus,    \* fiat_wallet_transactions.status
    escrow,       \* the escrow amount kept in Redis
    provider,     \* what the provider has done with the transfer
    sessions,     \* the user's active withdrawal sessions (Redis set)
    registered,   \* this process consumes the poll queue
    pc,           \* the call each agent awaits next
    mode,         \* which block of the handler a request is in
    seen,         \* escrowAmount as read before a refund
    attempt,      \* attemptNumber of each poll job
    faults,       \* exceptions and restarts so far
    debits,       \* observer: balance reservations per withdrawal
    refunds,      \* observer: refunds per withdrawal
    transfers,    \* observer: transfers that reached the provider
    tainted       \* observer: withdrawals struck at a delicate point

money == <<balance, escrow, debits, refunds>>
rows == <<txStatus, fwtStatus>>
remote == <<provider, transfers>>
env == <<sessions, registered, faults, tainted>>
local == <<mode, seen, attempt>>
vars == <<money, rows, remote, env, local, pc>>

Statuses == {"none", "INITIATED", "PENDING", "COMPLETED", "FAILED", "REVIEW"}

(* The awaited calls of the handler's try block, in order.                 *)
TryPoints == {"session", "ledger", "reserve", "escrow", "pendingTx",
              "pendingFwt", "circuit", "queue", "complete", "completeFwt",
              "notify"}

(* ... of the failure path it shares with the poller.                      *)
FailPoints == {"failTx", "failFwt", "revert", "refund", "release"}

RequestPoints == {"idle", "checkSession", "create", "transfer", "confirm",
                  "finally", "done", "crashed"} \cup TryPoints \cup FailPoints

JobPoints == {"none", "queued", "poll", "complete", "completeFwt",
              "reviewTx", "reviewFwt"} \cup FailPoints

OperatorPoints == {"idle", "decided", "release"}

TypeOK ==
    /\ balance \in Int
    /\ txStatus \in [Keys -> Statuses]
    /\ fwtStatus \in [Keys -> Statuses]
    /\ escrow \in [Keys -> Nat]
    /\ provider \in [Keys -> {"none", "processing", "paid", "rejected"}]
    /\ sessions \subseteq Keys
    /\ registered \in BOOLEAN
    /\ pc \in [Agents -> RequestPoints \cup JobPoints \cup OperatorPoints]
    /\ \A r \in Requests : pc[r] \in RequestPoints
    /\ \A j \in Jobs : pc[j] \in JobPoints
    /\ \A o \in Operators : pc[o] \in OperatorPoints
    /\ mode \in [Agents -> {"try", "rethrow", "return", "catch"}]
    /\ seen \in [Agents -> Nat]
    /\ attempt \in [Jobs -> 1..MaxAttempts]
    /\ faults \in 0..MaxFaults
    /\ debits \in [Keys -> Nat]
    /\ refunds \in [Keys -> Nat]
    /\ transfers \in [Keys -> Nat]
    /\ tainted \subseteq Keys

Init ==
    /\ balance = InitialBalance
    /\ txStatus = [k \in Keys |-> "none"]
    /\ fwtStatus = [k \in Keys |-> "none"]
    /\ escrow = [k \in Keys |-> 0]
    /\ provider = [k \in Keys |-> "none"]
    /\ sessions = {}
    /\ registered = FALSE
    /\ pc = [a \in Agents |-> IF a \in Jobs THEN "none" ELSE "idle"]
    /\ mode = [a \in Agents |-> IF a \in Requests THEN "try" ELSE "return"]
    /\ seen = [a \in Agents |-> 0]
    /\ attempt = [j \in Jobs |-> 1]
    /\ faults = 0
    /\ debits = [k \in Keys |-> 0]
    /\ refunds = [k \in Keys |-> 0]
    /\ transfers = [k \in Keys |-> 0]
    /\ tainted = {}

Goto(a, p) == pc' = [pc EXCEPT ![a] = p]

Enter(a, p, m) ==
    /\ Goto(a, p)
    /\ mode' = [mode EXCEPT ![a] = m]
    /\ UNCHANGED <<seen, attempt>>

(* An exception in the handler: the try block is left for the catch block, *)
(* the catch block for finally.                                            *)
Raise(r) == Enter(r, IF mode[r] = "catch" THEN "finally" ELSE "failTx", "catch")

(* The catch block of processStatusPoll: another poll unless this was the  *)
(* last one, which is simply dropped.                                      *)
Requeue(j) ==
    /\ IF attempt[j] < MaxAttempts
       THEN /\ Goto(j, "queued")
            /\ attempt' = [attempt EXCEPT ![j] = @ + 1]
       ELSE Goto(j, "none") /\ UNCHANGED attempt
    /\ UNCHANGED <<mode, seen>>

Throw(a) ==
    IF a \in Requests THEN Raise(a)
    ELSE IF a \in Jobs THEN Requeue(a)
    ELSE Enter(a, "idle", "return")

-----------------------------------------------------------------------------
(* withdrawToExternalNGAccount: the idempotency check (a withdrawal in     *)
(* REVIEW passes it), then the balance check on an unlocked read.          *)
Receive(r) ==
    /\ pc[r] = "idle"
    /\ Goto(r, IF /\ fwtStatus[Tx[r]] \in {"none", "REVIEW"}
                  /\ balance >= Amount[Tx[r]]
               THEN "checkSession" ELSE "done")
    /\ UNCHANGED <<money, rows, remote, env, local>>

(* Limits, the bank account check or the lock turn the request away.       *)
Decline(r) ==
    /\ pc[r] \in {"checkSession", "create"}
    /\ Goto(r, "done")
    /\ UNCHANGED <<money, rows, remote, env, local>>

(* checkAndBlockConcurrent, before the lock is taken.                      *)
CheckSession(r) ==
    /\ pc[r] = "checkSession"
    /\ Goto(r, IF sessions = {} THEN "create" ELSE "done")
    /\ UNCHANGED <<money, rows, remote, env, local>>

(* Variant: idempotency_key without its unique index.                      *)
CreateRowsNotUnique(r) ==
    LET k == Tx[r] IN
    /\ pc[r] = "create"
    /\ IF balance >= Amount[k]
       THEN /\ txStatus' = [txStatus EXCEPT ![k] = "INITIATED"]
            /\ fwtStatus' = [fwtStatus EXCEPT ![k] = "INITIATED"]
            /\ Goto(r, "session")
       ELSE Goto(r, "done") /\ UNCHANGED rows
    /\ UNCHANGED <<money, remote, env, local>>

(* createNGTransactionAndFiatWalletTransaction: one database transaction   *)
(* that fails on a duplicate key or a balance that no longer suffices.     *)
CreateRows(r) ==
    LET k == Tx[r] IN
    /\ pc[r] = "create"
    /\ IF fwtStatus[k] = "none" /\ balance >= Amount[k]
       THEN /\ txStatus' = [txStatus EXCEPT ![k] = "INITIATED"]
            /\ fwtStatus' = [fwtStatus EXCEPT ![k] = "INITIATED"]
            /\ Goto(r, "session")
       ELSE Goto(r, "done") /\ UNCHANGED rows
    /\ UNCHANGED <<money, remote, env, local>>

StartSession(r) ==
    /\ pc[r] = "session"
    /\ sessions' = sessions \cup {Tx[r]}
    /\ Goto(r, "ledger")
    /\ UNCHANGED <<money, rows, remote, registered, faults, tainted, local>>

(* checkLedgerBalance: the company's own ledger may be short.              *)
CheckLedger(r) ==
    /\ pc[r] = "ledger"
    /\ \/ Goto(r, "reserve") /\ UNCHANGED local
       \/ Raise(r)
    /\ UNCHANGED <<money, rows, remote, env>>

(* updateBalance(-amount), which also writes the wallet transaction row.   *)
Debit(k) ==
    /\ balance' = balance - Amount[k]
    /\ debits' = [debits EXCEPT ![k] = @ + 1]
    /\ fwtStatus' = [fwtStatus EXCEPT ![k] = "INITIATED"]
    /\ UNCHANGED <<txStatus, escrow, refunds>>

ReserveBalance(r) ==
    /\ pc[r] = "reserve"
    /\ IF balance >= Amount[Tx[r]]
       THEN Debit(Tx[r]) /\ Goto(r, "escrow") /\ UNCHANGED local
       ELSE Raise(r) /\ UNCHANGED <<money, rows>>
    /\ UNCHANGED <<remote, env>>

MoveMoneyToEscrow(r) ==
    /\ pc[r] = "escrow"
    /\ escrow' = [escrow EXCEPT ![Tx[r]] = Amount[Tx[r]]]
    /\ Goto(r, "pendingTx")
    /\ UNCHANGED <<balance, debits, refunds, rows, remote, env, local>>

MarkPending(r) ==
    \/ /\ pc[r] = "pendingTx"
       /\ txStatus' = [txStatus EXCEPT ![Tx[r]] = "PENDING"]
       /\ Goto(r, "pendingFwt")
       /\ UNCHANGED <<fwtStatus, money, remote, env, local>>
    \/ /\ pc[r] = "pendingFwt"
       /\ fwtStatus' = [fwtStatus EXCEPT ![Tx[r]] = "PENDING"]
       /\ Goto(r, "circuit")
       /\ UNCHANGED <<txStatus, money, remote, env, local>>

(* The circuit breaker lets the call pass or makes the handler fail the    *)
(* withdrawal, revert it and throw.                                        *)
CheckCircuit(r) ==
    /\ pc[r] = "circuit"
    /\ \/ Goto(r, "transfer") /\ UNCHANGED local
       \/ Enter(r, "failTx", "rethrow")
    /\ UNCHANGED <<money, rows, remote, env>>

(* Variant: a lost answer is taken for a failed transfer.                  *)
TransferTimeoutFails(r) ==
    LET k == Tx[r] IN
    /\ pc[r] = "transfer"
    /\ \/ /\ provider' = [provider EXCEPT ![k] = "processing"]
          /\ transfers' = [transfers EXCEPT ![k] = @ + 1]
          /\ (Goto(r, "confirm") /\ UNCHANGED local) \/ Raise(r)
       \/ Enter(r, "revert", "rethrow") /\ UNCHANGED remote
    /\ UNCHANGED <<money, rows, env>>

(* transferToOtherBank.  The request may reach the provider or not, its    *)
(* answer may be lost, and an error that isPreApiValidationError matches   *)
(* means the provider will not pay.  That branch reverts before the status *)
(* is FAILED, and rethrows.                                                *)
Transfer(r) ==
    LET k == Tx[r] IN
    /\ pc[r] = "transfer"
    /\ \/ /\ provider' = [provider EXCEPT ![k] = "processing"]
          /\ transfers' = [transfers EXCEPT ![k] = @ + 1]
          /\ Goto(r, "confirm") \/ Goto(r, "queue")
          /\ UNCHANGED local
       \/ Goto(r, "queue") /\ UNCHANGED <<remote, local>>
       \/ Enter(r, "revert", "rethrow") /\ UNCHANGED remote
    /\ UNCHANGED <<money, rows, env>>

(* Variant: an undecided answer is left alone.                             *)
ConfirmWithoutPoll(r) ==
    /\ pc[r] = "confirm"
    /\ \/ Goto(r, "finally") /\ UNCHANGED local
       \/ provider[Tx[r]] = "paid" /\ Goto(r, "complete") /\ UNCHANGED local
       \/ provider[Tx[r]] = "rejected" /\ Enter(r, "failTx", "return")
    /\ UNCHANGED <<money, rows, remote, env>>

(* getTransactionStatus right after the transfer; every error of the       *)
(* adapter has status 500, so it queues a poll like an undecided answer.   *)
ConfirmStatus(r) ==
    /\ pc[r] = "confirm"
    /\ \/ Goto(r, "queue") /\ UNCHANGED local
       \/ provider[Tx[r]] = "paid" /\ Goto(r, "complete") /\ UNCHANGED local
       \/ provider[Tx[r]] = "rejected" /\ Enter(r, "failTx", "return")
    /\ UNCHANGED <<money, rows, remote, env>>

(* The job a request adds, and the slot it goes to.                        *)
AddJob(r, j) ==
    /\ pc[j] = "none"
    /\ Tx[j] = Tx[r]
    /\ attempt' = [attempt EXCEPT ![j] = 1]
    /\ registered' = TRUE

QueueStatusPoll(r) ==
    /\ pc[r] = "queue"
    /\ \E j \in Jobs :
          /\ AddJob(r, j)
          /\ pc' = [pc EXCEPT ![r] = "finally", ![j] = "queued"]
    /\ UNCHANGED <<money, rows, remote, sessions, faults, tainted, mode, seen>>

(* The withdrawal is COMPLETED; the handler then notifies the user.        *)
Complete(a) ==
    \/ /\ pc[a] = "complete"
       /\ txStatus' = [txStatus EXCEPT ![Tx[a]] = "COMPLETED"]
       /\ Goto(a, "completeFwt")
       /\ UNCHANGED <<fwtStatus, money, remote, env, local>>
    \/ /\ pc[a] = "completeFwt"
       /\ fwtStatus' = [fwtStatus EXCEPT ![Tx[a]] = "COMPLETED"]
       /\ Goto(a, IF a \in Requests THEN "notify" ELSE "none")
       /\ UNCHANGED <<txStatus, money, remote, env, local>>

Notify(r) ==
    /\ pc[r] = "notify"
    /\ Goto(r, "finally")
    /\ UNCHANGED <<money, rows, remote, env, local>>

(* The withdrawal is FAILED: both rows, then revertWithdrawalBalance.      *)
Fail(a) ==
    \/ /\ pc[a] = "failTx"
       /\ txStatus' = [txStatus EXCEPT ![Tx[a]] = "FAILED"]
       /\ Goto(a, "failFwt")
       /\ UNCHANGED <<fwtStatus, money, remote, env, local>>
    \/ /\ pc[a] = "failFwt"
       /\ fwtStatus' = [fwtStatus EXCEPT ![Tx[a]] = "FAILED"]
       /\ Goto(a, "revert")
       /\ UNCHANGED <<txStatus, money, remote, env, local>>

(* Where an agent goes when the revert, or its last step, is over.         *)
AfterRevert(a) ==
    IF a \in Jobs THEN Goto(a, "none") /\ UNCHANGED local
    ELSE IF a \in Operators THEN Goto(a, "idle") /\ UNCHANGED local
    ELSE IF mode[a] = "rethrow" THEN Raise(a)
    ELSE Goto(a, "finally") /\ UNCHANGED local

(* Variant: the transaction's amount is refunded without an escrow check.  *)
RevertIgnoringEscrow(a) ==
    LET k == Tx[a] IN
    /\ pc[a] = "revert"
    /\ IF txStatus[k] = "FAILED"
       THEN /\ seen' = [seen EXCEPT ![a] = Amount[k]]
            /\ Goto(a, "refund")
            /\ UNCHANGED <<mode, attempt>>
       ELSE AfterRevert(a)
    /\ UNCHANGED <<money, rows, remote, env>>

(* revertWithdrawalBalance reads the status and the escrow ...             *)
Revert(a) ==
    LET k == Tx[a] IN
    /\ pc[a] = "revert"
    /\ IF txStatus[k] = "FAILED" /\ escrow[k] # 0
       THEN /\ seen' = [seen EXCEPT ![a] = escrow[k]]
            /\ Goto(a, "refund")
            /\ UNCHANGED <<mode, attempt>>
       ELSE AfterRevert(a)
    /\ UNCHANGED <<money, rows, remote, env>>

(* ... credits what it read (updateBalance refuses COMPLETED) ...          *)
Credit(k, amount) ==
    /\ balance' = balance + amount
    /\ refunds' = [refunds EXCEPT ![k] = @ + 1]
    /\ UNCHANGED <<escrow, debits>>

Refund(a) ==
    LET k == Tx[a] IN
    /\ pc[a] = "refund"
    /\ IF txStatus[k] # "COMPLETED"
       THEN /\ Credit(k, seen[a])
            /\ fwtStatus' = [fwtStatus EXCEPT ![k] = "FAILED"]
            /\ Goto(a, "release")
            /\ UNCHANGED local
       ELSE Throw(a) /\ UNCHANGED <<money, fwtStatus>>
    /\ UNCHANGED <<txStatus, remote, env>>

(* ... and deletes the escrow.                                             *)
ReleaseEscrow(a) ==
    /\ pc[a] = "release"
    /\ escrow' = [escrow EXCEPT ![Tx[a]] = 0]
    /\ AfterRevert(a)
    /\ UNCHANGED <<balance, debits, refunds, rows, remote, env>>

EndSession(r) ==
    /\ pc[r] = "finally"
    /\ sessions' = sessions \ {Tx[r]}
    /\ Goto(r, "done")
    /\ UNCHANGED <<money, rows, remote, registered, faults, tainted, local>>

-----------------------------------------------------------------------------
(* Variant: a job is processed whatever the status of its transaction.     *)
StartPollUnchecked(j) ==
    /\ pc[j] = "queued"
    /\ registered
    /\ Goto(j, "poll")
    /\ UNCHANGED <<money, rows, remote, env, local>>

(* A worker takes a poll job; one whose transaction is no longer PENDING   *)
(* is skipped.                                                             *)
StartPoll(j) ==
    /\ pc[j] = "queued"
    /\ registered
    /\ Goto(j, IF txStatus[Tx[j]] = "PENDING" THEN "poll" ELSE "none")
    /\ UNCHANGED <<money, rows, remote, env, local>>

(* Variant: the last undecided poll is dropped.                            *)
PollDropsLast(j) ==
    LET answer == provider[Tx[j]] IN
    /\ pc[j] = "poll"
    /\ CASE answer = "paid" -> Goto(j, "complete") /\ UNCHANGED local
         [] answer = "rejected" -> Goto(j, "failTx") /\ UNCHANGED local
         [] OTHER -> Requeue(j)
    /\ UNCHANGED <<money, rows, remote, env>>

(* The provider's answer; a transfer it does not know counts as PENDING.   *)
Poll(j) ==
    LET answer == provider[Tx[j]] IN
    /\ pc[j] = "poll"
    /\ CASE answer = "paid" -> Goto(j, "complete") /\ UNCHANGED local
         [] answer = "rejected" -> Goto(j, "failTx") /\ UNCHANGED local
         [] OTHER -> IF attempt[j] < MaxAttempts
                     THEN Requeue(j)
                     ELSE Goto(j, "reviewTx") /\ UNCHANGED local
    /\ UNCHANGED <<money, rows, remote, env>>

(* The provider does not answer; not the last time.                        *)
PollError(j) ==
    /\ pc[j] = "poll"
    /\ attempt[j] < MaxAttempts
    /\ Requeue(j)
    /\ UNCHANGED <<money, rows, remote, env>>

(* handleMaxAttemptsReached.                                               *)
MarkReview(j) ==
    \/ /\ pc[j] = "reviewTx"
       /\ txStatus' = [txStatus EXCEPT ![Tx[j]] = "REVIEW"]
       /\ Goto(j, "reviewFwt")
       /\ UNCHANGED <<fwtStatus, money, remote, env, local>>
    \/ /\ pc[j] = "reviewFwt"
       /\ fwtStatus' = [fwtStatus EXCEPT ![Tx[j]] = "REVIEW"]
       /\ Goto(j, "none")
       /\ UNCHANGED <<txStatus, money, remote, env, local>>

-----------------------------------------------------------------------------
(* updateInReviewTransactionStatus(FAILED), asked for by an operator who   *)
(* knows from the provider that the transfer did not and will not happen:  *)
(* checks and escrow read first, then one database transaction.            *)
OperatorDecides(o) ==
    LET k == Tx[o] IN
    /\ pc[o] = "idle"
    /\ txStatus[k] = "REVIEW"
    /\ provider[k] \in {"none", "rejected"}
    /\ seen' = [seen EXCEPT ![o] = escrow[k]]
    /\ Goto(o, "decided")
    /\ UNCHANGED <<money, rows, remote, env, mode, attempt>>

OperatorRefunds(o) ==
    LET k == Tx[o] IN
    /\ pc[o] = "decided"
    /\ txStatus' = [txStatus EXCEPT ![k] = "FAILED"]
    /\ IF seen[o] > 0 THEN Credit(k, Amount[k]) ELSE UNCHANGED money
    /\ tainted' = IF txStatus[k] = "REVIEW" THEN tainted ELSE tainted \cup {k}
    /\ Goto(o, "release")
    /\ UNCHANGED <<fwtStatus, remote, sessions, registered, faults, local>>

(* The provider settles a transfer it received.                            *)
ProviderSettles(k) ==
    /\ provider[k] = "processing"
    /\ \E s \in {"paid", "rejected"} : provider' = [provider EXCEPT ![k] = s]
    /\ UNCHANGED <<money, rows, transfers, env, local, pc>>

-----------------------------------------------------------------------------
CountFault ==
    /\ faults < MaxFaults
    /\ faults' = faults + 1

(* Where an exception makes the handler run a refund it must not run, or   *)
(* run it again: after the transfer, or between a refund and the deletion  *)
(* of its escrow when an outer catch block will revert again.              *)
Delicate(a) ==
    /\ a \in Requests
    /\ \/ pc[a] \in {"queue", "complete", "completeFwt", "notify"}
       \/ pc[a] \in {"refund", "release"} /\ mode[a] # "catch"

(* A call to the database, Redis or the queue throws without effect.       *)
CallFails(a) ==
    /\ pc[a] \in IF a \in Requests THEN TryPoints \cup FailPoints
                 ELSE IF a \in Jobs THEN JobPoints \ {"none", "queued"}
                 ELSE {"decided", "release"}
    /\ CountFault
    /\ tainted' = IF Delicate(a) /\ pc[a] # "refund"
                  THEN tainted \cup {Tx[a]} ELSE tainted
    /\ Throw(a)
    /\ UNCHANGED <<money, rows, remote, sessions, registered>>

(* endSession fails: the handler ends with its session still in the set.   *)
EndSessionFails(r) ==
    /\ pc[r] = "finally"
    /\ CountFault
    /\ Goto(r, "done")
    /\ UNCHANGED <<money, rows, remote, sessions, registered, tainted, local>>

(* updateBalance commits and then throws LockNotOwnedError.                *)
CommitsThenThrows(a) ==
    /\ CountFault
    /\ \/ /\ pc[a] = "reserve"
          /\ balance >= Amount[Tx[a]]
          /\ Debit(Tx[a])
          /\ UNCHANGED tainted
       \/ /\ pc[a] = "refund"
          /\ txStatus[Tx[a]] # "COMPLETED"
          /\ Credit(Tx[a], seen[a])
          /\ fwtStatus' = [fwtStatus EXCEPT ![Tx[a]] = "FAILED"]
          /\ tainted' = IF Delicate(a) THEN tainted \cup {Tx[a]} ELSE tainted
          /\ UNCHANGED txStatus
    /\ Throw(a)
    /\ UNCHANGED <<remote, sessions, registered>>

(* addJob gives up after 10 s, but the job is in the queue.                *)
AddJobTimesOut(r) ==
    /\ pc[r] = "queue"
    /\ CountFault
    /\ \E j \in Jobs :
          /\ AddJob(r, j)
          /\ pc' = [pc EXCEPT ![r] = "failTx", ![j] = "queued"]
    /\ mode' = [mode EXCEPT ![r] = "catch"]
    /\ tainted' = tainted \cup {Tx[r]}
    /\ UNCHANGED <<money, rows, remote, sessions, seen>>

(* The same for the poller's own requeue, which its catch block repeats:   *)
(* two jobs now poll one transaction.                                      *)
RequeueTimesOut(j) ==
    /\ pc[j] = "poll"
    /\ provider[Tx[j]] \in {"none", "processing"}
    /\ attempt[j] < MaxAttempts
    /\ CountFault
    /\ \E d \in Jobs :
          /\ pc[d] = "none"
          /\ Tx[d] = Tx[j]
          /\ pc' = [pc EXCEPT ![j] = "queued", ![d] = "queued"]
          /\ attempt' = [attempt EXCEPT ![j] = attempt[j] + 1,
                                        ![d] = attempt[j] + 1]
    /\ tainted' = tainted \cup {Tx[j]}
    /\ UNCHANGED <<money, rows, remote, sessions, registered, mode, seen>>

(* The process restarts: requests die with their sessions left behind,     *)
(* BullMQ puts stalled jobs back, and nobody consumes the queue until the  *)
(* next withdrawal registers the processor.                                *)
Restart ==
    /\ CountFault
    /\ pc' = [a \in Agents |->
                IF a \in Jobs THEN IF pc[a] = "none" THEN "none" ELSE "queued"
                ELSE IF a \in Operators THEN "idle"
                ELSE IF pc[a] \in {"idle", "done"} THEN pc[a] ELSE "crashed"]
    /\ registered' = FALSE
    /\ UNCHANGED <<money, rows, remote, sessions, tainted, local>>

-----------------------------------------------------------------------------
HandlerStep(r) ==
    \/ Receive(r) \/ CheckSession(r) \/ CreateRows(r) \/ StartSession(r)
    \/ CheckLedger(r) \/ ReserveBalance(r) \/ MoveMoneyToEscrow(r)
    \/ MarkPending(r) \/ CheckCircuit(r) \/ Transfer(r) \/ ConfirmStatus(r)
    \/ QueueStatusPoll(r) \/ Notify(r) \/ EndSession(r)

PollerStep(j) == StartPoll(j) \/ Poll(j) \/ MarkReview(j)

SharedStep(a) ==
    Complete(a) \/ Fail(a) \/ Revert(a) \/ Refund(a) \/ ReleaseEscrow(a)

OperatorStep(o) == OperatorDecides(o) \/ OperatorRefunds(o)

FaultStep(a) ==
    \/ CallFails(a)
    \/ CommitsThenThrows(a)
    \/ a \in Requests /\ (EndSessionFails(a) \/ AddJobTimesOut(a))
    \/ a \in Jobs /\ RequeueTimesOut(a)

Next ==
    \/ \E r \in Requests : HandlerStep(r) \/ Decline(r)
    \/ \E j \in Jobs : PollerStep(j) \/ PollError(j)
    \/ \E o \in Operators : OperatorStep(o)
    \/ \E a \in Agents : SharedStep(a) \/ FaultStep(a)
    \/ \E k \in Keys : ProviderSettles(k)
    \/ Restart

Spec == Init /\ [][Next]_vars

(* Every awaited call returns (HTTP, Redis and database clients have       *)
(* timeouts) and a registered worker consumes the queue.  The provider     *)
(* need not settle, and nobody need act on a review.                       *)
FairSpec ==
    /\ Spec
    /\ \A r \in Requests : WF_vars(HandlerStep(r) \/ SharedStep(r))
    /\ \A j \in Jobs : WF_vars(PollerStep(j) \/ SharedStep(j))

-----------------------------------------------------------------------------
(* A refunded withdrawal is never paid out as well, not even when the      *)
(* provider pays late, unless an exception struck the handler after the    *)
(* transfer had been sent.                                                 *)
RefundedIsNotPaid ==
    \A k \in Keys \ tainted :
        refunds[k] > 0 => provider[k] \in {"none", "rejected"}

(* A withdrawal is refunded at most once, although the handler, its catch  *)
(* block, the poller and an operator may all revert it; the exceptions are *)
(* the delicate points, duplicated jobs and overlapping operators.         *)
RefundedOnce ==
    \A k \in Keys \ tainted : refunds[k] <= debits[k] /\ refunds[k] <= 1

(* One idempotency key moves money once: at most one reservation and one   *)
(* transfer, and no transfer without its reservation, for any number of    *)
(* repeated or concurrent requests, exceptions and restarts.               *)
OneTransferPerKey ==
    \A k \in Keys :
        debits[k] <= 1 /\ transfers[k] <= debits[k]

Busy(k) ==
    \E a \in Agents :
        Tx[a] = k /\ pc[a] \notin {"idle", "done", "crashed", "none"}

(* Without exceptions, a withdrawal nobody works on any more is settled:   *)
(* its rows are terminal or in review, FAILED means that the user has the  *)
(* money back and COMPLETED that the provider paid.  Two operators whose   *)
(* decisions overlap refund twice, and taint it.                           *)
SettledAtRest ==
    \A k \in Keys \ tainted : faults = 0 /\ ~Busy(k) =>
        CASE txStatus[k] = "none" -> debits[k] = 0
          [] txStatus[k] = "FAILED" -> /\ refunds[k] = debits[k]
                                       /\ escrow[k] = 0
                                       /\ provider[k] # "paid"
          [] txStatus[k] = "COMPLETED" -> /\ provider[k] = "paid"
                                          /\ fwtStatus[k] = "COMPLETED"
                                          /\ refunds[k] = 0
          [] txStatus[k] = "REVIEW" -> debits[k] = 1 /\ refunds[k] = 0
          [] OTHER -> FALSE

(* COMPLETED and FAILED are final: nobody overwrites them with what was    *)
(* decided from an older read, outside the tainted cases.                  *)
TerminalIsFinal ==
    [][ \A k \in Keys :
          txStatus[k] \in {"COMPLETED", "FAILED"} /\ txStatus'[k] # txStatus[k]
             => k \in tainted' ]_vars

(* How far a withdrawal's money has gone.  No payout is ever at "broken":  *)
(* reserved twice, refunded more often than reserved, or refunded although *)
(* the provider pays or may pay.                                           *)
Broken(k) ==
    \/ debits[k] > 1
    \/ refunds[k] > debits[k]
    \/ refunds[k] > 0 /\ provider[k] \in {"processing", "paid"}

Phase ==
    [k \in Keys |-> IF Broken(k) THEN "broken"
                    ELSE IF refunds[k] > 0 THEN "returned"
                    ELSE IF provider[k] = "paid" THEN "paid"
                    ELSE IF provider[k] = "processing" THEN "sent"
                    ELSE IF debits[k] > 0 THEN "held" ELSE "none"]

PayoutRef == INSTANCE Payout WITH phase <- Phase, doubted <- tainted

(* The handler, the poller, the operators and the provider together keep   *)
(* the promise of a payout: the amount is reserved once without            *)
(* overdrawing the wallet, is with the provider only while it is reserved, *)
(* and the refund, whoever makes it from the escrow it read earlier, gives *)
(* back that very amount, once and only if the provider does not pay.      *)
PayoutSpec == PayoutRef!Spec

(* A PENDING withdrawal is eventually completed, failed or put in review.  *)
EventuallySettled ==
    \A k \in Keys :
        txStatus[k] = "PENDING" ~> txStatus[k] \in {"COMPLETED", "FAILED",
                                                    "REVIEW"}
=============================================================================
