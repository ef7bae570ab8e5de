--------------------------- MODULE NgnUsdExchange ---------------------------
(***************************************************************************)
(* One exchange of naira to US dollars.  NgToUsdExchangeService orders a   *)
(* pay-in at YellowCard and keeps its data in Redis for ten minutes; every *)
(* executeExchange queues a job (ExecuteNgUsdExchangeProcessor) that       *)
(* creates the rows, debits the naira wallet, notes the amount in escrow   *)
(* and lets Paga pay YellowCard.  YellowCard's collection webhook and      *)
(* ZeroHash's deposit webhook, each delivered any number of times, end the *)
(* naira row and credit the dollar wallet.  (The fiat_wallet_transaction   *)
(* of the naira row follows it and is read by nobody.)                     *)
(*                                                                         *)
(* updateBalance on its own connection is atomic (module FiatWallet); in   *)
(* its caller's transaction it reads first and is visible at the commit.   *)
(* The regular exchange in production is modelled, not card funding.       *)
(***************************************************************************)
EXTENDS Integers, FiniteSets

CONSTANTS
    Jobs,           \* executeExchange calls, each with its job
    Yc,             \* deliveries of YellowCard's collection webhook
    Zh,             \* deliveries of ZeroHash's deposit webhook at a time
    Rows,           \* room for dollar rows (the hash is not unique)
    Nobody,         \* holder of the free lock; no row
    InitialBalance, \* of the naira wallet, in units of the exchanged amount
    MaxAttempts,    \* attempts of a job (3)
    MaxFaults       \* bound on failing calls

Agents == Jobs \cup Yc \cup Zh

ASSUME NgnUsdExchangeAssumption ==
    /\ Jobs \cap Yc = {} /\ Jobs \cap Zh = {} /\ Yc \cap Zh = {}
    /\ Nobody \notin Agents \cup Rows
    /\ Rows # {}
    /\ InitialBalance \in Nat
    /\ MaxAttempts \in Nat \ {0}
    /\ MaxFaults \in Nat

VARIABLES
    pc,        \* the call each agent awaits next
    attempt,   \* of a job
    event,     \* of a delivery of YellowCard
    row,       \* dollar row an agent works on
    seen,      \* balance of the dollar wallet an agent has read
    escrow,    \* Redis: the amount noted in escrow
    lock,      \* Redis: paga-ledger-account:<n>:transfer-to-other-bank
    tx,        \* the naira row: transactions.status
    ngn,       \* fiat_wallets.balance, naira
    entered,   \* the reference is in paga_ledger_transactions
    usdTx,     \* dollar rows: transactions.status
    usdFwt,    \* dollar rows: whether a fiat_wallet_transaction exists
    usd,       \* fiat_wallets.balance, dollars
    bank,      \* Paga: the transfer
    payIn,     \* YellowCard: the pay-in
    faults,    \* so far
    debits, refunds, sent, \* observers: of the naira wallet; transfers
    raced,     \* observer: the status changed after it was read to be failed
    lost,      \* observer: a call failed between the debit and its escrow
    crossed    \* observer: two handlers wrote one dollar row or wallet at once

redis == <<escrow, lock>>
naira == <<tx, ngn, entered>>
dollars == <<usdTx, usdFwt, usd, crossed>>
remote == <<bank, payIn>>
counts == <<debits, refunds, sent, raced, lost>>
local == <<attempt, event, row, seen>>
vars == <<pc, local, redis, naira, dollars, remote, counts, faults>>

Statuses == {"none", "INITIATED", "PENDING", "PROCESSING", "COMPLETED",
             "FAILED", "RECONCILE"}

(* The terminal statuses, which updateStatus keeps.                        *)
Ended == {"COMPLETED", "FAILED"}

(* The job's calls inside its inner try block.                             *)
TryPoints == {"accept", "debit", "moveToEscrow", "waitLock", "enter", "post", "status"}

(* Its calls outside that block, those of the catch block included.        *)
ThrowPoints == {"find", "create", "catch", "failRead", "failWrite", "failCommit",
                "readEscrow", "refund", "release"}

Points == TryPoints \cup ThrowPoints \cup
    {"idle", "complete", "completeCommit", "settling", "markProcessing", "settled", "reconcile",
     "createRow", "deposit", "placeholder", "readUsd", "commitUsd", "done"}

(* Each variable has a value the code can give it.                         *)
TypeOK ==
    /\ pc \in [Agents -> Points]
    /\ attempt \in [Jobs -> 1..MaxAttempts]
    /\ event \in [Yc -> {"complete", "failed", "settling", "settled"}]
    /\ row \in [Yc \cup Zh -> Rows \cup {Nobody}]
    /\ seen \in [Yc \cup Zh -> Nat]
    /\ escrow \in BOOLEAN
    /\ lock \in Jobs \cup {Nobody}
    /\ tx \in Statuses
    /\ ngn \in Nat
    /\ entered \in BOOLEAN
    /\ usdTx \in [Rows -> Statuses]
    /\ usdFwt \in [Rows -> BOOLEAN]
    /\ usd \in Nat
    /\ bank \in {"none", "processing", "paid", "failed"}
    /\ payIn \in {"open", "accepted", "complete", "failed", "settled"}
    /\ faults \in 0..MaxFaults
    /\ debits \in Nat /\ refunds \in Nat /\ sent \in Nat
    /\ raced \in BOOLEAN /\ lost \in BOOLEAN /\ crossed \in BOOLEAN

(* initializeNgToUSDExchange has stored the data and ordered the pay-in.   *)
Init ==
    /\ pc = [a \in Agents |-> "idle"]
    /\ attempt = [j \in Jobs |-> 1]
    /\ event = [y \in Yc |-> "complete"]
    /\ row = [a \in Yc \cup Zh |-> Nobody]
    /\ seen = [a \in Yc \cup Zh |-> 0]
    /\ escrow = FALSE /\ lock = Nobody
    /\ tx = "none" /\ ngn = InitialBalance /\ entered = FALSE
    /\ usdTx = [r \in Rows |-> "none"] /\ usdFwt = [r \in Rows |-> FALSE]
    /\ usd = 0
    /\ bank = "none" /\ payIn = "open"
    /\ faults = 0
    /\ debits = 0 /\ refunds = 0 /\ sent = 0
    /\ raced = FALSE /\ lost = FALSE /\ crossed = FALSE

Goto(a, p) == pc' = [pc EXCEPT ![a] = p]

Moves(a, from, to) == pc[a] = from /\ Goto(a, to)

(* The job throws: BullMQ runs it again, up to its attempts.               *)
RunAgain(j) ==
    IF attempt[j] < MaxAttempts
    THEN Goto(j, "find") /\ attempt' = [attempt EXCEPT ![j] = @ + 1]
    ELSE Goto(j, "done") /\ UNCHANGED attempt
-----------------------------------------------------------------------------
(* executeExchange: each call adds a job.                                  *)
Execute(j) ==
    /\ Moves(j, "idle", "find")
    /\ UNCHANGED <<local, redis, naira, dollars, remote, counts, faults>>

(* The job reads the data and looks for the reference.  Its balance check  *)
(* never fails: the total fee it adds is not among the data.               *)
FindRows(j) ==
    /\ pc[j] = "find"
    /\ Goto(j, IF tx = "none" THEN "create" ELSE "accept")
    /\ UNCHANGED <<local, redis, naira, dollars, remote, counts, faults>>

(* createAllSourceTransactionsOrThrow; transactions.reference is unique.   *)
CreateRows(j) ==
    /\ pc[j] = "create"
    /\ IF tx = "none"
       THEN tx' = "INITIATED" /\ Goto(j, "accept") /\ UNCHANGED attempt
       ELSE RunAgain(j) /\ UNCHANGED tx
    /\ UNCHANGED <<event, row, seen, ngn, entered, redis, dollars, remote, counts, faults>>

AcceptPayIn(j) ==
    /\ pc[j] = "accept"
    /\ IF payIn = "failed"
       THEN Goto(j, "catch") /\ UNCHANGED payIn
       ELSE /\ Goto(j, "debit")
            /\ payIn' = IF payIn = "open" THEN "accepted" ELSE payIn
    /\ UNCHANGED <<local, redis, naira, dollars, bank, counts, faults>>

(* deductFundsFromUser, skipped only when the exchange is COMPLETED: first *)
(* the wallet ...                                                          *)
Deduct(j) ==
    /\ pc[j] = "debit"
    /\ IF tx = "COMPLETED" THEN Goto(j, "waitLock") /\ UNCHANGED <<ngn, debits>>
       ELSE IF ngn = 0 THEN Goto(j, "catch") /\ UNCHANGED <<ngn, debits>>
       ELSE /\ ngn' = ngn - 1
            /\ debits' = debits + 1
            /\ Goto(j, "moveToEscrow")
    /\ UNCHANGED <<local, redis, tx, entered, dollars, remote, refunds, sent, raced, lost, faults>>

(* Variant: the note is forgotten.                                         *)
MoveMoneyToEscrowVariant(j) ==
    /\ Moves(j, "moveToEscrow", "waitLock")
    /\ UNCHANGED <<local, redis, naira, dollars, remote, counts, faults>>

(* ... then the note in Redis that a refund will go by.                    *)
MoveMoneyToEscrow(j) ==
    /\ Moves(j, "moveToEscrow", "waitLock")
    /\ escrow' = TRUE
    /\ UNCHANGED <<local, lock, naira, dollars, remote, counts, faults>>

Unlocked(j) == IF lock = j THEN Nobody ELSE lock

(* Variant: the ledger does not look the reference up.                     *)
LookForEntryVariant(j) ==
    /\ Moves(j, "waitLock", "enter")
    /\ lock = Nobody
    /\ lock' = j
    /\ UNCHANGED <<local, escrow, naira, dollars, remote, counts, faults>>

(* transferToOtherBank under its lock: the reference is looked up, ...     *)
LookForEntry(j) ==
    /\ pc[j] = "waitLock"
    /\ lock = Nobody
    /\ IF entered
       THEN Goto(j, "catch") /\ UNCHANGED lock
       ELSE Goto(j, "enter") /\ lock' = j
    /\ UNCHANGED <<local, escrow, naira, dollars, remote, counts, faults>>

(* ... entered in the ledger ...                                           *)
EnterReference(j) ==
    /\ Moves(j, "enter", "post")
    /\ entered' = TRUE
    /\ UNCHANGED <<local, redis, tx, ngn, dollars, remote, counts, faults>>

(* ... and sent to Paga.  A rejection is returned like an acceptance.      *)
DepositToBank(j, answer) ==
    /\ Moves(j, "post", "status")
    /\ bank' = answer
    /\ sent' = IF answer = "processing" THEN sent + 1 ELSE sent
    /\ lock' = Unlocked(j)
    /\ UNCHANGED <<local, escrow, naira, dollars, payIn, debits, refunds, raced, lost, faults>>

(* The lease of 30 s may end while Paga has not answered.                  *)
LeaseEnds(j) ==
    /\ pc[j] = "post" /\ lock = j
    /\ lock' = Nobody
    /\ UNCHANGED <<pc, local, escrow, naira, dollars, remote, counts, faults>>

(* getTransactionStatus, then the record of the fee                        *)
(* (createAFeeRecordForTheTransactionForThePagaLedgerAccounts).            *)
CheckTransfer(j) ==
    /\ pc[j] = "status"
    /\ Goto(j, IF bank = "failed" THEN "catch" ELSE "done")
    /\ UNCHANGED <<local, redis, naira, dollars, remote, counts, faults>>

(* The inner catch block: an ended exchange ends the job without an error. *)
Catch(j) ==
    /\ pc[j] = "catch"
    /\ Goto(j, IF tx \in Ended THEN "done" ELSE "failRead")
    /\ UNCHANGED <<local, redis, naira, dollars, remote, counts, faults>>

(* A call throws (so does the job when its data has expired, or when the   *)
(* rate has); the transfer may have reached Paga all the same.             *)
JobFails(j) ==
    /\ faults < MaxFaults
    /\ faults' = faults + 1
    /\ \/ pc[j] \in ThrowPoints /\ RunAgain(j) /\ UNCHANGED <<bank, sent, lost, lock>>
       \/ /\ pc[j] \in TryPoints
          /\ Goto(j, "catch")
          /\ lost' = (lost \/ pc[j] = "moveToEscrow")
          /\ lock' = Unlocked(j)
          /\ \/ UNCHANGED <<bank, sent>>
             \/ pc[j] = "post" /\ bank' = "processing" /\ sent' = sent + 1
          /\ UNCHANGED attempt
    /\ UNCHANGED <<event, row, seen, escrow, naira, dollars, payIn, debits, refunds, raced>>
-----------------------------------------------------------------------------
(* updateSourceTransactionsToFailed, called by the job's catch block and   *)
(* by YellowCard's webhook.  A job throws after it.                        *)
Leave(a) ==
    IF a \in Jobs THEN RunAgain(a) ELSE Goto(a, "done") /\ UNCHANGED attempt

FailRead(a) ==
    /\ pc[a] = "failRead"
    /\ IF tx \in Ended THEN Leave(a) ELSE Goto(a, "failWrite") /\ UNCHANGED attempt
    /\ UNCHANGED <<event, row, seen, redis, naira, dollars, remote, counts, faults>>

(* updateStatus looks again in the transaction that writes; what it saw    *)
(* may be outdated when the write is committed.                            *)
FailWrite(a) ==
    \/ /\ pc[a] = "failWrite"
       /\ Goto(a, IF tx = "COMPLETED" THEN "readEscrow" ELSE "failCommit")
       /\ raced' = (raced \/ tx \in Ended)
       /\ UNCHANGED <<local, redis, naira, dollars, remote, debits, refunds, sent, lost, faults>>
    \/ /\ Moves(a, "failCommit", "readEscrow")
       /\ tx' = "FAILED"
       /\ raced' = (raced \/ tx \in Ended)
       /\ UNCHANGED <<local, redis, ngn, entered, dollars, remote, debits, refunds, sent, lost, faults>>

(* Variant: the amount is refunded whether or not it was taken.            *)
GetEscrowAmountVariant(a) ==
    /\ Moves(a, "readEscrow", "refund")
    /\ UNCHANGED <<local, redis, naira, dollars, remote, counts, faults>>

GetEscrowAmount(a) ==
    /\ pc[a] = "readEscrow"
    /\ IF escrow THEN Goto(a, "refund") /\ UNCHANGED attempt ELSE Leave(a)
    /\ UNCHANGED <<event, row, seen, redis, naira, dollars, remote, counts, faults>>

(* createRefundTransactionAndFiatTransaction                               *)
Refund(a) ==
    /\ Moves(a, "refund", "release")
    /\ ngn' = ngn + 1
    /\ refunds' = refunds + 1
    /\ UNCHANGED <<local, redis, tx, entered, dollars, remote, debits, sent, raced, lost, faults>>

ReleaseMoneyFromEscrow(a) ==
    /\ pc[a] = "release"
    /\ escrow' = FALSE
    /\ IF a \in Yc /\ event[a] = "complete" THEN Goto(a, "done") /\ UNCHANGED attempt
       ELSE Leave(a)
    /\ UNCHANGED <<event, row, seen, lock, naira, dollars, remote, counts, faults>>
-----------------------------------------------------------------------------
(* Paga and YellowCard.                                                    *)
BankSettles ==
    /\ bank = "processing"
    /\ bank' \in {"paid", "failed"}
    /\ UNCHANGED <<pc, local, redis, naira, dollars, payIn, counts, faults>>

PayInMoves ==
    /\ \/ payIn = "accepted" /\ bank = "paid" /\ payIn' = "complete"
       \/ payIn = "complete" /\ payIn' = "settled"
       \/ payIn \in {"open", "accepted"} /\ bank # "paid" /\ payIn' = "failed"
    /\ UNCHANGED <<pc, local, redis, naira, dollars, bank, counts, faults>>

-----------------------------------------------------------------------------
(* handleCollectionWebhook: without the naira row every branch throws.     *)
(* Failed, cancelled and expired pay-ins are handled alike.                *)
YcReceive(a, e) ==
    /\ pc[a] = "idle"
    /\ \/ e \in {"complete", "settling"} /\ payIn \in {"complete", "settled"}
       \/ e \in {"failed", "settled"} /\ payIn = e
    /\ event' = [event EXCEPT ![a] = e]
    /\ Goto(a, IF tx = "none" THEN "done" ELSE IF e = "failed" THEN "failRead" ELSE e)
    /\ UNCHANGED <<attempt, row, seen, redis, naira, dollars, remote, counts, faults>>

(* handleCollectionCompleted; updateStatus as in FailWrite.  The escrow is *)
(* released whatever the status.                                           *)
CollectionCompleted(a) ==
    \/ /\ pc[a] = "complete"
       /\ Goto(a, IF tx = "FAILED" THEN "release" ELSE "completeCommit")
       /\ UNCHANGED <<local, redis, naira, dollars, remote, counts, faults>>
    \/ /\ Moves(a, "completeCommit", "release")
       /\ tx' = "COMPLETED"
       /\ UNCHANGED <<local, redis, ngn, entered, dollars, remote, counts, faults>>

(* handleCollectionSettlementProcessing: any dollar row of the exchange.   *)
SettlementProcessing(a) ==
    \/ /\ pc[a] = "settling"
       /\ \/ (\A r \in Rows : ~usdFwt[r]) /\ Goto(a, "done") /\ UNCHANGED row
          \/ \E r \in Rows :
                /\ usdFwt[r]
                /\ row' = [row EXCEPT ![a] = r]
                /\ Goto(a, IF usdTx[r] \in Ended THEN "done" ELSE "markProcessing")
       /\ UNCHANGED <<attempt, event, seen, redis, naira, dollars, remote, counts, faults>>
    \/ /\ Moves(a, "markProcessing", "done")
       /\ usdTx' = [usdTx EXCEPT ![row[a]] = "PROCESSING"]
       /\ crossed' = (crossed \/ usdTx[row[a]] = "COMPLETED")
       /\ UNCHANGED <<local, redis, naira, usdFwt, usd, remote, counts, faults>>

NewRow(status, withFwt) ==
    \E r \in Rows :
        /\ usdTx[r] = "none"
        /\ usdTx' = [usdTx EXCEPT ![r] = status]
        /\ usdFwt' = [usdFwt EXCEPT ![r] = withFwt]

(* createPendingUSDTransaction: looks for ZeroHash's placeholder and       *)
(* creates a row when there is none; it does not look for its own.         *)
SettlementCompleted(a) ==
    \/ /\ pc[a] = "settled"
       /\ \/ /\ \A r \in Rows : usdTx[r] # "RECONCILE"
             /\ Goto(a, "createRow") /\ UNCHANGED row
          \/ \E r \in Rows :
                /\ usdTx[r] = "RECONCILE"
                /\ row' = [row EXCEPT ![a] = r]
                /\ Goto(a, "reconcile")
       /\ UNCHANGED <<attempt, event, seen, redis, naira, dollars, remote, counts, faults>>
    \/ /\ Moves(a, "createRow", "done")
       /\ NewRow("PENDING", TRUE)
       /\ UNCHANGED <<local, redis, naira, usd, crossed, remote, counts, faults>>

(* reconcilePlaceholderTransaction                                         *)
Reconcile(a) ==
    /\ Moves(a, "reconcile", "readUsd")
    /\ usdTx' = [usdTx EXCEPT ![row[a]] = "PENDING"]
    /\ usdFwt' = [usdFwt EXCEPT ![row[a]] = TRUE]
    /\ crossed' = (crossed \/ usdTx[row[a]] = "COMPLETED")
    /\ UNCHANGED <<local, redis, naira, usd, remote, counts, faults>>

(* processDepositMovement: a row with the hash, or a placeholder.          *)
ZhReceive(a) ==
    /\ Moves(a, "idle", "deposit")
    /\ payIn = "settled"
    /\ UNCHANGED <<local, redis, naira, dollars, remote, counts, faults>>

Deposit(a) ==
    \/ /\ pc[a] = "deposit"
       /\ \/ /\ \A r \in Rows : usdTx[r] = "none"
             /\ Goto(a, "placeholder") /\ UNCHANGED row
          \/ \E r \in Rows :
                /\ usdTx[r] # "none"
                /\ row' = [row EXCEPT ![a] = r]
                /\ Goto(a, IF usdFwt[r] THEN "readUsd" ELSE "done")
       /\ UNCHANGED <<attempt, event, seen, redis, naira, dollars, remote, counts, faults>>
    \/ /\ Moves(a, "placeholder", "done")
       /\ NewRow("RECONCILE", FALSE)
       /\ UNCHANGED <<local, redis, naira, usd, crossed, remote, counts, faults>>

(* Variant: a COMPLETED row is credited again.                             *)
ReadUsdVariant(a) ==
    /\ Moves(a, "readUsd", "commitUsd")
    /\ seen' = [seen EXCEPT ![a] = usd]
    /\ UNCHANGED <<attempt, event, row, redis, naira, dollars, remote, counts, faults>>

(* completeExchangeTransaction: updateBalance reads the wallet and the row *)
(* in a transaction ...                                                    *)
ReadUsd(a) ==
    /\ pc[a] = "readUsd"
    /\ IF usdTx[row[a]] = "COMPLETED"
       THEN Goto(a, "done") /\ UNCHANGED seen
       ELSE Goto(a, "commitUsd") /\ seen' = [seen EXCEPT ![a] = usd]
    /\ UNCHANGED <<attempt, event, row, redis, naira, dollars, remote, counts, faults>>

(* ... that commits the new balance and the status.                        *)
CommitUsd(a) ==
    /\ Moves(a, "commitUsd", "done")
    /\ usd' = seen[a] + 1
    /\ usdTx' = [usdTx EXCEPT ![row[a]] = "COMPLETED"]
    /\ crossed' = (crossed \/ usd # seen[a])
    /\ UNCHANGED <<local, redis, naira, usdFwt, remote, counts, faults>>

(* Any call of a webhook throws (YellowCard's answers an error, ZeroHash's *)
(* swallows it); a transaction that is open is rolled back.                *)
WebhookFails(a) ==
    /\ pc[a] \notin {"idle", "done"}
    /\ faults < MaxFaults
    /\ faults' = faults + 1
    /\ Goto(a, "done")
    /\ UNCHANGED <<local, redis, naira, dollars, remote, counts>>
(* ZeroHash delivers the deposit again.                                    *)
ZhAgain(a) ==
    /\ Moves(a, "done", "idle")
    /\ row' = [row EXCEPT ![a] = Nobody]
    /\ seen' = [seen EXCEPT ![a] = 0]
    /\ UNCHANGED <<attempt, event, redis, naira, dollars, remote, counts, faults>>
-----------------------------------------------------------------------------
JobStep(j) ==
    \/ FindRows(j) \/ CreateRows(j) \/ AcceptPayIn(j) \/ Deduct(j)
    \/ MoveMoneyToEscrow(j) \/ LookForEntry(j) \/ EnterReference(j)
    \/ LeaseEnds(j) \/ CheckTransfer(j) \/ Catch(j) \/ JobFails(j)

FailStep(a) ==
    FailRead(a) \/ FailWrite(a) \/ GetEscrowAmount(a) \/ Refund(a) \/ ReleaseMoneyFromEscrow(a)

YcStep(a) == \/ CollectionCompleted(a) \/ SettlementProcessing(a)
             \/ SettlementCompleted(a) \/ Reconcile(a)

Next ==
    \/ \E j \in Jobs : Execute(j) \/ JobStep(j)
    \/ \E j \in Jobs, answer \in {"processing", "failed"} : DepositToBank(j, answer)
    \/ \E a \in Jobs \cup Yc : FailStep(a)
    \/ \E a \in Yc, e \in {"complete", "failed", "settling", "settled"} : YcReceive(a, e)
    \/ \E a \in Yc : YcStep(a)
    \/ \E a \in Zh : ZhReceive(a) \/ Deposit(a) \/ ZhAgain(a)
    \/ \E a \in Yc \cup Zh : ReadUsd(a) \/ CommitUsd(a) \/ WebhookFails(a)
    \/ BankSettles \/ PayInMoves

Spec == Init /\ [][Next]_vars
-----------------------------------------------------------------------------
(* However often the exchange is executed and its jobs are retried, Paga   *)
(* sends the naira at most once, and never more often than they were taken *)
(* from the wallet (deductFundsFromUser before transferToOtherBank).       *)
NgnSentOnce == sent <= 1 /\ sent <= debits

(* The escrowed amount goes back to the wallet at most once, unless two    *)
(* callers of updateSourceTransactionsToFailed (a job's catch block and    *)
(* YellowCard's webhook, or two jobs) both read a status that the other    *)
(* was about to change.                                                    *)
NgnRefundedOnce == ~raced => refunds <= 1 /\ refunds <= debits

AtRest == \A a \in Agents : pc[a] \in {"idle", "done"}

(* When nothing runs, an exchange debited once has its naira on record: in *)
(* escrow, refunded or collected by YellowCard.  A call that fails between *)
(* the debit and the note in escrow is the exception.                      *)
NgnAccounted ==
    AtRest /\ debits = 1 /\ ~lost
        => escrow \/ refunds > 0 \/ payIn \in {"complete", "settled"}

Completed == {r \in Rows : usdTx[r] = "COMPLETED"}

(* The dollar wallet holds one credit for each row that says COMPLETED,    *)
(* whichever of ZeroHash's deposit and YellowCard's settlement comes first *)
(* and however often (completeExchangeTransaction), unless two handlers    *)
(* had the same row, or the wallet, in hand at once.                       *)
UsdFollowsRows ==
    ~crossed => usd = Cardinality(Completed)
=============================================================================
