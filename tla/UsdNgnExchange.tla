--------------------------- MODULE UsdNgnExchange ---------------------------
(***************************************************************************)
(* One exchange of US dollars to naira.  The request creates the parent    *)
(* transaction and queues a job (FiatExchangeService, ExchangeProcessor)   *)
(* that orders a payout at YellowCard and a withdrawal at ZeroHash.  Three *)
(* providers then report by webhook, in any order: ZeroHash (the dollars   *)
(* left), YellowCard (the payout ended) and Paga (the naira arrived in the *)
(* exchange's virtual account).  They meet in two rows: the parent, whose  *)
(* completion debits the dollar wallet, and the child in naira, whose      *)
(* completion credits the naira wallet.  ExchangeRetryService orders       *)
(* another payout.                                                         *)
(*                                                                         *)
(* Two Redis locks are state here: W, withdrawal_<request>, with a lease   *)
(* of 30 s, and X, exchange_webhook_<parent>, with one of 240 s.  Work     *)
(* under a lock is assumed to fit its lease; waiting for the other lock    *)
(* under W need not (LeaseEnds).                                           *)
(***************************************************************************)
EXTENDS Integers, FiniteSets

CONSTANTS
    Zh,             \* deliveries of ZeroHash's account balance webhook
    Yc,             \* deliveries of YellowCard's payment webhook
    Pg,             \* deliveries of Paga's persistent account webhook
    Retries,        \* requests to ExchangeRetryService
    Job,            \* the exchange job, and the payout it orders
    Nobody,         \* holder of a free lock; reference of no payout
    Children,       \* room for child rows (parent_transaction_id is not unique)
    Amount,
    InitialBalance,
    MaxAttempts,    \* attempts of the exchange job (3)
    MaxUpsets       \* bound on failing calls, stalled jobs and retries, together

Deliveries == Zh \cup Yc \cup Pg
Agents == Deliveries \cup Retries
Payouts == Retries \cup {Job}

ASSUME UsdNgnExchangeAssumption ==
    /\ Zh \cap Yc = {} /\ Zh \cap Pg = {} /\ Yc \cap Pg = {}
    /\ Deliveries \cap Retries = {}
    /\ Job \notin Agents
    /\ Nobody \notin Agents \cup {Job}
    /\ Children # {}
    /\ Amount \in Nat \ {0}
    /\ InitialBalance \in Nat
    /\ MaxAttempts \in Nat \ {0}
    /\ MaxUpsets \in Nat

VARIABLES
    request,      \* the database transaction of FiatExchangeService.exchange
    jobPc,        \* the call the job awaits next
    attempt,      \* of the job
    ptx,          \* parent: transactions.status
    pfwt,         \* parent: fiat_wallet_transactions.status
    linked,       \* parent: provider_request_ref is set
    current,      \* parent: the payout whose sequence is its reference
    child,        \* naira rows: status, or "none"
    usd,          \* fiat_wallets.balance of the dollar wallet
    withdrawal,   \* ZeroHash: the withdrawal
    account,      \* ZeroHash: the balance of the user's account
    payout,       \* YellowCard: the payouts
    lockW, lockX, \* holders of the two locks
    pc,           \* the call each agent awaits next
    event,        \* of a delivery of ZeroHash
    about,        \* payout of a delivery
    wasDone,      \* the parent was COMPLETED when read before the lock
    seen,         \* balance an agent has read
    found,        \* child row an agent has read
    upsets,       \* so far
    debits,       \* observer: debits of the dollar wallet
    credits,      \* observer: naira credits per payout (= Paga ledger rows)
    crossed,      \* observer: a reconciliation wrote an outdated balance
    tainted,      \* observer: a call failed between a debit and its record
    reopened      \* observer: the job wrote over a COMPLETED parent (pfwt)

parent == <<ptx, pfwt, linked, current>>
remote == <<withdrawal, account, payout>>
wallet == <<usd, debits, crossed>>
jobVars == <<request, jobPc, attempt>>
locks == <<lockW, lockX>>
local == <<event, about, wasDone, seen, found>>
rest == <<upsets, tainted, reopened>>
vars == <<parent, remote, wallet, jobVars, locks, local, rest, child, credits, pc>>

Statuses == {"none", "INITIATED", "PROCESSING", "COMPLETED", "FAILED",
             "CANCELLED", "RECONCILE"}

(* Statuses that updateStatus does not change.                             *)
Terminal == {"COMPLETED", "FAILED", "CANCELLED"}

UpdateStatus(old, new) == IF old \in Terminal THEN old ELSE new

(* The awaited calls of checkAndCompleteUsdWithdrawal under W, shared with *)
(* processWithdrawalConfirmed.                                             *)
DebitPoints == {"readWallet", "writeWallet", "completeTx", "completeFwt"}

ChildPoints == {"child", "createChild"}

(* Where W, or X, is held by the agent (unless the lease of W ended).      *)
UnderW(a) == pc[a] \in DebitPoints \cup {"look", "pendTx", "pendFwt", "recheck", "freeW"}
             \/ pc[a] \in ChildPoints \/ (a \in Zh /\ pc[a] \in {"waitX", "freeX"})

UnderX(a) == \/ a \in Zh /\ pc[a] \in ChildPoints \cup {"freeX"}
             \/ a \notin Zh /\ pc[a] \in DebitPoints \cup ChildPoints \cup
                  {"check", "waitW", "recheck", "freeW", "fetch", "reconcile",
                   "find", "markChild", "ledger", "commit", "create", "freeX"}

Points == DebitPoints \cup ChildPoints \cup
    {"idle", "waitW", "look", "pendTx", "pendFwt", "recheck", "freeW", "waitX",
     "check", "fetch", "reconcile", "find", "markChild", "ledger", "commit",
     "create", "freeX", "failFind", "failWrite", "end", "retryRead",
     "retryWrite", "retryCreate", "setReference", "done"}

(* Each variable has a value the code can give it.                         *)
TypeOK ==
    /\ request \in {"idle", "open", "committed", "aborted"}
    /\ jobPc \in {"none", "queued", "withdraw", "updateTx", "updateFwt",
                  "ending", "failTx", "failFwt", "done"}
    /\ attempt \in 1..MaxAttempts
    /\ ptx \in Statuses
    /\ pfwt \in Statuses
    /\ linked \in BOOLEAN
    /\ current \in Payouts \cup {Nobody}
    /\ child \in [Children -> Statuses]
    /\ usd \in Int
    /\ withdrawal \in {"none", "submitted", "approved", "confirmed"}
    /\ account \in Int
    /\ payout \in [Payouts -> {"none", "created", "complete", "failed",
                               "expired", "cancelled"}]
    /\ lockW \in Deliveries \cup {Nobody}
    /\ lockX \in Deliveries \cup {Nobody}
    /\ pc \in [Agents -> Points]
    /\ event \in [Zh -> {"pending", "confirmed"}]
    /\ about \in [Yc \cup Pg -> Payouts]
    /\ wasDone \in [Yc \cup Pg -> BOOLEAN]
    /\ seen \in [Deliveries -> Int]
    /\ found \in [Agents -> Children]
    /\ upsets \in 0..MaxUpsets
    /\ debits \in Nat
    /\ credits \in [Payouts -> Nat]
    /\ crossed \in BOOLEAN
    /\ tainted \in BOOLEAN
    /\ reopened \in BOOLEAN

Init ==
    /\ request = "idle" /\ jobPc = "none" /\ attempt = 1
    /\ ptx = "none" /\ pfwt = "none" /\ linked = FALSE /\ current = Nobody
    /\ child = [c \in Children |-> "none"]
    /\ usd = InitialBalance /\ account = InitialBalance
    /\ withdrawal = "none"
    /\ payout = [p \in Payouts |-> "none"]
    /\ lockW = Nobody /\ lockX = Nobody
    /\ pc = [a \in Agents |-> "idle"]
    /\ event = [a \in Zh |-> "pending"]
    /\ about = [a \in Yc \cup Pg |-> Job]
    /\ wasDone = [a \in Yc \cup Pg |-> FALSE]
    /\ seen = [d \in Deliveries |-> 0]
    /\ found = [a \in Agents |-> CHOOSE c \in Children : TRUE]
    /\ upsets = 0
    /\ debits = 0
    /\ credits = [p \in Payouts |-> 0]
    /\ crossed = FALSE /\ tainted = FALSE /\ reopened = FALSE

Upset == upsets < MaxUpsets /\ upsets' = upsets + 1

Goto(a, p) == pc' = [pc EXCEPT ![a] = p]

HasChild == \E c \in Children : child[c] # "none"

(* A row not used yet: ids are fresh.                                      *)
FreshChild == CHOOSE c \in Children : child[c] = "none"

(* findOne returns any of the rows that match.                             *)
Found(c) == child[c] # "none"

-----------------------------------------------------------------------------
(* FiatExchangeService.exchange: the rows and the job are made in one      *)
(* database transaction; the job is in Redis before the rows are visible.  *)
Exchange ==
    /\ request = "idle"
    /\ usd >= Amount
    /\ request' = "open"
    /\ jobPc' = "queued"
    /\ UNCHANGED <<attempt, parent, remote, wallet, locks, local, rest, child, credits, pc>>

CommitRows ==
    /\ request = "open"
    /\ request' = "committed"
    /\ ptx' = "INITIATED" /\ pfwt' = "INITIATED"
    /\ UNCHANGED <<jobPc, attempt, linked, current, remote, wallet, locks, local, rest, child, credits, pc>>

RollBack ==
    /\ request = "open"
    /\ Upset
    /\ request' = "aborted"
    /\ UNCHANGED <<jobPc, attempt, parent, remote, wallet, locks, local, tainted, reopened, child, credits, pc>>

JobGoto(p) == jobPc' = p /\ UNCHANGED <<request, attempt>>

(* createYellowCardPayoutRequest, after the lookups before it.             *)
JobPayOut ==
    /\ jobPc = "queued"
    /\ payout' = [payout EXCEPT ![Job] = IF @ = "none" THEN "created" ELSE @]
    /\ JobGoto("withdraw")
    /\ UNCHANGED <<withdrawal, account, parent, wallet, locks, local, rest, child, credits, pc>>

(* createWithdrawalRequest.  The client's request id is the transaction's  *)
(* reference, so a repeated request is the same withdrawal.                *)
JobWithdraw ==
    /\ jobPc = "withdraw"
    /\ withdrawal' = IF withdrawal = "none" THEN "submitted" ELSE withdrawal
    /\ JobGoto("updateTx")
    /\ UNCHANGED <<account, payout, parent, wallet, locks, local, rest, child, credits, pc>>

(* The updates by id that end the job, whatever the rows say by then; a    *)
(* row that is not visible yet is not updated, and nobody notices.         *)
JobUpdateTx ==
    /\ jobPc = "updateTx"
    /\ IF request = "committed"
       THEN ptx' = "PROCESSING" /\ current' = Job
       ELSE UNCHANGED <<ptx, current>>
    /\ JobGoto("updateFwt")
    /\ UNCHANGED <<pfwt, linked, remote, wallet, locks, local, rest, child, credits, pc>>

(* The job writes s into the parent's fiat wallet transaction.             *)
JobWritesFwt(s) ==
    /\ pfwt' = IF request = "committed" THEN s ELSE pfwt
    /\ reopened' = (reopened \/ pfwt = "COMPLETED")

JobUpdateFwt ==
    /\ jobPc = "updateFwt"
    /\ JobWritesFwt("PROCESSING")
    /\ linked' = (linked \/ request = "committed")
    /\ JobGoto("ending")
    /\ UNCHANGED <<ptx, current, remote, wallet, locks, local, upsets, tainted, child, credits, pc>>

(* The job has returned and BullMQ notes that it is completed.             *)
JobEnds ==
    /\ jobPc = "ending"
    /\ JobGoto("done")
    /\ UNCHANGED <<parent, remote, wallet, locks, local, rest, child, credits, pc>>

(* A provider refuses, the rate is no longer valid, or any of these calls  *)
(* fails, perhaps only after its effect: the answer of a withdrawal        *)
(* request may be lost, and update is an UPDATE and a SELECT, so that the  *)
(* job may throw at "ending", too.                                         *)
JobThrows ==
    /\ \/ jobPc \in {"queued", "withdraw"} /\ UNCHANGED <<withdrawal, upsets>>
       \/ jobPc \in {"updateTx", "updateFwt", "ending"} /\ Upset /\ UNCHANGED withdrawal
       \/ jobPc = "withdraw" /\ Upset /\ withdrawal = "none" /\ withdrawal' = "submitted"
    /\ JobGoto("failTx")
    /\ UNCHANGED <<account, payout, parent, wallet, locks, local, tainted, reopened, child, credits, pc>>

(* BullMQ runs the job again unless its attempts are used up.              *)
JobRetried ==
    /\ attempt < MaxAttempts
    /\ jobPc' = "queued" /\ attempt' = attempt + 1
    /\ UNCHANGED request

(* The catch block: both rows FAILED whatever they are, then, unless the   *)
(* failure is permanent, the job is retried; so it is when the catch block *)
(* throws.                                                                 *)
JobFails ==
    \/ /\ jobPc = "failTx"
       /\ ptx' = IF request = "committed" THEN "FAILED" ELSE ptx
       /\ JobGoto("failFwt")
       /\ UNCHANGED <<pfwt, linked, current, remote, wallet, locks, local, rest, child, credits, pc>>
    \/ /\ jobPc = "failFwt"
       /\ JobWritesFwt("FAILED")
       /\ JobGoto("done") \/ JobRetried
       /\ UNCHANGED <<ptx, linked, current, remote, wallet, locks, local, upsets, tainted, child, credits, pc>>
    \/ /\ jobPc \in {"failTx", "failFwt"}
       /\ Upset
       /\ IF attempt < MaxAttempts THEN JobRetried ELSE JobGoto("done")
       /\ UNCHANGED <<parent, remote, wallet, locks, local, tainted, reopened, child, credits, pc>>

(* The process dies wherever the job is: BullMQ takes the job for stalled  *)
(* and runs it again, which is not counted as an attempt.                  *)
JobStalls ==
    /\ jobPc \notin {"none", "queued", "done"}
    /\ Upset
    /\ JobGoto("queued")
    /\ UNCHANGED <<parent, remote, wallet, locks, local, tainted, reopened, child, credits, pc>>

-----------------------------------------------------------------------------
(* The providers.  ZeroHash approves a withdrawal, then the coins leave    *)
(* the account; YellowCard pays when the coins are on their way.           *)
Approve ==
    /\ withdrawal = "submitted"
    /\ withdrawal' = "approved"
    /\ UNCHANGED <<account, payout, parent, wallet, jobVars, locks, local, rest, child, credits, pc>>

Confirm ==
    /\ withdrawal = "approved"
    /\ withdrawal' = "confirmed"
    /\ account' = account - Amount
    /\ UNCHANGED <<payout, parent, wallet, jobVars, locks, local, rest, child, credits, pc>>

EndPayout(p, s) ==
    /\ payout[p] = "created"
    /\ s = "complete" => withdrawal \in {"approved", "confirmed"}
    /\ payout' = [payout EXCEPT ![p] = s]
    /\ UNCHANGED <<withdrawal, account, parent, wallet, jobVars, locks, local, rest, child, credits, pc>>

-----------------------------------------------------------------------------
(* ZeroHash: processWithdrawalPending and processWithdrawalConfirmed.      *)
ZhReceive(a, k) ==
    /\ pc[a] = "idle"
    /\ \/ k = "pending" /\ withdrawal # "none"
       \/ k = "confirmed" /\ withdrawal = "confirmed"
    /\ event' = [event EXCEPT ![a] = k]
    /\ Goto(a, "waitW")
    /\ UNCHANGED <<about, wasDone, seen, found, parent, remote, wallet, jobVars, locks, rest, child, credits>>

(* Variant: the handler runs without the lock withdrawal_<request>.        *)
TakeWVariant(a) ==
    /\ pc[a] = "waitW"
    /\ Goto(a, IF a \in Zh THEN "look" ELSE "recheck")
    /\ UNCHANGED <<locks, parent, remote, wallet, jobVars, local, rest, child, credits>>

TakeW(a) ==
    /\ pc[a] = "waitW"
    /\ lockW = Nobody
    /\ lockW' = a
    /\ Goto(a, IF a \in Zh THEN "look" ELSE "recheck")
    /\ UNCHANGED <<lockX, parent, remote, wallet, jobVars, local, rest, child, credits>>

(* The row is found by provider_request_ref.                               *)
ZhLook(a) ==
    /\ pc[a] = "look"
    /\ Goto(a, IF linked /\ event[a] = "confirmed" /\ pfwt = "PROCESSING"
               THEN "readWallet"
               ELSE IF linked /\ event[a] = "pending" /\ pfwt # "COMPLETED"
               THEN "pendTx" ELSE "freeW")
    /\ UNCHANGED <<locks, parent, remote, wallet, jobVars, local, rest, child, credits>>

(* Variant: processWithdrawalPending does not look at the parent's status. *)
ZhPendingVariant(a) ==
    \/ /\ pc[a] = "pendTx"
       /\ Goto(a, "pendFwt") /\ ptx' = "PROCESSING"
       /\ UNCHANGED <<pfwt, linked, current, locks, remote, wallet, jobVars, local, rest, child, credits>>
    \/ /\ pc[a] = "pendFwt"
       /\ pfwt' = "PROCESSING"
       /\ Goto(a, "freeW")
       /\ UNCHANGED <<ptx, linked, current, locks, remote, wallet, jobVars, local, rest, child, credits>>

ZhPending(a) ==
    \/ /\ pc[a] = "pendTx"
       /\ IF ptx = "COMPLETED"
          THEN Goto(a, "freeW") /\ UNCHANGED ptx
          ELSE Goto(a, "pendFwt") /\ ptx' = "PROCESSING"
       /\ UNCHANGED <<pfwt, linked, current, locks, remote, wallet, jobVars, local, rest, child, credits>>
    \/ /\ pc[a] = "pendFwt"
       /\ pfwt' = "PROCESSING"
       /\ Goto(a, "freeW")
       /\ UNCHANGED <<ptx, linked, current, locks, remote, wallet, jobVars, local, rest, child, credits>>

(* The dollar wallet is debited by a read and a write ...                  *)
ReadWallet(a) ==
    /\ pc[a] = "readWallet"
    /\ seen' = [seen EXCEPT ![a] = usd]
    /\ Goto(a, "writeWallet")
    /\ UNCHANGED <<event, about, wasDone, found, locks, parent, remote, wallet, jobVars, rest, child, credits>>

WriteWallet(a) ==
    /\ pc[a] = "writeWallet"
    /\ usd' = seen[a] - Amount
    /\ seen' = [seen EXCEPT ![a] = 0]
    /\ debits' = debits + 1
    /\ Goto(a, "completeTx")
    /\ UNCHANGED <<event, about, wasDone, found, crossed, locks, parent, remote, jobVars, rest, child, credits>>

(* ... and then recorded, by ZeroHash's webhook with updateStatus.         *)
CompleteTx(a) ==
    /\ pc[a] = "completeTx"
    /\ ptx' = IF a \in Zh THEN UpdateStatus(ptx, "COMPLETED") ELSE "COMPLETED"
    /\ Goto(a, "completeFwt")
    /\ UNCHANGED <<pfwt, linked, current, locks, remote, wallet, jobVars, local, rest, child, credits>>

CompleteFwt(a) ==
    /\ pc[a] = "completeFwt"
    /\ pfwt' = "COMPLETED"
    /\ Goto(a, IF a \in Zh THEN "waitX" ELSE "child")
    /\ UNCHANGED <<ptx, linked, current, locks, remote, wallet, jobVars, local, rest, child, credits>>

(* createIncomingNgnTransaction: looks, then looks again in a database     *)
(* transaction and creates the row; without an active rate it does not.    *)
LookForChild(a) ==
    /\ pc[a] = "child"
    /\ \/ Goto(a, IF a \in Zh THEN "freeX" ELSE "freeW")
       \/ ~HasChild /\ Goto(a, "createChild")
    /\ UNCHANGED <<locks, parent, remote, wallet, jobVars, local, rest, child, credits>>

CreateChild(a) ==
    /\ pc[a] = "createChild"
    /\ \/ \E c \in Children :
             Found(c) /\ child' = [child EXCEPT ![c] = UpdateStatus(@, "PROCESSING")]
       \/ ~HasChild /\ child' = [child EXCEPT ![FreshChild] = "INITIATED"]
    /\ Goto(a, IF a \in Zh THEN "freeX" ELSE "freeW")
    /\ UNCHANGED <<locks, parent, remote, wallet, jobVars, local, rest, credits>>

(* compare-and-delete of the locks                                         *)
FreeW(a) ==
    /\ pc[a] = "freeW"
    /\ lockW' = IF lockW = a THEN Nobody ELSE lockW
    /\ Goto(a, IF a \in Zh THEN "done" ELSE "fetch")
    /\ UNCHANGED <<lockX, parent, remote, wallet, jobVars, local, rest, child, credits>>

FreeX(a) ==
    /\ pc[a] = "freeX"
    /\ lockX' = Nobody
    /\ Goto(a, IF a \in Zh THEN "freeW" ELSE "done")
    /\ UNCHANGED <<lockW, parent, remote, wallet, jobVars, local, rest, child, credits>>

(* Variant: the lock has no time to live.                                  *)
LeaseEndsVariant(a) == lockW = a /\ pc[a] = "waitX" /\ UNCHANGED vars

(* The 30 s of W pass while its holder waits for X.                        *)
LeaseEnds(a) ==
    /\ lockW = a
    /\ pc[a] = "waitX"
    /\ lockW' = Nobody
    /\ UNCHANGED <<lockX, parent, remote, wallet, jobVars, local, rest, child, credits, pc>>

-----------------------------------------------------------------------------
(* YellowCard: the parent is found by its reference, the sequence of the   *)
(* latest payout.                                                          *)
YcReceive(a, p) ==
    /\ pc[a] = "idle"
    /\ payout[p] \notin {"none", "created"}
    /\ about' = [about EXCEPT ![a] = p]
    /\ wasDone' = [wasDone EXCEPT ![a] = (ptx = "COMPLETED")]
    /\ Goto(a, IF current # p THEN "done"
               ELSE IF payout[p] = "complete" THEN "waitX"
               ELSE IF payout[p] = "failed" THEN "failFind" ELSE "end")
    /\ UNCHANGED <<event, seen, found, locks, parent, remote, wallet, jobVars, rest, child, credits>>

(* handlePaymentFailed.  Its findOne throws when there is no child, so the *)
(* branch that would create a failed one is never taken.                   *)
YcFailFind(a) ==
    /\ pc[a] = "failFind"
    /\ \/ /\ ~HasChild
          /\ Goto(a, "done") /\ UNCHANGED found
       \/ \E c \in Children :
             /\ Found(c)
             /\ found' = [found EXCEPT ![a] = c]
             /\ Goto(a, IF child[c] = "COMPLETED" THEN "done" ELSE "failWrite")
    /\ UNCHANGED <<event, about, wasDone, seen, locks, parent, remote, wallet, jobVars, rest, child, credits>>

YcFailWrite(a) ==
    /\ pc[a] = "failWrite"
    /\ child' = [child EXCEPT ![found[a]] = UpdateStatus(@, "FAILED")]
    /\ Goto(a, "done")
    /\ UNCHANGED <<local, locks, parent, remote, wallet, jobVars, rest, credits>>

(* handlePaymentExpired and handlePaymentCancelled end the parent.         *)
YcEnd(a) ==
    /\ pc[a] = "end"
    /\ LET s == IF payout[about[a]] = "expired" THEN "FAILED" ELSE "CANCELLED" IN
       /\ ptx' = UpdateStatus(ptx, s)
       /\ pfwt' = UpdateStatus(pfwt, s)
    /\ Goto(a, "done")
    /\ UNCHANGED <<linked, current, local, locks, remote, wallet, jobVars, rest, child, credits>>

(* Paga: the parent is found through the virtual account.                  *)
PgReceive(a, p) ==
    /\ pc[a] = "idle"
    /\ payout[p] = "complete"
    /\ about' = [about EXCEPT ![a] = p]
    /\ wasDone' = [wasDone EXCEPT ![a] = (ptx = "COMPLETED")]
    /\ Goto(a, IF ptx = "none" THEN "done" ELSE "waitX")
    /\ UNCHANGED <<event, seen, found, locks, parent, remote, wallet, jobVars, rest, child, credits>>

(* Variant: the handler runs without the lock exchange_webhook_<parent>.   *)
TakeXVariant(a) ==
    /\ pc[a] = "waitX"
    /\ Goto(a, IF a \in Zh THEN "child"
               ELSE IF wasDone[a] THEN "find" ELSE "check")
    /\ UNCHANGED <<locks, parent, remote, wallet, jobVars, local, rest, child, credits>>

TakeX(a) ==
    /\ pc[a] = "waitX"
    /\ lockX = Nobody
    /\ lockX' = a
    /\ Goto(a, IF a \in Zh THEN "child"
               ELSE IF wasDone[a] THEN "find" ELSE "check")
    /\ UNCHANGED <<lockW, parent, remote, wallet, jobVars, local, rest, child, credits>>

(* checkAndCompleteUsdWithdrawal: 'approved' counts as confirmed.          *)
Check(a) ==
    /\ pc[a] = "check"
    /\ Goto(a, IF linked /\ withdrawal \in {"approved", "confirmed"}
               THEN "waitW" ELSE "fetch")
    /\ UNCHANGED <<locks, parent, remote, wallet, jobVars, local, rest, child, credits>>

(* Variant: the status is not looked at again under the lock.              *)
RecheckVariant(a) ==
    /\ pc[a] = "recheck"
    /\ Goto(a, "readWallet")
    /\ UNCHANGED <<locks, parent, remote, wallet, jobVars, local, rest, child, credits>>

Recheck(a) ==
    /\ pc[a] = "recheck"
    /\ Goto(a, IF pfwt = "COMPLETED" THEN "freeW" ELSE "readWallet")
    /\ UNCHANGED <<locks, parent, remote, wallet, jobVars, local, rest, child, credits>>

(* reconcileUsdBalanceFromProvider: the provider's balance is fetched ...  *)
Fetch(a) ==
    /\ pc[a] = "fetch"
    /\ IF account = usd
       THEN Goto(a, "find") /\ UNCHANGED seen
       ELSE Goto(a, "reconcile") /\ seen' = [seen EXCEPT ![a] = account]
    /\ UNCHANGED <<event, about, wasDone, found, locks, parent, remote, wallet, jobVars, rest, child, credits>>

(* ... and written later, under a lock no debit takes.                     *)
Reconcile(a) ==
    /\ pc[a] = "reconcile"
    /\ usd' = seen[a]
    /\ seen' = [seen EXCEPT ![a] = 0]
    /\ crossed' = (crossed \/ seen[a] # InitialBalance - debits * Amount)
    /\ Goto(a, "find")
    /\ UNCHANGED <<debits, event, about, wasDone, found, locks, parent, remote, jobVars, rest, child, credits>>

(* Both look for the child, Paga's webhook and YellowCard's.               *)
FindChild(a) ==
    /\ pc[a] = "find"
    /\ \/ /\ ~HasChild
          /\ Goto(a, IF a \in Pg THEN "create" ELSE "freeX")
          /\ UNCHANGED found
       \/ \E c \in Children :
             /\ Found(c)
             /\ found' = [found EXCEPT ![a] = c]
             /\ Goto(a, IF child[c] = "COMPLETED" THEN "freeX"
                        ELSE IF a \in Pg THEN "ledger" ELSE "markChild")
    /\ UNCHANGED <<event, about, wasDone, seen, locks, parent, remote, wallet, jobVars, rest, child, credits>>

(* updateIncomingTransaction                                               *)
MarkChild(a) ==
    /\ pc[a] = "markChild"
    /\ child' = [child EXCEPT ![found[a]] = UpdateStatus(@, "PROCESSING")]
    /\ Goto(a, "freeX")
    /\ UNCHANGED <<local, locks, parent, remote, wallet, jobVars, rest, credits>>

(* completeExchangeTransaction: the ledger refuses a reference it has, the *)
(* balance a completed transaction ...                                     *)
CheckLedger(a) ==
    /\ pc[a] = "ledger"
    /\ Goto(a, IF credits[about[a]] > 0 \/ child[found[a]] = "COMPLETED"
               THEN "freeX" ELSE "commit")
    /\ UNCHANGED <<local, locks, parent, remote, wallet, jobVars, rest, child, credits>>

(* ... and the credit is committed with the child's status.                *)
Commit(a) ==
    /\ pc[a] = "commit"
    /\ credits' = [credits EXCEPT ![about[a]] = @ + 1]
    /\ child' = [child EXCEPT ![found[a]] = UpdateStatus(@, "COMPLETED")]
    /\ Goto(a, "freeX")
    /\ UNCHANGED <<local, locks, parent, remote, wallet, jobVars, rest>>

(* createCompletedExchangeTransaction: again a look inside the database    *)
(* transaction; an inactive rate gives up.                                 *)
CreateCompleted(a) ==
    /\ pc[a] = "create"
    /\ \/ Goto(a, "freeX") /\ UNCHANGED <<child, credits, found>>
       \/ \E c \in Children :
             /\ Found(c)
             /\ found' = [found EXCEPT ![a] = c]
             /\ Goto(a, IF child[c] = "COMPLETED" THEN "freeX" ELSE "ledger")
             /\ UNCHANGED <<child, credits>>
       \/ /\ ~HasChild
          /\ credits[about[a]] = 0
          /\ child' = [child EXCEPT ![FreshChild] = "COMPLETED"]
          /\ credits' = [credits EXCEPT ![about[a]] = @ + 1]
          /\ Goto(a, "freeX")
          /\ UNCHANGED found
    /\ UNCHANGED <<event, about, wasDone, seen, locks, parent, remote, wallet, jobVars, rest>>

-----------------------------------------------------------------------------
(* ExchangeRetryService.retryExchange: another payout; no status is asked. *)
Retry(r) ==
    /\ pc[r] = "idle"
    /\ ptx # "none"
    /\ Upset
    /\ payout' = [payout EXCEPT ![r] = "created"]
    /\ Goto(r, "retryRead")
    /\ UNCHANGED <<withdrawal, account, parent, wallet, jobVars, locks, local, tainted, reopened, child, credits>>

(* handleNgnChildTransaction                                               *)
RetryRead(r) ==
    /\ pc[r] = "retryRead"
    /\ \/ ~HasChild /\ Goto(r, "retryCreate") /\ UNCHANGED found
       \/ \E c \in Children :
             /\ Found(c)
             /\ found' = [found EXCEPT ![r] = c]
             /\ Goto(r, IF child[c] = "FAILED" THEN "retryWrite" ELSE "setReference")
    /\ UNCHANGED <<event, about, wasDone, seen, parent, remote, wallet, jobVars, locks, rest, child, credits>>

RetryWrite(r) ==
    /\ pc[r] = "retryWrite"
    /\ child' = [child EXCEPT ![found[r]] = "RECONCILE"]
    /\ Goto(r, "setReference")
    /\ UNCHANGED <<local, parent, remote, wallet, jobVars, locks, rest, credits>>

RetryCreate(r) ==
    /\ pc[r] = "retryCreate"
    /\ \/ UNCHANGED child
       \/ (\E c \in Children : ~Found(c)) /\ child' = [child EXCEPT ![FreshChild] = "INITIATED"]
    /\ Goto(r, "setReference")
    /\ UNCHANGED <<local, parent, remote, wallet, jobVars, locks, rest, credits>>

SetReference(r) ==
    /\ pc[r] = "setReference"
    /\ current' = r
    /\ Goto(r, "done")
    /\ UNCHANGED <<ptx, pfwt, linked, local, remote, wallet, jobVars, locks, rest, child, credits>>

-----------------------------------------------------------------------------
(* Where an exception leads: ZeroHash's handlers and the inline check      *)
(* swallow it, the others release what they hold and answer an error.      *)
After(a) ==
    IF pc[a] \in {"failFind", "failWrite", "end"} THEN "done"
    ELSE IF a \in Zh /\ UnderX(a) THEN "freeX"
    ELSE IF UnderW(a) THEN "freeW"
    ELSE IF pc[a] \in {"check", "fetch", "reconcile"} THEN "find"
    ELSE "freeX"

Fails(a) ==
    /\ pc[a] \notin {"idle", "waitW", "waitX", "freeW", "freeX", "done"}
    /\ Upset
    /\ tainted' = (tainted \/ pc[a] \in {"completeTx", "completeFwt"})
    /\ Goto(a, After(a))
    /\ UNCHANGED <<reopened, local, parent, remote, wallet, jobVars, locks, child, credits>>

ZhStep(a) == ZhLook(a) \/ ZhPending(a)

YcStep(a) == YcFailFind(a) \/ YcFailWrite(a) \/ YcEnd(a) \/ MarkChild(a)

PgStep(a) == CheckLedger(a) \/ Commit(a) \/ CreateCompleted(a)

SharedStep(a) ==
    \/ TakeW(a) \/ ReadWallet(a) \/ WriteWallet(a) \/ CompleteTx(a) \/ CompleteFwt(a)
    \/ LookForChild(a) \/ CreateChild(a) \/ FreeW(a) \/ TakeX(a) \/ FreeX(a)

InlineStep(a) == Check(a) \/ Recheck(a) \/ Fetch(a) \/ Reconcile(a) \/ FindChild(a)

RetryStep(r) == RetryRead(r) \/ RetryWrite(r) \/ RetryCreate(r) \/ SetReference(r)

JobStep == \/ JobPayOut \/ JobWithdraw \/ JobUpdateTx \/ JobUpdateFwt \/ JobEnds
           \/ JobThrows \/ JobFails \/ JobStalls

Step(a) == ZhStep(a) \/ YcStep(a) \/ PgStep(a) \/ SharedStep(a) \/ InlineStep(a)

Next ==
    \/ Exchange \/ CommitRows \/ RollBack \/ JobStep
    \/ Approve \/ Confirm
    \/ \E p \in Payouts, s \in {"complete", "failed", "expired", "cancelled"} : EndPayout(p, s)
    \/ \E a \in Zh, k \in {"pending", "confirmed"} : ZhReceive(a, k)
    \/ \E a \in Yc, p \in Payouts : YcReceive(a, p)
    \/ \E a \in Pg, p \in Payouts : PgReceive(a, p)
    \/ \E a \in Deliveries : Step(a) \/ LeaseEnds(a) \/ Fails(a)
    \/ \E r \in Retries : Retry(r) \/ RetryStep(r)

Spec == Init /\ [][Next]_vars

FairSpec ==
    /\ Spec
    /\ \A a \in Deliveries : WF_vars(Step(a)) /\ WF_vars(LeaseEnds(a))

-----------------------------------------------------------------------------
(* The dollars leave the wallet at most once, although ZeroHash's webhook  *)
(* (processWithdrawalConfirmed) and the check that Paga's and YellowCard's *)
(* run inline (checkAndCompleteUsdWithdrawal) both debit it.  There are    *)
(* two exceptions: a call failing between the debit and its record, and a  *)
(* job that runs on after it has linked the parent (it stalled, or its     *)
(* last call threw after its effect) and writes PROCESSING or FAILED over  *)
(* COMPLETED.  The "Re-check status inside lock to prevent double          *)
(* completion" does not see the latter: the job's updates take no lock.    *)
UsdDebitedOnce == ~tainted /\ ~reopened => debits <= 1

(* As long as no reconcileUsdBalanceFromProvider writes a balance that the *)
(* debits had overtaken, the dollar wallet is the initial balance less the *)
(* debits: no debit is computed from an outdated balance.                  *)
UsdBooks == ~crossed => usd = InitialBalance - debits * Amount

(* Each payout is credited to the naira wallet at most once, however often *)
(* Paga reports it and whichever branch of handleExchangeTransaction (the  *)
(* row found, or created completed) handles the report.                    *)
CreditedOncePerPayout == \A p \in Payouts : credits[p] <= 1

(* Only the job takes back that a parent row is COMPLETED, with one of its *)
(* four unguarded updates: no late pending event                           *)
(* (processWithdrawalPending), no late expiry or cancellation and no retry *)
(* does, even after a failed call, or the job, left one of the two rows    *)
(* behind.  So it is final once the job has ended.                         *)
CompletedStays ==
    [][/\ ptx = "COMPLETED" /\ ptx' # "COMPLETED" =>
             jobPc \in {"updateTx", "failTx"} /\ jobPc' # jobPc
       /\ pfwt = "COMPLETED" /\ pfwt' # "COMPLETED" =>
             jobPc \in {"updateFwt", "failFwt"} /\ jobPc' # jobPc]_vars

(* Every webhook that starts ends, although ZeroHash's waits for X under W *)
(* (createIncomingNgnTransaction) and the others for W under X             *)
(* (checkAndCompleteUsdWithdrawal): the lease of W breaks the cycle.       *)
EveryDeliveryEnds == \A a \in Deliveries : pc[a] # "idle" ~> pc[a] = "done"
=============================================================================
