# A TLA+ model of the mobile API's money movements

The repository is a NestJS service for a money app: fiat wallets in naira and
dollars, withdrawals and deposits through Paga, exchange through YellowCard and
ZeroHash, cards through Rain, blockchain wallets through Fireblocks, KYC through
Sumsub, and the accounts around them. State lives in PostgreSQL (rows and
database transactions), Redis (locks, escrow amounts, counters, sessions) and
BullMQ (background jobs); several processes serve requests at the same time and
any of them may stop. What can go wrong is therefore mostly in the order of
awaited calls: a balance read before another update, a refund after a transfer
whose answer was lost, a lease that ended under its holder.

Paths below are relative to `src/src/`.

## Inventory

| Component | State it keeps | Operations | Hard behaviour |
|---|---|---|---|
| `services/locker` | one Redis key per lock, with owner and lease | acquire with retries, run, release, extend, forceRelease | leases that end during a callback, crashes, unbounded retry |
| `modules/fiatWallet` balance | `fiat_wallets.balance`, wallet transaction rows | `updateBalance`, `reconcileUsdBalanceFromProvider`, wallet creation | read-modify-write of an absolute balance; lock released before the caller's commit |
| `modules/fiatWallet` NGN withdrawal, escrow, session | two status rows per withdrawal, an escrow amount and a session set in Redis | reserve, escrow, transfer, confirm, revert | lost answers, exceptions after the transfer, repeated requests |
| `processors/ngn-withdrawal` | poll jobs with an attempt number | poll, complete, fail, review, requeue | duplicated, stalled and late jobs; lazy registration |
| `modules/transaction` | transaction status | `updateStatus`, review decisions, refunds, exchange completion | stale reads of status and escrow |
| `services/circuitBreaker`, withdrawal counter | windows, state and counters in Redis | canProceed, recordAttempt, increment and check | keys with and without the prefix, expiring state |
| `services/queue` | BullMQ queues, one router per queue | addJob, processJobs, bulk jobs | addJob's own 10 s timeout, redelivery |
| Paga adapter, ledger accounts and webhook | ledger balance and rows | deposit, top-up, webhook handlers | repeated and concurrent deliveries, no unique reference |
| `modules/exchange`, its processors, YellowCard webhook | exchange transactions, child rows, rates | initialise, execute, retry, complete | timeouts racing webhooks, several money steps |
| ZeroHash webhook, USD wallet | USD balance mirrored from the provider | payment, participant, balance and trade events | reordering, reconciliation |
| cards and Rain webhook | cards, card transactions, funding, fees | fund, spend, reverse, dispute | authorisation and settlement out of order |
| blockchain wallets, gas funding, Fireblocks webhook | wallets, transactions, gas rows | transfer, fund gas, execute | several legs, retry after partial failure |
| login security, tokens | attempt counters, lockouts, refresh tokens | login, verify, refresh | counters with expiry, token reuse |
| tiers, limits, transaction sums | tiers and aggregated amounts | validate a withdrawal, upgrade | check before use |
| Dosh points, rewards | point balances, events | credit per event, stablecoin rewards | one credit per event |
| platform status | status rows per service | record, recover | opposite reports interleaved |
| KYC, Plaid, virtual accounts, rates, notifications, support, CRUD modules | rows | CRUD and provider calls | little of its own |

`PROJECT.json` lists the same parts with their sources and status, and every
hazard at the line where it bites.

The money flows are modelled: locks, wallet balances, withdrawals and deposits in
naira, both directions of the exchange, card payments and card funding, stablecoin
wallets, and the circuit breaker. The last section says what is not.

What makes the core correct:

* lock: two callbacks of one key do not overlap while leases last; a caller that
  gets its own result back was alone; nobody waits forever;
* balance: no update is lost, the wallet is not overdrawn, and the caller's
  result says whether money moved;
* withdrawal: one idempotency key moves money once; a failed withdrawal is
  refunded once; a paid one is not refunded; terminal statuses are final; a
  pending withdrawal ends;
* deposit: a notification credits once however often it is delivered, an
  acknowledged one has credited, and concurrent deposits lose nothing;
* exchange: the source wallet is debited once, each payout is credited once, money
  taken is sent, refunded or on record, whatever the order of the webhooks; a
  handler that started ends;
* card: both records of a payment agree, both balances are what was funded less
  what was spent, a transfer is credited once, the issuance fee is taken once;
* stablecoin wallet: the balance follows its records, a deposit counts once, and
  what was sent stays debited;
* breaker: it opens only on recent failures and does not stay open for ever.

## Modules

    Locker  <---- extended by ---- FiatWallet ---- implements ----> Account
    Locker, FiatWallet ---- FiatWalletProofs
    NgnWithdrawal ---- implements ----> Payout
    NgnWithdrawal, CircuitBreaker ---- NgnWithdrawalProofs
    PagaDeposit ---- implements ----> Account;   PagaDeposit ---- PagaDepositProofs
    UsdNgnExchange ---- UsdNgnExchangeProofs
    NgnUsdExchange ---- NgnUsdExchangeProofs
    CardSpend ---- CardSpendProofs;   CardFunding ---- CardFundingProofs
    BlockchainWallet ---- implements ----> Account;   BlockchainWallet ---- BlockchainWalletProofs
    MC<module>.tla + *.cfg : instances for TLC

Operators whose comment begins with `Variant` are wrong versions of the
operation that follows them. No specification uses them; substituting one for
the real operation must break a property (`mutants` in `PROJECT.json`).

### Locker (`services/locker`)

One key. `holder` and `remaining` are the Redis value and its PTTL, `pc` is where
each call is. `SaveOk` and `SaveBusy` are one SET NX each, with the attempt count
of `acquire()`: `withLock` passes `retryCount`, `runWithLock` passes nothing and
retries without end. (A `withLock` call without `retryCount` behaves like
`runWithLock`; `acquireImmediately` is `RetryCount = 1`; the `timeout` option is
an earlier `SaveBusy` failure and no caller sets it.) `Release` is the Lua
compare-and-delete in the `finally` block, whose `LockNotOwnedError` replaces the
callback's result. `age`, `evicted` and `intruder` are observers: what a caller
with its own clock could know.

### FiatWallet, Account (`modules/fiatWallet/fiatWallet.service.ts`)

`FiatWallet` extends `Locker` and gives its callbacks a body: read the wallet,
check the transaction row and the funds, UPDATE, commit. A call in `OuterTrx`
was given the caller's database transaction: it releases the lock first and its
caller commits later (`CommitOuter`, as the Paga webhook does). PostgreSQL at
READ COMMITTED is a row lock plus a committed value. `Account` is the promise:
each step adds one amount atomically and does not overdraw. It holds until the
account loses `trust`, which is when a lease was lost under a callback or a
balance was committed after its lock was released (`Disturbed`).

### NgnWithdrawal (`fiatWalletWithdrawal.service.ts`, `ngn-withdrawal-status.processor.ts`, `transaction.service.ts`)

An agent is an HTTP request, a slot for a poll job, or an operator's request;
`pc[a]` names the call it awaits next, one action per await of the handler
(`session`, `ledger`, `reserve`, `escrow`, `pendingTx`, ... in the order of the
code), `mode` is the block the handler is in (`try`, a branch that reverts and
then rethrows or returns, `catch`). The failure path is shared by handler and
poller because they call the same `revertWithdrawalBalance`. Faults are
exceptions of any awaited call with or without its effect, the 10 s timeout of
`addJob` with the job added, and restarts, at most `MaxFaults` of them.

Abstractions, and why they are sound for the properties:

* the lock around the handler is left out: its 30 s lease can end while the
  handler awaits the provider, so it excludes no interleaving; what protects the
  key is the UNIQUE index on `idempotency_key`. A request that finds the lock
  taken is declined (`Decline`);
* `updateBalance` is one step, which `FiatWallet` justifies while leases last;
  its `LockNotOwnedError` after the commit is the fault `CommitsThenThrows`;
* limits, bank account checks, the ledger and the circuit breaker are
  nondeterministic decisions;
* the provider may receive a transfer or not, lose its answer, pay or reject at
  any later time, and never contradicts itself. An error recognised by
  `isPreApiValidationError` means it will not pay. This is an assumption about
  the provider, not a fact of the code;
* an operator fails a withdrawal in review only when the provider did not and
  will not pay: the code leaves that judgement to the operator;
* notifications and logging are left out, except that the in-app notification is
  awaited inside the `try` block and may throw (`notify`).

`tainted` collects the withdrawals for which the code gives up its guarantee:
an exception in the handler after the transfer was sent, or between a refund and
the deletion of its escrow in a branch that an outer catch block reverts again;
a poll job that was added although `addJob` timed out; two operators
deciding at once. The safety properties hold for all other withdrawals.

`Payout` says what a withdrawal promises without saying how: an amount is held once
and does not overdraw the balance, is sent only while it is held, and is then paid,
or goes back in full and once. `Phase` reads the phase of each withdrawal off
`debits`, `refunds` and `provider`; one that was debited twice, refunded more often than
debited, or refunded while the provider has it, is "broken", a phase no step of `Payout`
reaches without doubt. The tainted withdrawals are the doubted ones, of
which `Payout` promises only that they leave the others alone.

### PagaDeposit (`webhooks/paga`, `pagaLedgerAccount`, `pagaLedgerTransaction`, both `updateStatus`)

A delivery is one POST of Paga's persistent-account webhook for one user's main
account; `pc[d]` names the call it awaits next. Up to `createRow`/`findRow` every
statement commits on its own. Then a SUCCESS runs one database transaction
through the ledger row, the ledger account, the wallet, the fiat wallet
transaction and the transaction; a FAILED runs one through the last two in the
opposite order. An UPDATE takes its row's lock until the commit and waits for
another transaction's. A transaction's uncommitted values follow from what it
read and the locks it has, so `Commit` publishes them and they are not variables.

The Redis locks are guards that apply when `LeasesLast`: all of them are released
before the commit. The run and the proofs do without them (`LeasesLast = FALSE`
allows more interleavings).
Left out: the early answer for an unknown account (it changes nothing),
`balance_before`/`balance_after` columns, notifications.

### UsdNgnExchange (`fiat-exchange.service.ts`, `exchange.processor.ts`, `exchange-retry.service.ts`, webhooks of ZeroHash, YellowCard and Paga)

One exchange of dollars to naira. The request inserts the parent row and queues
the job inside one database transaction, so the job may run before the commit
(`request` is open, committed or rolled back; an UPDATE of an invisible row
changes nothing). The job orders a payout at YellowCard and a withdrawal at
ZeroHash; three webhooks and the retry service follow, each an agent with a `pc`.
Every call of the job may fail, also after its effect (`BaseRepository.update` is an
UPDATE and then a SELECT, so the last one can throw with its row written), the catch
block marks both rows FAILED whatever they are, and BullMQ runs the job again: after
a failure while attempts are left, and whenever the process dies under it
(`JobStalls`, which does not count as an attempt) until its completion is noted
(`JobEnds`). A stalled job whose first worker is still alive, so that it runs twice
at once, is not modelled. `reopened` records that an update of the job wrote over a
COMPLETED row.
`ptx`/`pfwt` are the parent's two statuses, `child` the naira rows, `current` the
payout whose sequence the parent refers to. The locks `withdrawal_<request>` (W)
and `exchange_webhook_<parent>` (X) are state, because handlers take them in
opposite orders: ZeroHash's takes X under W, the others W under X. `LeaseEnds`
lets W go while its holder waits for X; work under a lock is otherwise assumed to
fit its lease. `tainted` is a call that failed between the debit of the dollars
and the record of it, `crossed` a `reconcileUsdBalanceFromProvider` that wrote a
balance older than the debits (or a debit from a balance it overwrote).
Amounts are one unit, `credit_balance` and notifications are left out.

### NgnUsdExchange (`ng-to-usd-exchange.service.ts`, `execute-ng-usd-exchange.processor.ts`, webhooks of YellowCard and ZeroHash, `completeExchangeTransaction`)

One exchange of naira to dollars: every `executeExchange` queues a job with its
attempts; a job creates the rows, debits, notes the amount in escrow, lets Paga
pay YellowCard under the lock of the ledger account and asks for its status. Its
catch block and YellowCard's webhook fail and refund through the same
`updateSourceTransactionsToFailed`. The dollar side is a set of rows
(`transactions.reference` holds the hash, which is not unique): YellowCard's
settlement and ZeroHash's deposit each look for the other's row and then insert
or complete. The regular exchange in production is modelled
(`NgToUsdExchangeService`; `NewNgToUsdExchangeService` extends it and its own flow
is commented out at its call). `raced`: the status changed after a caller had read
it to fail the exchange; `lost`: a call failed between the debit and its escrow
note; `crossed`: two handlers had one dollar row, or the wallet, in hand at once.

### CardSpend (`rain-webhook.service.ts`, `card.service.ts`)

One card. Charging a decline's fee at Rain goes with the count of the decline
(`Decline`), and a charge whose database transaction is rolled back is repeated
with the next delivery. Rain sends authorized, declined, raised, reversed and completed events
of each payment; a delivery takes any event sent so far, so events are repeated,
late, reordered or never seen. A handler looks up the rows, takes the lock of the
*transaction*, reads the balances and commits absolute values, one action per
await; `rowOwner` is PostgreSQL's lock of the card's row. `card` is the status,
the frozen flag and the count of declines, written by the user's freeze, unfreeze
and cancellation, the support desk's block, Rain's card events and the block after
`MaxDeclines` declines. Rain reports each of its five statuses after a request or by
itself (`RainChanges`), and any event may come late and again. Only `locked` and
`active` touch the frozen flag. A request writes status and flag; an event writes
only the columns in which it differs from the card it has read (`WriteEvent`), and
`mixed` records that it did so in part over a card changed since. `upset` records a commit that rested on a stale read or a
raised authorization that was debited in full again.

### CardFunding (`card.service.ts`, `card-fund.processor.ts`, `rain-webhook.service.ts`)

`FundCard` is the request, `RunJob`/`JobFails` the queued transfer with its
attempts (with an idempotency key on the blockchain rail only), `Deliver` Rain's
collateral webhook, which names no funding and takes the latest PENDING deposit,
`TakeIssuanceFee` the fee after the first funding with its own lock and retries,
`PostFundingFails` an exception of a call in `handlePostFundingActions`. Amounts
are net of the top-up fee. `FundCard` makes the PENDING row and its job in one step; a
queueing that fails and declines the row is the same as a job that throws at once.
`ChargeFee` is the charge at Rain and the debit in one step: `feesTaken` counts
debits, and a charge whose database transaction is rolled back is repeated at Rain.

### BlockchainWallet (`blockchainWallet.service.ts`, `webhooks/fireblocks`)

One wallet of one stablecoin. A request (`initiateTransaction` or
`convertToCurrency`, which differ in the address only) refuses while a row of the
wallet is PENDING, debits, sends through Fireblocks, stores the
`provider_reference`, and takes the debit back on any exception. A handler is one
delivery of Fireblocks's webhook; it may report anything that is true of a
transfer or deposit, late and again. `debitWallet`, `revertWalletDebit` and
`fundWallet` are a read and a commit each, under the keys `:debit`,
`:revert-debit` and `:fund`; `lock` has one holder per key. The database
transaction is one step, because nothing inside it reads the balance and its
UPDATE writes an absolute one. `crossed` records that sections under different
keys overlapped, that two handlers had found no row for one deposit, or that a
lease ended under its holder; `lost` the transfers whose exception came after
Fireblocks had taken them. The transaction that mirrors a debit or deposit in
`transactions` is written in the same commit and left out.

### CircuitBreaker (`circuitBreaker.service.ts`)

The Redis keys one provider's breaker shares and the awaited calls of
`canProceed`, `recordAttempt` and `checkAndUpdateState`. Times are ages, so a
behaviour may go on for ever; ages stop growing once a key has expired or an
attempt has left the window. Writes to keys that nobody reads (raw instead of
prefixed) are left out: that is why the limit of test attempts never blocks. So is
`recordAttempt`'s ZREMRANGEBYSCORE, as only attempts in the window are counted, and so
are `forceOpen` and `forceClose`, which have no caller.

## Runs

| Run | Checks | Shows |
|---|---|---|
| `locker` | `MutexWithinLease`, `ReportedMeansNoIntruder`, `NoSpuriousLoss`, `OnlyOwnerReleases`, `EveryCallEnds` | what the lock gives with leases, crashes, forced releases |
| `wallet` | `NoLostUpdate`, `ReportMatchesEffect`, `AccountSpec` | balance updates refine the atomic account until trust is lost |
| `withdrawal` | `RefundedIsNotPaid`, `OneTransferPerKey`, `SettledAtRest`, `TerminalIsFinal`, `PayoutSpec` | the withdrawal with repeats, lost answers, late payment, one fault anywhere; it implements the payout |
| `withdrawal_settles` | `EventuallySettled` | every PENDING withdrawal ends when no call fails |
| `deposit` | `CreditedOnce`, `AcknowledgedIsCredited`, `CompletedIffCredited`, `OnlyContradictionsDeadlock`, `DepositsAreAtomic` | concurrent and contradictory notifications, any call failing, no reliance on Redis |
| `exchange` | `UsdDebitedOnce`, `UsdBooks`, `CreditedOncePerPayout` | dollars to naira with a retry, repeated Paga reports, a job that runs twice and one failing call or crash anywhere |
| `exchange_settles` | `CompletedStays`, `EveryDeliveryEnds` | only the job takes a completed exchange back; no handler waits for ever for the other's lock |
| `ngnusd` | `NgnSentOnce`, `NgnRefundedOnce`, `NgnAccounted`, `UsdFollowsRows` | naira to dollars executed twice, both webhooks repeated, one failing call anywhere |
| `card_spend` | `RowsAgree`, `Books`, `OnlyFeesOverdraw`, `FreezeFollowsStatus` | payments, declines and blocks of one card with events in any order; its status and frozen flag under the user, the support desk, the block and Rain's events |
| `card_funding` | `CreditedOnce`, `FundingBooks`, `IssuanceFeeSettled` | two fundings with retried transfers and repeated collateral events |
| `blockchain` | `WalletBooks`, `SentWasTaken`, `AccountSpec` | transfers out of a stablecoin wallet beside repeated deposits, one fault anywhere; its updates are atomic until keys cross |
| `breaker` | `OpensOnFailures`, `Recovers` | concurrent withdrawals over keys that expire |

No run lists a type invariant: they are proved. `NeverOverdrawn` and `RefundedOnce` are
not listed either: what they say of the committed balance and of the refunds follows from
`AccountSpec` and `PayoutSpec`, and both are theorems.

Bounds. `locker`: three callers are two that compete and one that arrives after
a lease was lost; a lease of 2 ticks can be half over; `RetryCount` 2 has a first
and a last attempt. `wallet`: a withdrawal that the balance covers only after a
deposit, and two deposits for one transaction row, one of them inside its
caller's transaction. `withdrawal`: two requests repeat a key and a third has its own,
the balance covers either withdrawal and not both, `MaxAttempts` 2 has an
ordinary and a last poll, one fault reaches every delicate point (each is one
exception) and a second job slot lets a duplicated job exist; two operators can
decide at once. Requests with one key, their jobs and the operators are
symmetric. `withdrawal_settles` uses one request per key, one operator, no faults
and no symmetry.
`deposit`: two SUCCESS deliveries (symmetric) and a FAILED one of a
payment, a SUCCESS and a PENDING one of another; failures are not bounded, and
each message meets every other at every await. The inductive invariants of the
proofs were checked by TLC on these instances and larger ones (two faults in the
withdrawal, two FAILED deliveries of one deposit) before they were proved.

`exchange`: one ZeroHash delivery, two of Paga, a retry (which counts as the
upset) or one failing call or stalled job, a job that is attempted twice, room for two
naira rows; 4.2 million states; `exchange_settles`:
deliveries of ZeroHash and YellowCard, which take the two locks in opposite
orders (Paga's handler takes them in YellowCard's order and through the same
steps), a retry and a job with one attempt that may stall, without symmetry because
liveness is checked. `ngnusd`:
two executions, each with a retry, two YellowCard deliveries, a ZeroHash delivery
that comes again, two dollar rows (the second is the duplicate), one fault and a
balance that covers both debits; 2.7 million states. `card_spend`: a payment and a
declined one, two actors, a raised authorization, a decline that blocks at once; the
funds cover two authorizations and not a third debit. Two disturbances in all
(`MaxDisturbances`): requests of the user or of the support desk, changes Rain makes of
itself and locks that outlive their lease. They are enough for an event's read and its
write to have another writer between them: without `~mixed`, `FreezeFollowsStatus` is
violated at this bound. What Rain does unasked is to cancel or inactivate
(`Unasked`); `locked` and `active` come with requests, and `notActivated` takes the
same branches as `inactive`, to another status that is neither ACTIVE nor BLOCKED; 3.9
million states. `card_funding`: two fundings of equal or different amounts, one on
each rail, two collateral ids (the second is the other funding's or a duplicate
transfer), two deliveries at a time, jobs with a retry, one fault; 4.9 million
states. `blockchain`: two transfers of which a deposit must cover the second, two
deposits, two handlers that each take any number of deliveries, so that a report
meets its own repetition, and one fault; 3.3 million states. `breaker`: two withdrawals at a time, for ever; the durations keep the
order open < life of `openedAt` < life of the state, and two attempts are the
minimum, so that one call's count can miss the other's attempt.

The runs of requests may deadlock: requests are a finite set and end. `card_spend`,
`blockchain` and `breaker` may not: a card's status can always change, an event
can always come again, time always passes.

Fairness. `LockerFairSpec`: Redis executes a command it received, a retry timer
fires, callbacks settle because HTTP, Redis and database clients have timeouts,
time passes. Nothing forces a call, an `extend`, a forced release or a crash.
Every step has weak fairness only: a `runWithLock` that is overtaken forever
would need infinitely many other calls. `FairSpec` of `NgnWithdrawal`: awaited
calls of a handler return and a registered worker takes queued jobs; provider,
operators, restarts and faults are not fair. `FairSpec` of `UsdNgnExchange`: a
delivery that started takes its next step, and a lease of W that its holder waits
under ends, for Redis drops the key after 30 s. Waiting for a lock is a step with weak fairness: `acquire` polls,
and deliveries are finitely many. `FairBreakerSpec` of `CircuitBreaker`: time passes and
awaited calls return; no new withdrawal is forced, so `Recovers` does not rest on
traffic.

## Proofs

TLAPS proves, for every value of the constants allowed by the `ASSUME`s (one per
module: typing, disjoint sets of agents, a placeholder that is nobody, positive
amounts, fees, leases and numbers of attempts):

* `FiatWalletProofs`, the lock: typing, `MutexWithinLease`, `ReportedMeansNoIntruder`,
  `NoSpuriousLoss`, `OnlyOwnerReleases`. None is inductive alone. `LeaseInv` adds
  that a callback which has not lost its lease is the holder and that its own
  clock agrees with Redis (`remaining = Ttl - age`), `IntruderInv` that a caller
  who was joined is no longer the holder.
* `FiatWalletProofs`, the wallet: every behaviour of the wallet is a behaviour of the lock
  (`WalletImplementsLocker`), so the lock's theorems are reused; typing,
  `NoLostUpdate`, `NeverOverdrawn`, `ReportMatchesEffect` and the refinement of
  `Account`. The invariant says who owns the row lock and what was written, that
  everything read and checked is non-negative, and that an undisturbed callback
  still sees the committed balance it read.
* `NgnWithdrawalProofs`: typing, `OneTransferPerKey`, `RefundedIsNotPaid`,
  `RefundedOnce`, `TerminalIsFinal`. The invariant is about ownership: at any time at most one
  of handler, poll job and operators can still move the money of an untainted
  withdrawal, and each place in the code determines the status, the counters and
  what the provider may do (`BeforeInv`, `AfterInv`, `FailInv`, `JobInv`,
  `OperatorInv`, `StatusInv`; `OneHandlerInv` is the unique index).
  `SettledAtRest` needs more than exclusion: `SettleInv` says that a status that is
  not the last word has somebody who will change it (`Owned`: a handler in its
  block, a queued or running poll, an operator), and what each of them relies on at
  its place (`Relies`: how many debits and refunds there were, whether the escrow
  is still there, what the provider may have done). `Open` collects the agents that
  still work on a key; when it is empty nobody owns the status, so it is final and
  the books of the key balance (`Balanced`).
  The refinement of `Payout` (`WithdrawalRefinesPayout`) needs the amounts as well:
  `AmountInv` says that the escrow, and what was read of it before a refund, is the
  withdrawal's own amount, that the provider knows nothing that was not reserved and
  that the wallet is not overdrawn. Every step then maps to a hold (`DebitHolds`), a
  sending, a settlement, a return (`RefundReturns`), a step that leaves its
  withdrawal tainted (`StrayStep`), or a stutter.
* `NgnWithdrawalProofs`, the breaker: typing (which needs `OpenedInv`: the time in
  `openedAt` is older than its key by at most a call's delay) and
  `OpensOnFailures`. The counts are read at different times and the decision is
  written later still, so the invariant is about evidence (`EvidenceInv`): the
  failures a withdrawal has counted are at most those in its window now. Other
  withdrawals only add to the set (`WindowGrows`); a tick maps the window one to one
  into the next (`WindowAges`), because a failure is kept until no withdrawal whose
  reading of the clock is at most `MaxDelay` old can still want to count it.
* `PagaDepositProofs`: typing, `CreditedOnce`, `AcknowledgedIsCredited`,
  `CompletedIffCredited` and the refinement of `Account`. The invariant says which
  row locks go with which place (`LockInv`). As the ledger account's row is locked
  from its UPDATE to the commit, at most one delivery is past that point, so what
  it reads of the wallet stays true (`WalletInv`) and the COMPLETED check it passed
  still holds at its commit (`OnceInv`). This row lock, and not the Redis locks or
  the lookup of the reference, is what makes a repeated delivery harmless.
  `OnlyContradictionsWait` is the absence of deadlock without ENABLED: `Waits(d)`
  says that the row or Redis lock a delivery asks for is held. SUCCESS deliveries
  take their rows in one order, so the one that got furthest waits for nobody
  unless a FAILED one holds its next row (`WaitsFor`).
* `UsdNgnExchangeProofs`: typing, `UsdDebitedOnce`, `UsdBooks`,
  `CreditedOncePerPayout`, `CompletedStays`. Whoever is between taking and releasing
  W or X is its holder, up to the one lease of W that may end (`LockInv`); nothing is
  debited before the parent is linked to a withdrawal (`LinkInv`, which stays true
  when the job runs again); untainted and not reopened, one
  debit exists exactly when the parent's wallet transaction is COMPLETED or the
  holder of W is about to write it (`ParentInv`, `DebitInv`); an uncrossed balance
  is the one its reader expects (`BooksInv`); a credit at its commit finds its payout
  uncredited (`CreditInv`).
* `NgnUsdExchangeProofs`: typing, `NgnSentOnce`, `NgnRefundedOnce`, `NgnAccounted`,
  `UsdFollowsRows`. What makes the transfer unique is the ledger's check of the
  reference under the ledger account's lock (`LedgerInv`); every transfer follows a
  debit (`DebitInv`), an unraced exchange is failed by one caller (`RefundInv`), the
  escrow is set, refunded or released (`EscrowInv`), and a dollar row in one
  handler's hands is completed with its credit (`UsdInv`, which counts `Completed`).
* `CardSpendProofs`: typing, `RowsAgree`, `Books`, `OnlyFeesOverdraw`,
  `FreezeFollowsStatus`.
  The locks exclude little here (they are per payment), so the argument is about
  what a handler remembers (`MemoryInv`): `StepGood` shows that every step leaves its
  actor with a memory that is sound for its place, `RecordsInv` that both records
  are written together, `FloorInv` that neither a balance nor a remembered balance is
  below the fees charged so far (fees only grow, so an old reading stays sound),
  `FrozenInv` that each writer has decided on a status and a flag that fit (`Together`); an
  event that is not `mixed` leaves the card as it decided, even when it writes one column.
  `Books` is a sum over all rows that stand: a commit changes one row, so the sum
  moves by what that row becomes worth (`SpentMoves`), and a commit that read fresh
  balances and a fresh row moves them by the same (`CommitKeepsBooks`). That the rows
  are finitely many is part of the invariant (`BooksInv`), not an assumption.
  None of these rests on the lock of the transaction.
* `BlockchainWalletProofs`: typing, `WalletBooks`, `SentWasTaken`. The holder of a key
  is at a place inside its section (`PlaceInv`), a row's status goes with the place of
  its request (`RowInv`), uncrossed sections are alone (`AloneInv`) and so have read
  the present balance (`BooksInv`, with the finiteness of `Debited` and `Credited`,
  without which their cardinalities mean nothing). The same facts make each commit
  one update of `Account` (`AccountImplemented`); that even crossed updates never
  overdraw is `FundsInv`: a debit goes on only with a reading that covers it.
* `CardFundingProofs`: typing, `CreditedOnce`, `FundingBooks`, `IssuanceFeeSettled`.
  The books are a sum over the set of credited collaterals, so the module (and
  `CardSpendProofs` with the same lemmas) first proves what such sums are: the fold's recursion has a solution on every finite set, it is
  unique, and any member can be split off (`SumExists`, `SumUnique`, `SumRemove`;
  then `TotalAdd`). These are inductions over the size of a set, done as a search for
  a least counterexample (`Least`). `PlaceInv` says what a delivery remembers at each
  place, `OnceInv` that a credit and its row come together, `FeeInv` that without
  faults whoever charges the fee holds its lock and finds it untaken. `FirstInv` is
  the heart of `IssuanceFeeSettled`: after the first credit there is always a delivery
  that will take the fee, and it finds no earlier deposit (`FeeGoesOn` follows it
  through every step of the others).

Two attempts failed for a good reason and corrected what was stated.
`SettledAtRest` used to cover every key: two operators whose decisions overlap both
refund, without any fault, so it now leaves out `tainted` keys and the run has
two operators. `OnlyContradictionsDeadlock` used to allow only circles of row
locks: while leases last, two FAILED deliveries and a SUCCESS of one reference wait
in a circle that goes through a Redis lock.

Only model-checked: liveness (`EveryCallEnds`, `EventuallySettled`,
`EveryDeliveryEnds`, `Recovers`) and `OnlyContradictionsDeadlock`, which uses
ENABLED (the installed provers handle neither; its form in terms of waiting is
proved). Every other property of the runs is also a theorem.

## What the model shows of the code

Where a guarantee ends, the modules name the cause in an observer (`tainted`,
`crossed`, `lost`, `raced`, `upset`) and the properties hold outside it. Some of
these causes contradict what a comment of the code says of itself:

* any exception after the transfer reaches the withdrawal's outer catch block
  (`fiatWalletWithdrawal.service.ts:1509`), which refunds, although `:1308` and
  `:1316` reserve that for errors that did not reach the provider (`tainted`);

* `updateBalance` inside its caller's transaction releases the lock before the
  commit, so a second update can overwrite the first with no lease lost
  (`fiatWallet.service.ts:229`); `wallet` counts this as lost trust;
* two requests with different keys pass the withdrawal session's check together
  (`fiatWalletWithdrawal.service.ts:1176`);
* two Paga deposits can overwrite each other's credit of the *ledger* account
  (`pagaLedgerAccount.service.ts:219`), while the wallet loses nothing;
* a FAILED notice between two concurrent SUCCESS deliveries lets one reference be
  entered twice in the ledger (`pagaLedgerTransaction.service.ts:36`).

Withdrawal and deposit, states the model reaches with one fault:

* a crash between the reservation and `moveMoneyToEscrow` leaves money debited
  with no escrow, and every later revert skips it;
* a crash of the poller between FAILED and the refund: the job is redelivered,
  sees FAILED and skips, so the refund does not happen;
* after a restart, queued polls wait until another withdrawal registers the
  processor in this process;
* an error in the last poll attempt drops the job and leaves the transaction
  PENDING, where an undecided answer would put it in review;
* a request that dies leaves its session behind. `startSession` adds to the raw
  key and sets the expiry on the prefixed one, so the set does not expire and the
  user's next withdrawal is blocked;
* a webhook delivery that dies between its two inserts leaves a transaction
  without a fiat wallet transaction. Every later SUCCESS delivery finds the first
  and fails for want of the second: the deposit is not credited;
* a FAILED notice handled beside a SUCCESS of the same reference can deadlock with
  it in PostgreSQL, or leave a credited deposit marked FAILED. With a second FAILED
  the circle can go through a Redis lock, which PostgreSQL's detection does not
  see: it lasts until the last attempt to take that lock;
* two operators who fail one withdrawal in review at once both read the escrow and
  refund it (`tainted`).

Exchange of dollars to naira:

* the lock order of ZeroHash's handler is the opposite of the others'; they wait
  for each other until the 30 s lease of W runs out;
* the job's updates are not guarded: when its last one throws after its effect, or when
  the job is run again after a crash, it writes FAILED or PROCESSING over an exchange
  that a webhook has completed meanwhile (`exchange.processor.ts:294-312`, `:330-337`).
  The next check finds the row not COMPLETED and debits the dollars again, although
  `zerohash-webhook.service.ts:248` re-checks the status "inside lock to prevent double
  completion" (`reopened`; without that exception TLC finds the second debit);
* the job is queued before its rows are committed; a rollback leaves a job whose
  updates change nothing while it orders at the providers;
* an error between the debit and its record is swallowed, and the next event
  debits again (`tainted`); a withdrawal that is only approved counts as confirmed,
  and a reconciliation then writes the undebited balance back (`crossed`);
* the retry takes no lock: two naira rows may exist for one parent, and
  RECONCILE may be written over a COMPLETED child;
* `handlePaymentFailed` cannot reach its branch that creates a failed row, because
  the lookup before it throws; `checkPendingExchangeTransaction` looks for PENDING
  rows while exchange rows are INITIATED or PROCESSING.

Exchange of naira to dollars:

* the balance check adds an undefined fee and compares with NaN, so it never fails;
  `executeExchange`'s own catch passes a reference for an id and fails nothing;
* a retry after FAILED debits again, the ledger then refuses the reference and the
  catch block returns: debited without refund. Two executions both debit and note
  one absolute amount in escrow;
* a call failing after the transfer fails and refunds a paid exchange; two callers
  of `updateSourceTransactionsToFailed` refund twice (`raced`); a completed
  collection releases the escrow of a FAILED exchange;
* settlement and deposit can each insert a row, one of which is never credited; two
  settlements of one placeholder credit twice (`crossed`).

Cards:

* locks are per payment, so two payments' reads and writes of one card overlap; the
  rows are looked up before the lock, so a completed event may add a second row;
* a raised authorization debits its full amount again; what Rain was asked to do
  inside a database transaction is not undone by its rollback;
* Rain's own `locked` event after a block may write INACTIVE over BLOCKED, and the
  user can then unfreeze the card;
* `notActivated`, `canceled` and `inactive` events leave `is_freezed` as it was, so a card
  that Rain has cancelled can be frozen by its user, which writes INACTIVE over
  CANCELED, and a late `active` event takes any cancellation back;
* an event writes only the columns it found different, so one that crosses with a
  request can leave an ACTIVE card frozen (`mixed`);
* a collateral event whose amount differs from the latest pending deposit throws
  and is lost; a job's catch block writes DECLINED whatever the row says; a retry
  of the fiat rail has no idempotency key and may send twice;
* two first fundings that cross, or a failing call in `handlePostFundingActions`,
  leave the issuance fee untaken.

Stablecoin wallets:

* a deposit, a debit and a revert hold different keys, so a deposit credited during
  a debit is overwritten, or overwrites it (`crossed`);
* `handleTransactionCompleted` tests `transaction` before it looks it up (`:1643`,
  `:1650`), so it returns for every transfer out, and `handleTransactionFailed` only
  logs: a debit stays PENDING, the wallet refuses further transfers, the recipient
  of an internal transfer is not credited and a failed one is not refunded. The
  comment above it says that it updates the status;
* a `LockNotOwnedError` or a Redis error at the release after the debit leaves a
  debit without a transfer that nobody reverts;
* a failing UPDATE of `provider_reference` takes the debit back although the
  transfer is on its way (`lost`), and a late BROADCASTING then sets the reverted
  debit PENDING again.

Circuit breaker: `setState` and `setOpenedAt` are two calls; a `canProceed` between
them sees the former `openedAt` and may leave OPEN at once. Half-open attempts are
counted under the raw key and read under the prefixed one, so their limit never
blocks.

## Plan

The modules above are model-checked, and every safety property of the runs that can
be stated without ENABLED is proved. What would extend the project is listed below,
the money flows first: balances moved when a card is reissued, gas funding, and
ZeroHash's trades.

## Not modelled

* Stablecoin wallets: gas funding and refills, the master vault, creation of
  accounts and wallets, fee estimates.
* Cards: reissue with the transfer of the balance, funding from naira,
  disputes, the authorization request (it only answers), limits.
* ZeroHash: trades, payments, transfers, participants. YellowCard: its own
  settlements and top-ups, the sandbox branches.
* Login security, refresh tokens, tiers and limits, Dosh points, platform status,
  KYC: apart from the money flows, which only read their results.
* Rates: decimal arithmetic on provider data.
* Plaid, S3, mail, push, SMS, views, seeds and migrations (transport and schema
  without a protocol of their own), CRUD modules.
