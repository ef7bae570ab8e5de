------------------------------ MODULE CardFunding ------------------------------
(***************************************************************************)
(* Funding of one Rain card: the request, the queued transfer to the       *)
(* user's deposit address with its retries, Rain's collateral webhook that *)
(* credits the card, and the issuance fee taken after the first funding.   *)
(*                                                                         *)
(* The webhook names no funding: it takes the latest PENDING deposit of    *)
(* the user, and throws when the amounts differ.  The fee for topping up   *)
(* is sent along with the amount and grows with it, so amounts are net.    *)
(* Its charge at Rain changes no balance and is not modelled.              *)
(***************************************************************************)
EXTENDS Integers, FiniteSets, Sequences, FiniteSetsExt

CONSTANTS
    Fundings,          \* requests to fund the card
    OnChain,           \* the ones on the blockchain rail; the others are fiat
    Collaterals,       \* Rain's ids of the transfers it receives (a bound)
    Actors,            \* webhook deliveries under way
    Amounts,           \* amounts a user asks for
    IssuanceFee,       \* virtual card issuance fee (100)
    MaxAttempts,       \* attempts of the queued job (3)
    MaxRetries,        \* attempts to charge the issuance fee (3)
    MaxFaults,         \* bound on the locks that outlive their lease and on
                       \* the calls after a credit that fail
    None

ASSUME CardFundingAssumption ==
    /\ Amounts \subseteq Nat \ {0} /\ OnChain \subseteq Fundings
    /\ IssuanceFee \in Nat \ {0} /\ MaxAttempts \in Nat \ {0} /\ MaxRetries \in Nat \ {0}
    /\ MaxFaults \in Nat
    /\ None \notin Actors \cup Fundings \cup Collaterals

VARIABLES
    row,           \* card_transactions: the deposit of each funding
    order,         \* fundings by created_at
    job,           \* the queued transfer of each funding
    received,      \* amount of each transfer Rain has received; 0 when none
    owner,         \* the funding that Rain's transfer was sent for
    main,          \* transactions with a collateral's id as unique reference
    balance,       \* cards.balance
    userBalance,   \* card_users.balance
    feeStatus,     \* cards.issuance_fee_status
    lock,          \* card-balance:..:tx:c:.. for each collateral
    feeLock,       \* issuance-fee:card:..
    at,            \* where each delivery is, and what it has read
    faults,        \* overlong locks and failing calls still to come
    credits,       \* times each collateral was credited (history)
    feesTaken,     \* times the issuance fee was debited (history)
    raced          \* a commit rested on a stale balance (history)

requests == <<row, order, job, received, owner>>
money == <<main, balance, userBalance, feeStatus>>
locks == <<lock, feeLock, faults>>
history == <<credits, feesTaken, raced>>
vars == <<requests, money, locks, at, history>>

Points == {"idle", "lookup", "lock", "readUser", "readCard", "credit", "checkFee",
           "previous", "feeLock", "feeCard", "feeUser", "fee", "feeFailed"}

Idle == [pc |-> "idle", id |-> None, for |-> None, balance |-> 0, userBalance |-> 0, left |-> 0]

Row == [status : {"none", "PENDING", "SUCCESSFUL", "DECLINED"}, amount : Amounts \cup {0}]
JobState == [pc : {"none", "ready", "threw", "done"}, left : 0..MaxAttempts]
Memory == [pc : Points, id : Collaterals \cup {None}, for : Fundings \cup {None},
           balance : Int, userBalance : Int, left : 0..MaxRetries]

(* The rows, the jobs and what each delivery remembers.                    *)
TypeOK ==
    /\ row \in [Fundings -> Row]
    /\ order \in Seq(Fundings)
    /\ job \in [Fundings -> JobState]
    /\ received \in [Collaterals -> Amounts \cup {0}]
    /\ owner \in [Collaterals -> Fundings \cup {None}]
    /\ main \subseteq Collaterals
    /\ balance \in Int /\ userBalance \in Int
    /\ feeStatus \in {"PENDING", "COMPLETED", "FAILED"}
    /\ lock \in [Collaterals -> Actors \cup {None}]
    /\ feeLock \in Actors \cup {None}
    /\ faults \in 0..MaxFaults
    /\ at \in [Actors -> Memory]
    /\ credits \in [Collaterals -> Nat] /\ feesTaken \in Nat /\ raced \in BOOLEAN

Init ==
    /\ row = [f \in Fundings |-> [status |-> "none", amount |-> 0]]
    /\ order = <<>>
    /\ job = [f \in Fundings |-> [pc |-> "none", left |-> 0]]
    /\ received = [c \in Collaterals |-> 0]
    /\ owner = [c \in Collaterals |-> None]
    /\ main = {}
    /\ balance = 0 /\ userBalance = 0 /\ feeStatus = "PENDING"
    /\ lock = [c \in Collaterals |-> None] /\ feeLock = None /\ faults = MaxFaults
    /\ at = [a \in Actors |-> Idle]
    /\ credits = [c \in Collaterals |-> 0] /\ feesTaken = 0 /\ raced = FALSE

-----------------------------------------------------------------------------
(* fundCard: the PENDING deposit, then the job; when it cannot be queued   *)
(* the deposit is declined.                                                *)
FundCard(f) ==
    /\ row[f].status = "none"
    /\ \E n \in Amounts : row' = [row EXCEPT ![f] = [status |-> "PENDING", amount |-> n]]
    /\ order' = Append(order, f)
    /\ job' \in {[job EXCEPT ![f] = [pc |-> "ready", left |-> MaxAttempts]],
                 [job EXCEPT ![f] = [pc |-> "threw", left |-> 1]]}
    /\ UNCHANGED <<received, owner, money, locks, at, history>>

(* The transfer reaches Rain.  A blockchain transfer has the idempotency   *)
(* key of its funding; a fiat transfer has none.                           *)
Transfer(f) ==
    \/ /\ f \in OnChain /\ \E c \in Collaterals : owner[c] = f
       /\ UNCHANGED <<received, owner>>
    \/ /\ f \in OnChain => \A c \in Collaterals : owner[c] # f
       /\ \E c \in Collaterals :
             /\ owner[c] = None
             /\ received' = [received EXCEPT ![c] = row[f].amount]
             /\ owner' = [owner EXCEPT ![c] = f]

(* processCardFunding: it throws before the transfer or after it.          *)
RunJob(f) ==
    /\ job[f].pc = "ready"
    /\ \/ Transfer(f) /\ job' \in {[job EXCEPT ![f].pc = "done"], [job EXCEPT ![f].pc = "threw"]}
       \/ job' = [job EXCEPT ![f].pc = "threw"] /\ UNCHANGED <<received, owner>>
    /\ UNCHANGED <<row, order, money, locks, at, history>>

(* The catch block, whatever the deposit has become; then a retry.         *)
JobFails(f) ==
    /\ job[f].pc = "threw"
    /\ row' = [row EXCEPT ![f].status = "DECLINED"]
    /\ job' = [job EXCEPT ![f] = [pc |-> IF job[f].left > 1 THEN "ready" ELSE "done",
                                  left |-> job[f].left - 1]]
    /\ UNCHANGED <<order, received, owner, money, locks, at, history>>

-----------------------------------------------------------------------------
Goto(a, p) == at' = [at EXCEPT ![a].pc = p]
Leaves(a) == at' = [at EXCEPT ![a] = Idle]

(* handleCollateralTransaction: a reference that is there was processed.   *)
Receive(a, c) ==
    /\ at[a].pc = "idle"
    /\ received[c] # 0 /\ c \notin main
    /\ at' = [at EXCEPT ![a] = [Idle EXCEPT !.pc = "lookup", !.id = c]]
    /\ UNCHANGED <<requests, money, locks, history>>

(* lookupCollateralTransactionEntities: the latest PENDING deposit.        *)
Pending == {i \in DOMAIN order : row[order[i]].status = "PENDING"}

Lookup(a) ==
    /\ at[a].pc = "lookup"
    /\ at' = [at EXCEPT ![a] = IF Pending = {} THEN Idle
                ELSE [at[a] EXCEPT !.pc = "lock", !.for = order[Max(Pending)]]]
    /\ UNCHANGED <<requests, money, locks, history>>

TakeLock(a) ==
    /\ at[a].pc = "lock" /\ lock[at[a].id] = None
    /\ lock' = [lock EXCEPT ![at[a].id] = a]
    /\ Goto(a, "readUser")
    /\ UNCHANGED <<requests, money, feeLock, faults, history>>

ReadUser(a) ==
    /\ at[a].pc = "readUser"
    /\ at' = [at EXCEPT ![a].pc = "readCard", ![a].userBalance = userBalance]
    /\ UNCHANGED <<requests, money, locks, history>>

ReadCard(a) ==
    /\ at[a].pc = "readCard"
    /\ at' = [at EXCEPT ![a].pc = "credit", ![a].balance = balance]
    /\ UNCHANGED <<requests, money, locks, history>>

Unlocks(a) == lock' = [c \in Collaterals |-> IF lock[c] = a THEN None ELSE lock[c]]

Stale(a) == at[a].balance # balance \/ at[a].userBalance # userBalance

(* Variant: the card user's balance is forgotten.                          *)
MovesVariant(a, n) ==
    /\ balance' = at[a].balance + n
    /\ UNCHANGED userBalance

Moves(a, n) ==
    /\ balance' = at[a].balance + n
    /\ userBalance' = at[a].userBalance + n

(* Variant: a main transaction that is there is taken for one's own.       *)
IsNewVariant(c) == TRUE

(* The unique reference of transactions                                    *)
IsNew(c) == c \notin main

(* updateBalancesWithinTransaction, committed: the deposit it has found is *)
(* SUCCESSFUL whatever it has become meanwhile.                            *)
Credit(a) ==
    LET c == at[a].id IN
    /\ at[a].pc = "credit"
    /\ received[c] = row[at[a].for].amount /\ IsNew(c)
    /\ main' = main \cup {c}
    /\ Moves(a, received[c])
    /\ row' = [row EXCEPT ![at[a].for].status = "SUCCESSFUL"]
    /\ credits' = [credits EXCEPT ![c] = @ + 1]
    /\ raced' = (raced \/ Stale(a))
    /\ Unlocks(a)
    /\ at' = [at EXCEPT ![a] = [Idle EXCEPT !.pc = "checkFee", !.for = at[a].for]]
    /\ UNCHANGED <<order, job, received, owner, feeStatus, feeLock, faults, feesTaken>>

(* No lock, another amount, a second row for the reference, or an error:   *)
(* swallowed, and Rain is told that the event was processed.               *)
Drop(a) ==
    /\ \/ at[a].pc = "lock" /\ lock[at[a].id] # None
       \/ at[a].pc = "credit"
    /\ Leaves(a)
    /\ Unlocks(a)
    /\ UNCHANGED <<requests, money, feeLock, faults, history>>

-----------------------------------------------------------------------------
(* checkAndChargeIssuanceFeeOnFirstFunding                                 *)
CheckFee(a) ==
    /\ at[a].pc = "checkFee"
    /\ IF feeStatus = "PENDING" THEN Goto(a, "previous") ELSE Leaves(a)
    /\ UNCHANGED <<requests, money, locks, history>>

(* Variant: the deposit just credited counts as an earlier one.            *)
PreviousDepositsVariant(f) == {g \in Fundings : row[g].status = "SUCCESSFUL"}

(* findPreviousSuccessfulDeposits                                          *)
PreviousDeposits(f) == {g \in Fundings : g # f /\ row[g].status = "SUCCESSFUL"}

CheckPrevious(a) ==
    /\ at[a].pc = "previous"
    /\ at' = [at EXCEPT ![a] = IF PreviousDeposits(at[a].for) = {}
                THEN [Idle EXCEPT !.pc = "feeLock", !.left = MaxRetries] ELSE Idle]
    /\ UNCHANGED <<requests, money, locks, history>>

TakeFeeLock(a) ==
    /\ at[a].pc = "feeLock" /\ feeLock = None
    /\ feeLock' = a
    /\ Goto(a, "feeCard")
    /\ UNCHANGED <<requests, money, lock, faults, history>>

FeeUnlocks(a) == feeLock' = IF feeLock = a THEN None ELSE feeLock

StillDue == feeStatus = "PENDING"

(* "Re-check status within lock to prevent duplicate charges"              *)
FeeReadCard(a) ==
    /\ at[a].pc = "feeCard"
    /\ \/ /\ StillDue
          /\ at' = [at EXCEPT ![a].pc = "feeUser", ![a].balance = balance]
          /\ UNCHANGED feeLock
       \/ /\ ~StillDue
          /\ Leaves(a)
          /\ FeeUnlocks(a)
    /\ UNCHANGED <<requests, money, lock, faults, history>>

FeeReadUser(a) ==
    /\ at[a].pc = "feeUser"
    /\ at' = [at EXCEPT ![a].pc = "fee", ![a].userBalance = userBalance]
    /\ UNCHANGED <<requests, money, locks, history>>

(* Rain has charged the fee; the debit and the status are committed.       *)
ChargeFee(a) ==
    /\ at[a].pc = "fee"
    /\ Moves(a, -IssuanceFee)
    /\ feeStatus' = "COMPLETED"
    /\ feesTaken' = feesTaken + 1
    /\ raced' = (raced \/ Stale(a))
    /\ FeeUnlocks(a)
    /\ Leaves(a)
    /\ UNCHANGED <<requests, main, lock, faults, credits>>

(* No lock, or Rain or the database throws: another attempt after a pause. *)
FeeThrows(a) ==
    /\ \/ at[a].pc = "feeLock" /\ feeLock # None
       \/ at[a].pc = "fee"
    /\ at' = [at EXCEPT ![a] = [Idle EXCEPT
                !.pc = IF at[a].left > 1 THEN "feeLock" ELSE "feeFailed", !.left = at[a].left - 1]]
    /\ FeeUnlocks(a)
    /\ UNCHANGED <<requests, money, lock, faults, history>>

(* All attempts failed: no lock, no second look.                           *)
FeeFailed(a) ==
    /\ at[a].pc = "feeFailed"
    /\ feeStatus' = "FAILED"
    /\ Leaves(a)
    /\ UNCHANGED <<requests, main, balance, userBalance, locks, history>>

(* Before or after those attempts a call fails: handlePostFundingActions,  *)
(* or the last catch block, swallows the error, and nobody tries again.    *)
PostFundingFails(a) ==
    /\ at[a].pc \in {"checkFee", "previous", "feeFailed"}
    /\ faults > 0 /\ faults' = faults - 1
    /\ Leaves(a)
    /\ UNCHANGED <<requests, money, lock, feeLock, history>>

(* A lock's 30 s are over while its holder is still at work.               *)
LeaseEnds ==
    /\ faults > 0 /\ faults' = faults - 1
    /\ \/ /\ \E c \in Collaterals : lock[c] # None /\ lock' = [lock EXCEPT ![c] = None]
          /\ UNCHANGED feeLock
       \/ feeLock # None /\ feeLock' = None /\ UNCHANGED lock
    /\ UNCHANGED <<requests, money, at, history>>

-----------------------------------------------------------------------------
Deliver(a) ==
    \/ \E c \in Collaterals : Receive(a, c)
    \/ Lookup(a) \/ TakeLock(a) \/ ReadUser(a) \/ ReadCard(a) \/ Credit(a) \/ Drop(a)

TakeIssuanceFee(a) ==
    \/ CheckFee(a) \/ CheckPrevious(a) \/ TakeFeeLock(a) \/ FeeReadCard(a) \/ FeeReadUser(a)
    \/ ChargeFee(a) \/ FeeThrows(a) \/ FeeFailed(a) \/ PostFundingFails(a)

Next ==
    \/ \E f \in Fundings : FundCard(f) \/ RunJob(f) \/ JobFails(f)
    \/ \E a \in Actors : Deliver(a) \/ TakeIssuanceFee(a)
    \/ LeaseEnds

Spec == Init /\ [][Next]_vars

-----------------------------------------------------------------------------
(* However often Rain's webhook for one transfer is delivered, and even    *)
(* when its lock does not last, the card is credited for it once.          *)
CreditedOnce == \A c \in Collaterals : credits[c] <= 1

(* Both balances are what Rain received and was matched with a funding,    *)
(* less the issuance fee, unless a commit rested on a stale balance.       *)
FundingBooks ==
    ~raced => /\ balance = MapThenSumSet(LAMBDA c : received[c], main) - IssuanceFee * feesTaken
              /\ userBalance = balance

(* Without faults the issuance fee is taken at most once; and when the     *)
(* only funding so far has been dealt with, it was taken or given up.      *)
IssuanceFeeSettled ==
    faults = MaxFaults =>
        /\ feesTaken <= 1
        /\ (Cardinality(main) = 1 /\ \A a \in Actors : at[a].pc = "idle") => feeStatus # "PENDING"
=============================================================================
