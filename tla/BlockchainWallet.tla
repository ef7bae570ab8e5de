-------------------------- MODULE BlockchainWallet --------------------------
(***************************************************************************)
(* One stablecoin wallet of BlockchainWalletService: transfers out of it   *)
(* (initiateTransaction, convertToCurrency) that debit it, send through    *)
(* Fireblocks and take the debit back on an exception, and Fireblocks's    *)
(* webhook, delivered late, again and in any order, that credits deposits. *)
(*                                                                         *)
(* debitWallet, revertWalletDebit and fundWallet each read the balance and *)
(* write an absolute one, under three DIFFERENT Redis keys.  The insert,   *)
(* the UPDATE of the balance and the commit are one step: nothing in the   *)
(* database transaction reads the balance.  Every transfer and deposit is  *)
(* one Amount.  A handler that ends may handle the next delivery.          *)
(***************************************************************************)
EXTENDS Integers, FiniteSets

CONSTANTS
    Requests,        \* transfers out of the wallet
    Deposits,        \* transfers that Fireblocks sees arrive
    Handlers,        \* webhook deliveries under way
    Nobody,
    Amount,
    InitialBalance,
    MaxFaults        \* bound on failing calls, crashes and short leases

Agents == Requests \cup Handlers
Kinds == {"debit", "revert", "fund"}

ASSUME BlockchainWalletAssumption ==
    /\ Requests \cap Handlers = {} /\ Requests \cap Deposits = {}
    /\ Nobody \notin Agents \cup Deposits
    /\ Amount \in Nat \ {0}
    /\ InitialBalance \in Nat
    /\ MaxFaults \in Nat

VARIABLES
    balance,      \* blockchain_wallets.balance
    status,       \* the debit's blockchain_wallet_transactions.status
    referenced,   \* debits whose provider_reference is set
    credits,      \* rows with a deposit's provider_reference (no unique index)
    lock,         \* blockchain-wallet:<id>:debit, :revert-debit and :fund
    pc,           \* the call each agent awaits next
    seen,         \* the balance it has read
    event,        \* of a handler: kind and transfer
    transfer,     \* Fireblocks: the transfers out
    arrived,      \* Fireblocks: completed deposits
    faults,       \* so far
    lost,         \* observer: transfers whose exception came after the sending
    crossed       \* observer: reads and writes under different keys overlapped

rows == <<balance, status, referenced, credits>>
fireblocks == <<transfer, arrived>>
vars == <<rows, lock, pc, seen, event, fireblocks, faults, lost, crossed>>

NoEvent == [kind |-> "none", of |-> Nobody]
Events == [kind : {"broadcasting", "completed", "failed"}, of : Requests]
          \cup [kind : {"deposit"}, of : Deposits] \cup {NoEvent}

Points == {"idle", "done"}
    \cup {"debitLock", "debitRead", "debitCommit", "debitFree", "send", "setReference"}
    \cup {"revertLock", "revertRead", "revertCommit", "revertFree"}
    \cup {"handle", "markPending", "fundLock", "fundRead", "fundCommit", "fundFree"}

(* Statuses are of the life cycle of a debit; counters stay in bounds.     *)
TypeOK ==
    /\ balance \in Int
    /\ status \in [Requests -> {"none", "PENDING", "FAILED"}]
    /\ referenced \subseteq Requests
    /\ credits \in [Deposits -> Nat]
    /\ lock \in [Kinds -> Agents \cup {Nobody}]
    /\ pc \in [Agents -> Points]
    /\ seen \in [Agents -> Int]
    /\ event \in [Handlers -> Events]
    /\ transfer \in [Requests -> {"none", "submitted", "broadcast", "completed", "failed"}]
    /\ arrived \subseteq Deposits
    /\ faults \in 0..MaxFaults
    /\ lost \subseteq Requests
    /\ crossed \in BOOLEAN

Init ==
    /\ balance = InitialBalance
    /\ status = [r \in Requests |-> "none"]
    /\ referenced = {}
    /\ credits = [d \in Deposits |-> 0]
    /\ lock = [k \in Kinds |-> Nobody]
    /\ pc = [a \in Agents |-> "idle"]
    /\ seen = [a \in Agents |-> 0]
    /\ event = [h \in Handlers |-> NoEvent]
    /\ transfer = [r \in Requests |-> "none"]
    /\ arrived = {}
    /\ faults = 0
    /\ lost = {}
    /\ crossed = FALSE

-----------------------------------------------------------------------------
Sections == {"debitCommit", "revertCommit", "fundCommit"}

(* Two agents have read the balance under different keys, or two handlers  *)
(* have found no row for one deposit.                                      *)
Crossing(at) ==
    \/ \E a, b \in Agents : at[a] \in Sections /\ at[b] \in Sections /\ at[a] # at[b]
    \/ \E g, h \in Handlers :
          /\ g # h
          /\ event[g] = event[h]
          /\ {at[g], at[h]} \subseteq {"fundLock", "fundRead", "fundCommit"}

(* An agent goes on.  It enters a section by reading the balance, and a    *)
(* handler that ends forgets its event.                                    *)
Goto(a, p) ==
    LET at == [pc EXCEPT ![a] = p]
    IN  /\ pc' = at
        /\ crossed' = (crossed \/ Crossing(at))
        /\ seen' = [seen EXCEPT ![a] = IF p \in Sections THEN balance ELSE 0]
        /\ event' = [h \in Handlers |-> IF at[h] \in {"idle", "done"} THEN NoEvent ELSE event[h]]

LastPoint(a) == IF a \in Requests THEN "done" ELSE "idle"

-----------------------------------------------------------------------------
LockPoint == [debit |-> "debitLock", revert |-> "revertLock", fund |-> "fundLock"]
ReadPoint == [debit |-> "debitRead", revert |-> "revertRead", fund |-> "fundRead"]

(* Variant: the lock does not exclude (SET without NX).                    *)
AcquireVariant(a, k) ==
    /\ pc[a] = LockPoint[k]
    /\ lock' = [lock EXCEPT ![k] = a]
    /\ Goto(a, ReadPoint[k])
    /\ UNCHANGED <<rows, fireblocks, faults, lost>>

(* LockerService.withLock with five attempts: acquire ...                  *)
Acquire(a, k) ==
    /\ pc[a] = LockPoint[k]
    /\ lock[k] = Nobody
    /\ lock' = [lock EXCEPT ![k] = a]
    /\ Goto(a, ReadPoint[k])
    /\ UNCHANGED <<rows, fireblocks, faults, lost>>

(* ... or throw.  A debit and a credit are then not made; the exception of *)
(* a revert is logged, and the wallet stays debited.                       *)
GiveUp(a, k) ==
    /\ pc[a] = LockPoint[k]
    /\ lock[k] # Nobody
    /\ Goto(a, LastPoint(a))
    /\ UNCHANGED <<rows, lock, fireblocks, faults, lost>>

Freed(a) == [k \in Kinds |-> IF lock[k] = a THEN Nobody ELSE lock[k]]

(* release() of debitWallet: when the key is gone, or Redis fails, its     *)
(* exception replaces the row that was created, and nobody reverts it.     *)
DebitFree(r) ==
    /\ pc[r] = "debitFree"
    /\ lock' = Freed(r)
    /\ \/ lock["debit"] = r /\ Goto(r, "send") /\ UNCHANGED faults
       \/ lock["debit"] # r /\ Goto(r, "done") /\ UNCHANGED faults
       \/ faults < MaxFaults /\ faults' = faults + 1 /\ Goto(r, "done")
    /\ UNCHANGED <<rows, fireblocks, lost>>

(* release() of the others, and what remains: links and notifications.     *)
Free(a) ==
    /\ pc[a] \in {"revertFree", "fundFree"}
    /\ lock' = Freed(a)
    /\ Goto(a, LastPoint(a))
    /\ UNCHANGED <<rows, fireblocks, faults, lost>>

-----------------------------------------------------------------------------
(* initiateTransaction and convertToCurrency refuse while a row is PENDING,*)
(* and for a missing wallet or peer.                                       *)
Initiate(r) ==
    /\ pc[r] = "idle"
    /\ \/ (\A q \in Requests : status[q] # "PENDING") /\ Goto(r, "debitLock")
       \/ Goto(r, "done")
    /\ UNCHANGED <<rows, lock, fireblocks, faults, lost>>

(* Variant: the balance was compared before the key was taken.             *)
DebitReadVariant(r) ==
    /\ pc[r] = "debitRead"
    /\ Goto(r, "debitCommit")
    /\ UNCHANGED <<rows, lock, fireblocks, faults, lost>>

(* debitWallet compares the balance it reads under the key.                *)
DebitRead(r) ==
    /\ pc[r] = "debitRead"
    /\ IF balance >= Amount
       THEN Goto(r, "debitCommit") /\ UNCHANGED lock
       ELSE Goto(r, "done") /\ lock' = Freed(r)
    /\ UNCHANGED <<rows, fireblocks, faults, lost>>

DebitCommit(r) ==
    /\ pc[r] = "debitCommit"
    /\ balance' = seen[r] - Amount
    /\ status' = [status EXCEPT ![r] = "PENDING"]
    /\ Goto(r, "debitFree")
    /\ UNCHANGED <<referenced, credits, lock, fireblocks, faults, lost>>

(* Variant: the peer's address is checked after the transfer was sent.     *)
SendVariant(r) ==
    /\ pc[r] = "send"
    /\ transfer' = [transfer EXCEPT ![r] = "submitted"]
    /\ Goto(r, "setReference") \/ Goto(r, "revertLock")
    /\ UNCHANGED <<rows, lock, arrived, faults, lost>>

(* internalTransfer or externalTransfer: Fireblocks takes the transfer; or *)
(* it, or the check of the peer's address, refuses it; or the answer of a  *)
(* transfer that was taken is lost.                                        *)
Send(r) ==
    /\ pc[r] = "send"
    /\ \/ /\ transfer' = [transfer EXCEPT ![r] = "submitted"]
          /\ Goto(r, "setReference")
          /\ UNCHANGED <<faults, lost>>
       \/ /\ Goto(r, "revertLock")
          /\ UNCHANGED <<transfer, faults, lost>>
       \/ /\ faults < MaxFaults
          /\ faults' = faults + 1
          /\ transfer' = [transfer EXCEPT ![r] = "submitted"]
          /\ lost' = lost \cup {r}
          /\ Goto(r, "revertLock")
    /\ UNCHANGED <<rows, lock, arrived>>

(* The UPDATE of provider_reference; its exception, with or without its    *)
(* effect, reverts the debit of a transfer that is on its way.             *)
SetReference(r) ==
    /\ pc[r] = "setReference"
    /\ \/ /\ referenced' = referenced \cup {r}
          /\ Goto(r, "done")
          /\ UNCHANGED <<faults, lost>>
       \/ /\ faults < MaxFaults
          /\ faults' = faults + 1
          /\ lost' = lost \cup {r}
          /\ referenced' \in {referenced, referenced \cup {r}}
          /\ Goto(r, "revertLock")
    /\ UNCHANGED <<balance, status, credits, lock, fireblocks>>

(* revertWalletDebit: only a PENDING debit.                                *)
RevertRead(r) ==
    /\ pc[r] = "revertRead"
    /\ Goto(r, IF status[r] = "PENDING" THEN "revertCommit" ELSE "revertFree")
    /\ UNCHANGED <<rows, lock, fireblocks, faults, lost>>

RevertCommit(r) ==
    /\ pc[r] = "revertCommit"
    /\ balance' = seen[r] + Amount
    /\ status' = [status EXCEPT ![r] = "FAILED"]
    /\ Goto(r, "revertFree")
    /\ UNCHANGED <<referenced, credits, lock, fireblocks, faults, lost>>

-----------------------------------------------------------------------------
Reported(e) ==
    CASE e.kind = "broadcasting" -> transfer[e.of] \in {"broadcast", "completed", "failed"}
      [] e.kind \in {"completed", "failed"} -> transfer[e.of] = e.kind
      [] e.kind = "deposit" -> e.of \in arrived
      [] OTHER -> FALSE

(* FireblocksWebhookService.processWebhook, handleTransactionStatusUpdate. *)
Receive(h, e) ==
    /\ pc[h] = "idle"
    /\ Reported(e)
    /\ event' = [event EXCEPT ![h] = e]
    /\ pc' = [pc EXCEPT ![h] = "handle"]
    /\ UNCHANGED <<rows, lock, seen, fireblocks, faults, lost, crossed>>

(* handleTransactionFailed changes nothing; neither does                   *)
(* handleTransactionCompleted for a transfer out of a vault, which it      *)
(* looks up only after it has returned for want of it.                     *)
TransferOutEnded(h) ==
    /\ pc[h] = "handle"
    /\ event[h].kind \in {"completed", "failed"}
    /\ Goto(h, "idle")
    /\ UNCHANGED <<rows, lock, fireblocks, faults, lost>>

(* handleTransactionBroadcasted: look up the row, then set it PENDING.     *)
FindTransfer(h) ==
    /\ pc[h] = "handle"
    /\ event[h].kind = "broadcasting"
    /\ Goto(h, IF event[h].of \in referenced THEN "markPending" ELSE "idle")
    /\ UNCHANGED <<rows, lock, fireblocks, faults, lost>>

MarkPending(h) ==
    /\ pc[h] = "markPending"
    /\ status' = [status EXCEPT ![event[h].of] = "PENDING"]
    /\ Goto(h, "idle")
    /\ UNCHANGED <<balance, referenced, credits, lock, fireblocks, faults, lost>>

(* handleTransactionCompleted of a deposit: credit it unless a row exists. *)
FindDeposit(h) ==
    /\ pc[h] = "handle"
    /\ event[h].kind = "deposit"
    /\ Goto(h, IF credits[event[h].of] = 0 THEN "fundLock" ELSE "idle")
    /\ UNCHANGED <<rows, lock, fireblocks, faults, lost>>

FundRead(h) ==
    /\ pc[h] = "fundRead"
    /\ Goto(h, "fundCommit")
    /\ UNCHANGED <<rows, lock, fireblocks, faults, lost>>

FundCommit(h) ==
    /\ pc[h] = "fundCommit"
    /\ balance' = seen[h] + Amount
    /\ credits' = [credits EXCEPT ![event[h].of] = @ + 1]
    /\ Goto(h, "fundFree")
    /\ UNCHANGED <<status, referenced, lock, fireblocks, faults, lost>>

-----------------------------------------------------------------------------
(* A statement of a handler or of a section under a lock fails: the lock   *)
(* is released and the caller throws, or logs the failed revert.           *)
Fails(a) ==
    /\ pc[a] \in {"debitRead", "debitCommit", "revertRead", "revertCommit",
                  "handle", "markPending", "fundRead", "fundCommit"}
    /\ faults < MaxFaults
    /\ faults' = faults + 1
    /\ lock' = Freed(a)
    /\ Goto(a, LastPoint(a))
    /\ UNCHANGED <<rows, fireblocks, lost>>

(* The process dies; its keys stay in Redis.                               *)
Crash(a) ==
    /\ pc[a] \notin {"idle", "done"}
    /\ faults < MaxFaults
    /\ faults' = faults + 1
    /\ Goto(a, "done")
    /\ UNCHANGED <<rows, lock, fireblocks, lost>>

(* A key runs out after 30 s: the holder is gone, or has taken too long.   *)
LeaseEnds(k) ==
    /\ lock[k] # Nobody
    /\ lock' = [lock EXCEPT ![k] = Nobody]
    /\ IF pc[lock[k]] \in {"idle", "done"}
       THEN UNCHANGED <<faults, crossed>>
       ELSE faults < MaxFaults /\ faults' = faults + 1 /\ crossed' = TRUE
    /\ UNCHANGED <<rows, pc, seen, event, fireblocks, lost>>

(* Fireblocks.                                                             *)
Moves == [submitted |-> {"broadcast", "failed"}, broadcast |-> {"completed", "failed"}]

TransferMoves(r) ==
    /\ transfer[r] \in DOMAIN Moves
    /\ \E s \in Moves[transfer[r]] : transfer' = [transfer EXCEPT ![r] = s]
    /\ UNCHANGED <<rows, lock, pc, seen, event, arrived, faults, lost, crossed>>

Arrive(d) ==
    /\ d \notin arrived
    /\ arrived' = arrived \cup {d}
    /\ UNCHANGED <<rows, lock, pc, seen, event, transfer, faults, lost, crossed>>

-----------------------------------------------------------------------------
RequestStep(r) ==
    \/ Initiate(r) \/ DebitRead(r) \/ DebitCommit(r) \/ DebitFree(r)
    \/ Send(r) \/ SetReference(r) \/ RevertRead(r) \/ RevertCommit(r)
    \/ TransferMoves(r)

HandlerStep(h) ==
    \/ \E e \in Events : Receive(h, e)
    \/ TransferOutEnded(h) \/ FindTransfer(h) \/ MarkPending(h)
    \/ FindDeposit(h) \/ FundRead(h) \/ FundCommit(h)

Next ==
    \/ \E r \in Requests : RequestStep(r)
    \/ \E h \in Handlers : HandlerStep(h)
    \/ \E d \in Deposits : Arrive(d)
    \/ \E a \in Agents : Free(a) \/ Fails(a) \/ Crash(a)
    \/ \E a \in Agents, k \in Kinds : Acquire(a, k) \/ GiveUp(a, k)
    \/ \E k \in Kinds : LeaseEnds(k)

Spec == Init /\ [][Next]_vars

-----------------------------------------------------------------------------
(* Debits that stand, whatever became of the transfer.                     *)
Debited == {r \in Requests : status[r] = "PENDING"}
Credited == {d \in Deposits : credits[d] > 0}

(* The balance is what was there and arrived less the debits that stand,   *)
(* and each deposit counts once: repeated deliveries, failed calls and     *)
(* crashes between steps do not touch it as long as debitWallet,           *)
(* revertWalletDebit and fundWallet do not overlap under their different   *)
(* keys, nor two deliveries of one deposit, nor a lease ends too early.    *)
(* (A late BROADCASTING makes a reverted debit PENDING again: see lost.)   *)
WalletBooks ==
    ~crossed /\ lost = {} =>
        balance = InitialBalance - Amount * Cardinality(Debited)
                  + Amount * Cardinality(Credited)

(* A transfer is on its way through Fireblocks only for a debit that       *)
(* stands, unless an exception came after the sending.                     *)
SentWasTaken ==
    \A r \in Requests \ lost :
        transfer[r] \in {"submitted", "broadcast", "completed"} => status[r] = "PENDING"

AccountRef == INSTANCE Account WITH Amounts <- {Amount, -Amount}, trusted <- ~crossed

(* debitWallet, revertWalletDebit and fundWallet, each a read and a later  *)
(* write of an absolute balance, are one atomic update of one account      *)
(* until they overlap under their different keys; overlapping or not, they *)
(* never overdraw it.                                                      *)
AccountSpec == AccountRef!Spec
=============================================================================
