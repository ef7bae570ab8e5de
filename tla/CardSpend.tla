------------------------------- MODULE CardSpend -------------------------------
(***************************************************************************)
(* One Rain card: its balance under the spend webhooks (created, updated,  *)
(* completed), the fee and the block after declines for insufficient       *)
(* funds, and its status under the user, the support desk and Rain.        *)
(*                                                                         *)
(* Each handler looks up the transaction's rows, takes the lock of the     *)
(* TRANSACTION (not of the card), reads the balances in a database         *)
(* transaction of level READ COMMITTED and writes them back as absolute    *)
(* values.  Its error is swallowed: the event counts as processed.  Rain   *)
(* may deliver an event late, again, and in any order.                     *)
(*                                                                         *)
(* Amounts are cents, scaled down.  The cardholder has one card, so the    *)
(* card user's balance starts equal to the card's.                         *)
(***************************************************************************)
EXTENDS Integers, FiniteSets, Sequences, FiniteSetsExt

CONSTANTS
    Spends,            \* Rain's transaction ids
    Declined,          \* the ones Rain declines for insufficient funds
    Actors,            \* webhook deliveries and requests under way
    Start,             \* the balance the card was funded with
    Amount,            \* an authorization
    Grown,             \* ... after Rain has raised it
    Fee,               \* insufficient funds fee (25)
    MaxDeclines,       \* MAX_INSUFFICIENT_FUNDS_DECLINES (3)
    Unasked,           \* card states that Rain sets of itself
    MaxDisturbances,   \* bound on the requests of the user and the support desk,
                       \* Rain's own changes and the locks that outlive their lease
    None

RainStatus == {"notActivated", "active", "locked", "canceled", "inactive"}

ASSUME CardSpendAssumption ==
    /\ Unasked \subseteq RainStatus
    /\ Declined \subseteq Spends
    /\ Start \in Nat /\ Amount \in Nat \ {0} /\ Grown \in Nat \ {0}
    /\ Fee \in Nat \ {0} /\ MaxDeclines \in Nat \ {0}
    /\ MaxDisturbances \in Nat
    /\ None \notin Actors

VARIABLES
    balance,       \* cards.balance
    userBalance,   \* card_users.balance
    card,          \* cards: status, is_freezed, insufficient_funds_decline_count
    rows,          \* card_transactions with provider_reference t, oldest first
    main,          \* transactions with reference t (a unique column)
    sent,          \* spend events Rain has sent
    reported,      \* card states Rain has reported with card.updated
    lock,          \* card-balance:user:..:tx:t:card:..
    rowOwner,      \* whose database transaction has updated the card's row
    left,          \* requests, changes and overlong locks still to come
    at,            \* where each actor is, and what it has read
    fees,          \* decline fees debited (history)
    upset,         \* a commit rested on a stale read, or debited again (history)
    mixed          \* part of an event was written over a newer status (history)

books == <<balance, userBalance, fees, upset>>
records == <<rows, main>>
rain == <<sent, reported>>
vars == <<books, card, mixed, records, rain, lock, rowOwner, left, at>>

Kinds == {"authorized", "declined", "grown", "reversed", "completed"}
Events == [tx : Spends, kind : Kinds, amount : {0, Amount, Grown}]
RowStatus == {"PENDING", "SUCCESSFUL", "DECLINED"}
MainStatus == {"PENDING", "COMPLETED", "FAILED"}
CardStatus == {"PENDING", "ACTIVE", "INACTIVE", "BLOCKED", "CANCELED"}
CardState == [status : CardStatus, frozen : BOOLEAN]

NoRow == [status |-> "none", amount |-> 0]
Row == [status : RowStatus, amount : Nat]
Main == [status : MainStatus, amount : Nat] \cup {NoRow}

Points == {"idle", "findMain", "lock", "readCard", "readUser", "decline", "commit",
           "user", "userWrite", "support", "supportWrite", "eventWrite"}

Idle == [pc |-> "idle", ev |-> None, row |-> 0, seenRow |-> NoRow, seenMain |-> NoRow,
         balance |-> 0, userBalance |-> 0, count |-> 0, was |-> None, want |-> None]

Memory == [pc : Points, ev : Events \cup {None}, row : Nat,
           seenRow : Row \cup {NoRow}, seenMain : Main, balance : Int,
           userBalance : Int, count : Nat,
           was : CardState \cup {None}, want : CardState \cup {None}]

(* The rows, the balances and what each actor remembers of them.           *)
TypeOK ==
    /\ balance \in Int /\ userBalance \in Int
    /\ card \in [status : CardStatus, frozen : BOOLEAN, declines : Nat]
    /\ rows \in [Spends -> Seq(Row)]
    /\ main \in [Spends -> Main]
    /\ sent \subseteq Events /\ reported \subseteq RainStatus
    /\ lock \in [Spends -> Actors \cup {None}]
    /\ rowOwner \in Actors \cup {None}
    /\ at \in [Actors -> Memory]
    /\ left \in 0..MaxDisturbances
    /\ fees \in Nat /\ upset \in BOOLEAN /\ mixed \in BOOLEAN

Init ==
    /\ balance = Start /\ userBalance = Start
    /\ card = [status |-> "ACTIVE", frozen |-> FALSE, declines |-> 0]
    /\ rows = [t \in Spends |-> <<>>]
    /\ main = [t \in Spends |-> NoRow]
    /\ sent = {} /\ reported = {}
    /\ lock = [t \in Spends |-> None] /\ rowOwner = None
    /\ at = [a \in Actors |-> Idle]
    /\ left = MaxDisturbances
    /\ fees = 0 /\ upset = FALSE /\ mixed = FALSE

-----------------------------------------------------------------------------
(* Rain: a decline; or an authorization, perhaps a raise, and the end.     *)
Told(t, k) == \E e \in sent : e.tx = t /\ e.kind = k

Says(t, k, n) ==
    /\ ~Told(t, k)
    /\ sent' = sent \cup {[tx |-> t, kind |-> k, amount |-> n]}
    /\ UNCHANGED <<books, card, mixed, records, reported, left, lock, rowOwner, at>>

Rain(t) ==
    \/ t \in Declined /\ Says(t, "declined", Amount)
    \/ t \notin Declined /\ Says(t, "authorized", Amount)
    \/ /\ Told(t, "authorized") /\ ~Told(t, "reversed") /\ ~Told(t, "completed")
       /\ \/ Says(t, "grown", Grown)
          \/ Says(t, "reversed", 0)
          \/ Says(t, "completed", IF Told(t, "grown") THEN Grown ELSE Amount)

-----------------------------------------------------------------------------
(* validateIdempotency                                                     *)
IsFailed(e) == e.kind \in {"declined", "reversed"}
IsPending(e) == e.kind \in {"authorized", "grown"}

(* mapRainStatusToCardTransactionStatus                                    *)
MappedStatus(e) ==
    IF IsFailed(e) THEN "DECLINED" ELSE IF IsPending(e) THEN "PENDING" ELSE "SUCCESSFUL"

MainOf(e) ==
    [status |-> IF IsFailed(e) THEN "FAILED" ELSE IF IsPending(e) THEN "PENDING" ELSE "COMPLETED",
     amount |-> IF IsFailed(e) THEN 0 ELSE e.amount]

(* VALID_STATUS_TRANSITIONS                                                *)
MayBecome(s) == IF s = "PENDING" THEN RowStatus ELSE {s}

AmountMatches(e, row) ==
    LET difference == IF e.amount > row.amount THEN e.amount - row.amount
                                               ELSE row.amount - e.amount
    IN difference <= 1 \/ 10 * difference <= row.amount

IsNews(e, row, m) ==
    /\ MappedStatus(e) \in MayBecome(row.status)
    /\ IF IsFailed(e) THEN e.amount = 0 ELSE AmountMatches(e, row)
    /\ m # MainOf(e)
    /\ ~(MappedStatus(e) = row.status /\ e.amount = row.amount)

-----------------------------------------------------------------------------
Disturbs == left > 0 /\ left' = left - 1

Goto(a, p) == at' = [at EXCEPT ![a].pc = p]

(* The first lookup: a row of this provider_reference, if there is one.    *)
FindRow(a, e) ==
    /\ at[a].pc = "idle"
    /\ \E i \in 0..Len(rows[e.tx]) :
          /\ i = 0 <=> rows[e.tx] = <<>>
          /\ e.kind \in {"grown", "reversed"} => i # 0
          /\ at' = [at EXCEPT ![a] = [Idle EXCEPT !.pc = "findMain", !.ev = e, !.row = i,
                        !.seenRow = IF i = 0 THEN NoRow ELSE rows[e.tx][i]]]
    /\ UNCHANGED <<books, card, mixed, records, rain, left, lock, rowOwner>>

(* updatePendingToCompleted needs no balance.                              *)
JustStatus(e, row, m) ==
    e.kind = "completed" /\ row.status = "PENDING" /\ m # NoRow

(* The second lookup, and the checks on both rows.                         *)
FindMain(a) ==
    /\ at[a].pc = "findMain"
    /\ LET e == at[a].ev
           row == at[a].seenRow
           m == main[e.tx]
       IN at' = [at EXCEPT ![a] =
                   IF row = NoRow \/ JustStatus(e, row, m) \/ IsNews(e, row, m)
                   THEN [at[a] EXCEPT !.pc = "lock",
                            !.seenMain = IF e.kind = "completed" THEN m ELSE NoRow]
                   ELSE Idle]
    /\ UNCHANGED <<books, card, mixed, records, rain, left, lock, rowOwner>>

TakeLock(a) ==
    /\ at[a].pc = "lock"
    /\ LET e == at[a].ev IN
       /\ lock[e.tx] = None
       /\ lock' = [lock EXCEPT ![e.tx] = a]
       /\ Goto(a, IF JustStatus(e, at[a].seenRow, at[a].seenMain)
                  THEN "commit" ELSE "readCard")
    /\ UNCHANGED <<books, card, mixed, records, rain, left, rowOwner>>

(* The retries of the lock are used up.                                    *)
LockFails(a) ==
    /\ at[a].pc = "lock" /\ lock[at[a].ev.tx] # None
    /\ at' = [at EXCEPT ![a] = Idle]
    /\ UNCHANGED <<books, card, mixed, records, rain, left, lock, rowOwner>>

ReadCard(a) ==
    /\ at[a].pc = "readCard"
    /\ at' = [at EXCEPT ![a].balance = balance,
          ![a].count = IF at[a].ev.kind = "declined" THEN card.declines ELSE 0,
          ![a].pc = IF at[a].ev.kind = "declined" /\ card.status = "BLOCKED"
                    THEN "commit" ELSE "readUser"]
    /\ UNCHANGED <<books, card, mixed, records, rain, left, lock, rowOwner>>

ReadUser(a) ==
    /\ at[a].pc = "readUser"
    /\ at' = [at EXCEPT ![a].userBalance = userBalance,
          ![a].pc = IF at[a].ev.kind = "declined" THEN "decline" ELSE "commit"]
    /\ UNCHANGED <<books, card, mixed, records, rain, left, lock, rowOwner>>

(* handleInsufficientFundsDecline: the new count locks the card's row, the *)
(* fee is charged at Rain, and the card is locked there at the limit.      *)
Decline(a) ==
    /\ at[a].pc = "decline" /\ rowOwner = None
    /\ rowOwner' = a
    /\ Goto(a, "commit")
    /\ reported' = reported \cup
                      (IF at[a].count + 1 >= MaxDeclines THEN {"locked"} ELSE {})
    /\ UNCHANGED <<books, card, mixed, records, sent, left, lock>>

-----------------------------------------------------------------------------
(* What the transaction of actor a, at its commit, writes.                 *)
Ends(a) ==
    /\ at' = [at EXCEPT ![a] = Idle]
    /\ lock' = [t \in Spends |-> IF lock[t] = a THEN None ELSE lock[t]]
    /\ rowOwner' = IF rowOwner = a THEN None ELSE rowOwner

(* Both balances move by n from what a has read, once no other transaction *)
(* holds the card's row.                                                   *)
Moves(a, n) ==
    /\ rowOwner \in {None, a}
    /\ balance' = at[a].balance + n
    /\ userBalance' = at[a].userBalance + n

StaleBalance(a) == at[a].balance # balance \/ at[a].userBalance # userBalance

StaleRow(a) ==
    LET t == at[a].ev.tx IN
    IF at[a].row = 0 THEN rows[t] # <<>> ELSE at[a].seenRow # rows[t][at[a].row]

(* Variant: any money is enough.                                           *)
CoversVariant(a, n) == at[a].balance > 0 /\ at[a].userBalance > 0

Covers(a, n) == at[a].balance >= n /\ at[a].userBalance >= n

Adds(t, row) == rows' = [rows EXCEPT ![t] = Append(@, row)]

(* processSpendTransactionInTransaction                                    *)
Created(a) ==
    LET e == at[a].ev IN
    /\ main[e.tx] = NoRow
    /\ Adds(e.tx, [status |-> MappedStatus(e), amount |-> e.amount])
    /\ main' = [main EXCEPT ![e.tx] = MainOf(e)]
    /\ \/ /\ e.kind = "authorized"
          /\ Covers(a, e.amount)
          /\ Moves(a, -e.amount)
          /\ card' = [card EXCEPT !.declines = 0]
          /\ upset' = (upset \/ StaleBalance(a))
          /\ UNCHANGED fees
       \/ /\ e.kind = "declined" /\ rowOwner = a
          /\ Moves(a, -Fee)
          /\ fees' = fees + 1
          /\ card' = LET n == at[a].count + 1 IN
                IF n < MaxDeclines THEN [card EXCEPT !.declines = n]
                ELSE [status |-> "BLOCKED", frozen |-> TRUE, declines |-> n]
          /\ upset' = (upset \/ StaleBalance(a))
       \/ /\ e.kind = "declined" /\ rowOwner # a
          /\ UNCHANGED <<books, card>>

(* Variant: a pending payment is not thought to have been debited.         *)
CreditBackVariant(row) == IF row.status = "SUCCESSFUL" THEN row.amount ELSE 0

(* calculateUpdatedBalances: what a decline or a reversal gives back       *)
CreditBack(row) == IF row.status = "DECLINED" THEN 0 ELSE row.amount

(* processSpendTransactionUpdate: a raised authorization is debited in     *)
(* full although it has been debited before.                               *)
Updated(a) ==
    LET e == at[a].ev
        failed == IsFailed(e)
    IN
    /\ rows' = [rows EXCEPT ![e.tx][at[a].row] =
                   [status |-> IF failed THEN "DECLINED" ELSE "SUCCESSFUL",
                    amount |-> e.amount]]
    /\ main' = [main EXCEPT ![e.tx] =
                   [status |-> IF failed THEN "FAILED" ELSE "COMPLETED",
                    amount |-> IF failed THEN 0 ELSE e.amount]]
    /\ IF failed
       THEN Moves(a, CreditBack(at[a].seenRow))
       ELSE Covers(a, e.amount) /\ Moves(a, -e.amount)
    /\ upset' = (upset \/ StaleBalance(a) \/ StaleRow(a) \/ ~failed)
    /\ UNCHANGED <<card, fees>>

(* Variant: only the card's row is completed.                              *)
StatusOnlyVariant(a) ==
    /\ rows' = [rows EXCEPT ![at[a].ev.tx][at[a].row].status = "SUCCESSFUL"]
    /\ upset' = (upset \/ StaleRow(a))
    /\ UNCHANGED <<card, main, balance, userBalance, fees>>

(* updatePendingToCompleted                                                *)
StatusOnly(a) ==
    /\ rows' = [rows EXCEPT ![at[a].ev.tx][at[a].row].status = "SUCCESSFUL"]
    /\ main' = [main EXCEPT ![at[a].ev.tx].status = "COMPLETED"]
    /\ upset' = (upset \/ StaleRow(a))
    /\ UNCHANGED <<card, balance, userBalance, fees>>

(* processSpendTransactionCompletion.  A row that was found differs in the *)
(* amount, which throws.                                                   *)
Completed(a) ==
    LET e == at[a].ev IN
    /\ at[a].row = 0
    /\ Adds(e.tx, [status |-> "SUCCESSFUL", amount |-> e.amount])
    /\ Covers(a, e.amount)
    /\ at[a].seenMain = NoRow => main[e.tx] = NoRow
    /\ main' = [main EXCEPT ![e.tx] = MainOf(e)]
    /\ Moves(a, -e.amount)
    /\ upset' = (upset \/ StaleBalance(a) \/ StaleRow(a))
    /\ UNCHANGED <<card, fees>>

Writes(a) ==
    LET e == at[a].ev IN
    CASE e.kind \in {"authorized", "declined"} -> Created(a)
      [] e.kind \in {"grown", "reversed"} -> Updated(a)
      [] JustStatus(e, at[a].seenRow, at[a].seenMain) -> StatusOnly(a)
      [] OTHER -> Completed(a)

Commit(a) ==
    /\ at[a].pc = "commit"
    /\ Writes(a)
    /\ Ends(a)
    /\ UNCHANGED <<mixed, rain, left>>

(* Rolled back: too little money, a second main row for one reference, or  *)
(* any call of the database or of Rain that throws.                        *)
Abort(a) ==
    /\ at[a].pc = "commit"
    /\ Ends(a)
    /\ UNCHANGED <<books, card, mixed, records, rain, left>>

(* The lock's 30 s are over while its holder is still at work.             *)
LeaseEnds(t) ==
    /\ lock[t] # None /\ Disturbs
    /\ lock' = [lock EXCEPT ![t] = None]
    /\ UNCHANGED <<books, card, mixed, records, rain, rowOwner, at>>

-----------------------------------------------------------------------------
(* Rain itself changes the card, for reasons of its own.                   *)
RainChanges(s) ==
    /\ s \notin reported /\ Disturbs
    /\ reported' = reported \cup {s}
    /\ UNCHANGED <<books, card, mixed, records, sent, lock, rowOwner, at>>

(* A request is accepted: what it will tell Rain and write.                *)
Asks(a, p, w) ==
    /\ at[a].pc = "idle" /\ Disturbs
    /\ at' = [at EXCEPT ![a].pc = p, ![a].want = w]
    /\ UNCHANGED <<books, card, mixed, records, rain, lock, rowOwner>>

(* freezeOrUnfreezeCard: validate ...                                      *)
UserAsks(a, freeze) ==
    /\ ~freeze => card.status \notin {"BLOCKED", "CANCELED"}
    /\ card.frozen # freeze
    /\ Asks(a, "user", [status |-> IF freeze THEN "INACTIVE" ELSE "ACTIVE", frozen |-> freeze])

(* cancelCard: not while a payment is pending                              *)
UserCancels(a) ==
    /\ card.status # "CANCELED"
    /\ \A t \in Spends : \A i \in DOMAIN rows[t] : rows[t][i].status # "PENDING"
    /\ Asks(a, "user", [status |-> "CANCELED", frozen |-> TRUE])

(* adminBlockOrUnlockCard                                                  *)
SupportAsks(a, block) ==
    /\ card.status # "CANCELED"
    /\ Asks(a, "support", [status |-> IF block THEN "BLOCKED" ELSE "ACTIVE", frozen |-> block])

(* What Rain is told of a decision.                                        *)
ToldRain(w) ==
    IF w.status = "CANCELED" THEN "canceled" ELSE IF w.frozen THEN "locked" ELSE "active"

(* ... tell Rain, which may refuse ...                                     *)
TellRain(a) ==
    /\ at[a].pc \in {"user", "support"}
    /\ \/ /\ reported' = reported \cup {ToldRain(at[a].want)}
          /\ Goto(a, IF at[a].pc = "user" THEN "userWrite" ELSE "supportWrite")
       \/ /\ at' = [at EXCEPT ![a] = Idle]
          /\ UNCHANGED reported
    /\ UNCHANGED <<books, card, mixed, records, sent, left, lock, rowOwner>>

(* Variant: a block without the frozen flag.                               *)
WriteStatusVariant(a) ==
    /\ at[a].pc \in {"userWrite", "supportWrite"} /\ rowOwner = None
    /\ card' = [card EXCEPT !.status = at[a].want.status]
    /\ at' = [at EXCEPT ![a] = Idle]
    /\ UNCHANGED <<books, mixed, records, rain, left, lock, rowOwner>>

(* ... and write status and flag.                                          *)
WriteStatus(a) ==
    /\ at[a].pc \in {"userWrite", "supportWrite"} /\ rowOwner = None
    /\ card' = [card EXCEPT !.status = at[a].want.status, !.frozen = at[a].want.frozen]
    /\ at' = [at EXCEPT ![a] = Idle]
    /\ UNCHANGED <<books, mixed, records, rain, left, lock, rowOwner>>

-----------------------------------------------------------------------------
(* mapWebhookStatusToInternalStatus: a locked card that is BLOCKED stays so*)
MappedCardStatus(s) ==
    CASE s = "notActivated" -> "PENDING"
      [] s = "active" -> "ACTIVE"
      [] s = "canceled" -> "CANCELED"
      [] s = "locked" /\ card.status = "BLOCKED" -> "BLOCKED"
      [] OTHER -> "INACTIVE"

(* The flag an event asks for: only locked and active touch it.            *)
MappedFrozen(s) ==
    CASE s = "locked" -> TRUE
      [] s = "active" -> FALSE
      [] OTHER -> card.frozen

Now == [status |-> card.status, frozen |-> card.frozen]

(* handleCardUpdated.  An event with the status the card has already is    *)
(* handled for the sake of a new limit, expiry or wallet.                  *)
CardUpdated(a, s) ==
    LET want == [status |-> MappedCardStatus(s), frozen |-> MappedFrozen(s)] IN
    /\ at[a].pc = "idle"
    /\ want # Now
    /\ at' = [at EXCEPT ![a].pc = "eventWrite", ![a].was = Now, ![a].want = want]
    /\ UNCHANGED <<books, card, mixed, records, rain, left, lock, rowOwner>>

(* buildCardUpdateData and applyCardUpdate: only the columns that differ   *)
(* from the card the event has read.                                       *)
WriteEvent(a) ==
    LET was == at[a].was
        want == at[a].want
    IN
    /\ at[a].pc = "eventWrite" /\ rowOwner = None
    /\ card' = [card EXCEPT !.status = IF want.status = was.status THEN @ ELSE want.status,
                            !.frozen = IF want.frozen = was.frozen THEN @ ELSE want.frozen]
    /\ mixed' = (mixed \/ /\ Now # was
                          /\ want.status = was.status \/ want.frozen = was.frozen)
    /\ at' = [at EXCEPT ![a] = Idle]
    /\ UNCHANGED <<books, records, rain, left, lock, rowOwner>>

-----------------------------------------------------------------------------
Handle(a) ==
    \/ \E e \in sent : FindRow(a, e)
    \/ FindMain(a) \/ TakeLock(a) \/ LockFails(a)
    \/ ReadCard(a) \/ ReadUser(a) \/ Decline(a) \/ Commit(a) \/ Abort(a)

ChangeStatus(a) ==
    \/ \E yes \in BOOLEAN : UserAsks(a, yes) \/ SupportAsks(a, yes)
    \/ UserCancels(a) \/ TellRain(a) \/ WriteStatus(a) \/ WriteEvent(a)
    \/ \E s \in reported : CardUpdated(a, s)

Next ==
    \/ \E t \in Spends : Rain(t) \/ LeaseEnds(t)
    \/ \E s \in Unasked : RainChanges(s)
    \/ \E a \in Actors : Handle(a) \/ ChangeStatus(a)

Spec == Init /\ [][Next]_vars

-----------------------------------------------------------------------------
(* The two records of one payment tell the same story, whatever crosses:   *)
(* every handler writes both in one database transaction.                  *)
RowsAgree ==
    \A t \in Spends : Len(rows[t]) = 1 =>
        <<rows[t][1].status, main[t].status>> \in
            {<<"PENDING", "PENDING">>, <<"SUCCESSFUL", "COMPLETED">>, <<"DECLINED", "FAILED">>}

(* The payments that stand: the amount of every row that is not DECLINED.  *)
Stands ==
    [p \in {q \in UNION {{t} \X DOMAIN rows[t] : t \in Spends} :
                 rows[q[1]][q[2]].status # "DECLINED"} |-> rows[p[1]][p[2]].amount]

(* Events repeated, lost and reordered keep the books: both balances are   *)
(* the funds less the payments that stand and the fees, as long as no      *)
(* commit rests on a stale read and no raised authorization is debited.    *)
Books ==
    ~upset => /\ balance = Start - Fee * fees
                             - MapThenSumSet(LAMBDA p : Stands[p], DOMAIN Stands)
              /\ userBalance = balance

(* Only fees overdraw a card, however the handlers' reads and writes cross.*)
OnlyFeesOverdraw ==
    /\ balance >= -Fee * fees
    /\ userBalance >= -Fee * fees

(* The frozen flag that fits a status.  PENDING, CANCELED and INACTIVE may *)
(* have either: Rain's events of them leave the flag alone.                *)
Together(c) ==
    /\ c.status = "ACTIVE" => ~c.frozen
    /\ c.status = "BLOCKED" => c.frozen

(* Four parties write the status: the user, the support desk, the block    *)
(* after declines and Rain's events, each from a row it has read before.   *)
(* However these writes cross, an ACTIVE card is not frozen and a BLOCKED  *)
(* one is, unless an event, which writes only the columns it found         *)
(* different, has met a card that was changed since.                       *)
FreezeFollowsStatus == ~mixed => Together(card)
=============================================================================
