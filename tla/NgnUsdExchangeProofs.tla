------------------------ MODULE NgnUsdExchangeProofs ------------------------
(***************************************************************************)
(* Proofs about NgnUsdExchange, for any number of jobs, deliveries, rows,  *)
(* attempts and failing calls.  The arguments: the reference enters the    *)
(* ledger under the lock and once, whoever is about to send has entered    *)
(* it; the naira row, once ended, stays so, and only the agent that failed *)
(* it refunds; a note in escrow is struck only after a refund or a         *)
(* collection; a balance of the dollar wallet that is still the one read   *)
(* means that no row was completed since.                                  *)
(***************************************************************************)
EXTENDS NgnUsdExchange, FiniteSetTheorems, TLAPS

Failing == {"failRead", "failWrite", "failCommit", "readEscrow", "refund", "release"}
Collected == payIn \in {"complete", "settled"}

(* The places of each kind of agent, and the row it needs there.           *)
PlaceInv ==
    /\ \A j \in Jobs : pc[j] \in TryPoints \cup ThrowPoints \cup {"idle", "done"}
    /\ \A a \in Yc :
          pc[a] \in Failing \cup
             {"idle", "complete", "completeCommit", "settling", "markProcessing", "settled",
              "reconcile", "createRow", "readUsd", "commitUsd", "done"}
    /\ \A a \in Zh :
          pc[a] \in {"idle", "deposit", "placeholder", "readUsd", "commitUsd", "done"}
    /\ \A a \in Yc \cup Zh :
          pc[a] \in {"markProcessing", "reconcile", "readUsd", "commitUsd"} => row[a] \in Rows

(* The reference is entered by one job, the only one to send.              *)
LedgerInv ==
    /\ \A j \in Jobs :
          /\ pc[j] = "enter" => lock = j /\ ~entered
          /\ pc[j] = "post" =>
                entered /\ sent = 0 /\ \A k \in Jobs : pc[k] = "post" => k = j
    /\ ~entered => sent = 0
    /\ sent <= 1
    /\ bank \in {"processing", "paid"} \/ Collected => sent = 1

(* Who has the naira of the wallet in hand has debited it, or knows that   *)
(* they were collected.                                                    *)
DebitInv ==
    /\ sent <= debits
    /\ escrow \/ refunds > 0 => debits > 0
    /\ tx = "COMPLETED" => Collected
    /\ \A j \in Jobs : pc[j] \in {"moveToEscrow", "waitLock", "enter", "post"} => debits > 0
    /\ \A a \in Jobs \cup Yc : pc[a] = "refund" => debits > 0
    /\ \A a \in Yc : pc[a] \in {"complete", "completeCommit"} => Collected

(* Unless there was a race: whoever refunds has ended the row, alone.      *)
RefundInv ==
    ~raced =>
        /\ refunds <= 1
        /\ tx \notin Ended => refunds = 0
        /\ \A a \in Jobs \cup Yc : pc[a] \in {"readEscrow", "refund"} =>
              /\ tx \in Ended
              /\ refunds = 0
              /\ \A b \in Jobs \cup Yc : pc[b] \in {"readEscrow", "refund"} => b = a

(* Where debited naira are.                                                *)
EscrowInv ==
    /\ \A a \in Jobs \cup Yc : pc[a] = "release" => refunds > 0 \/ Collected
    /\ debits > 0 /\ ~lost =>
          \/ escrow \/ refunds > 0 \/ Collected
          \/ \E j \in Jobs : pc[j] = "moveToEscrow"

(* The dollar wallet follows its rows, and whoever has read the balance    *)
(* that is still there has a row that is not completed.                    *)
UsdInv ==
    /\ IsFiniteSet(Completed)
    /\ ~crossed =>
          /\ usd = Cardinality(Completed)
          /\ \A a \in Yc \cup Zh : pc[a] = "commitUsd" =>
                /\ seen[a] <= usd
                /\ seen[a] = usd => row[a] \notin Completed

Inv == TypeOK /\ PlaceInv /\ LedgerInv /\ DebitInv /\ RefundInv /\ EscrowInv /\ UsdInv

(* The steps of a job, of YellowCard's reports about the naira, and of the *)
(* handlers of dollars.                                                    *)
Collection(a) ==
    \/ \E e \in {"complete", "failed", "settling", "settled"} : YcReceive(a, e)
    \/ CollectionCompleted(a)

Dollars(a) ==
    \/ a \in Yc /\ (SettlementProcessing(a) \/ SettlementCompleted(a) \/ Reconcile(a))
    \/ a \in Zh /\ (ZhReceive(a) \/ Deposit(a) \/ ZhAgain(a))
    \/ ReadUsd(a) \/ CommitUsd(a) \/ WebhookFails(a)

USE DEF redis, naira, dollars, remote, counts, local, Agents, TryPoints, ThrowPoints, Failing,
        Ended

(* These are all the steps.                                                *)
LEMMA NextCases ==
  ASSUME Next
  PROVE  \/ \E j \in Jobs : Execute(j) \/ JobStep(j)
         \/ \E j \in Jobs, answer \in {"processing", "failed"} : DepositToBank(j, answer)
         \/ \E a \in Jobs \cup Yc : FailStep(a)
         \/ \E a \in Yc : Collection(a)
         \/ \E a \in Yc \cup Zh : Dollars(a)
         \/ BankSettles \/ PayInMoves
BY DEF Next, YcStep, Collection, Dollars

(* The handlers of dollars leave the naira alone.                          *)
LEMMA DollarFrame ==
  ASSUME TypeOK, NEW a \in Yc \cup Zh, Dollars(a)
  PROVE  /\ UNCHANGED <<redis, naira, remote, counts, attempt>>
         /\ \A b \in Agents : b # a => pc'[b] = pc[b]
         /\ pc'[a] \in {"idle", "markProcessing", "reconcile", "createRow", "deposit",
                        "placeholder", "readUsd", "commitUsd", "done"}
BY DEF TypeOK, Dollars, SettlementProcessing, SettlementCompleted, Reconcile, ZhReceive, Deposit,
       ZhAgain, ReadUsd, CommitUsd, WebhookFails, Moves, Goto

(* Nothing has been executed, so every part holds.                         *)
LEMMA InitInv == ASSUME Init PROVE Inv
<1> USE NgnUsdExchangeAssumption DEF Init
<1> /\ escrow \in BOOLEAN /\ entered \in BOOLEAN /\ crossed \in BOOLEAN
    /\ raced \in BOOLEAN /\ lost \in BOOLEAN
  OBVIOUS
<1>1. TypeOK
  BY DEF TypeOK, Points, Statuses
<1>2. PlaceInv /\ LedgerInv /\ DebitInv
  BY DEF PlaceInv, LedgerInv, DebitInv, Collected
<1>3. RefundInv /\ EscrowInv
  BY DEF RefundInv, EscrowInv
<1>4. Completed = {}
  BY DEF Completed
<1>5. IsFiniteSet({}) /\ Cardinality({}) = 0
  BY FS_EmptySet
<1>6. UsdInv
  BY <1>4, <1>5 DEF UsdInv
<1> QED
  BY <1>1, <1>2, <1>3, <1>6 DEF Inv

(* Flags stay flags.                                                       *)
LEMMA FlagsStep ==
  ASSUME TypeOK, Next
  PROVE  /\ escrow' \in BOOLEAN /\ entered' \in BOOLEAN /\ crossed' \in BOOLEAN
         /\ raced' \in BOOLEAN /\ lost' \in BOOLEAN /\ usdFwt' \in [Rows -> BOOLEAN]
<1> USE NextCases
    DEF TypeOK, JobStep, FailStep, Collection, Dollars, Execute, FindRows, CreateRows,
        AcceptPayIn, Deduct, MoveMoneyToEscrow, LookForEntry, EnterReference, LeaseEnds,
        CheckTransfer, Catch, JobFails, DepositToBank, FailRead, FailWrite, GetEscrowAmount,
        Refund, ReleaseMoneyFromEscrow, YcReceive, CollectionCompleted,
        SettlementProcessing, SettlementCompleted, Reconcile, NewRow, ZhReceive, Deposit,
        ZhAgain, ReadUsd, CommitUsd, WebhookFails, BankSettles, PayInMoves
<1>1. escrow' \in BOOLEAN /\ entered' \in BOOLEAN
  OBVIOUS
<1>2. raced' \in BOOLEAN /\ lost' \in BOOLEAN
  OBVIOUS
<1>3. crossed' \in BOOLEAN /\ usdFwt' \in [Rows -> BOOLEAN]
  OBVIOUS
<1> QED
  BY <1>1, <1>2, <1>3

(* Every step keeps the types.                                             *)
LEMMA TypesStep == ASSUME TypeOK, PlaceInv, Next PROVE TypeOK'
<1> USE NgnUsdExchangeAssumption, FlagsStep DEF TypeOK, Points, Statuses, Moves, Goto, Unlocked
<1>1. ASSUME NEW j \in Jobs, Execute(j) \/ FindRows(j)
      PROVE  TypeOK'
  BY <1>1 DEF Execute, FindRows
<1>2. ASSUME NEW j \in Jobs, CreateRows(j)
      PROVE  TypeOK'
  BY <1>2 DEF CreateRows, RunAgain
<1>3. ASSUME NEW j \in Jobs, AcceptPayIn(j) \/ Deduct(j)
      PROVE  TypeOK'
  BY <1>3 DEF AcceptPayIn, Deduct
<1>4. ASSUME NEW j \in Jobs, MoveMoneyToEscrow(j)
      PROVE  TypeOK'
  BY <1>4 DEF MoveMoneyToEscrow
<1>5. ASSUME NEW j \in Jobs, LookForEntry(j) \/ EnterReference(j)
      PROVE  TypeOK'
  BY <1>5 DEF LookForEntry, EnterReference
<1>6. ASSUME NEW j \in Jobs, LeaseEnds(j) \/ CheckTransfer(j) \/ Catch(j)
      PROVE  TypeOK'
  BY <1>6 DEF LeaseEnds, CheckTransfer, Catch
<1>7. ASSUME NEW j \in Jobs, JobFails(j)
      PROVE  TypeOK'
  BY <1>7 DEF JobFails, RunAgain
<1>8. ASSUME NEW j \in Jobs, NEW answer \in {"processing", "failed"}, DepositToBank(j, answer)
      PROVE  TypeOK'
  BY <1>8 DEF DepositToBank, Unlocked
<1>9. ASSUME NEW a \in Jobs \cup Yc, FailRead(a) \/ FailWrite(a)
      PROVE  TypeOK'
  BY <1>9 DEF FailRead, FailWrite, Leave, RunAgain
<1>10. ASSUME NEW a \in Jobs \cup Yc, GetEscrowAmount(a)
      PROVE  TypeOK'
  BY <1>10 DEF GetEscrowAmount, Leave, RunAgain
<1>11. ASSUME NEW a \in Jobs \cup Yc, Refund(a) \/ ReleaseMoneyFromEscrow(a)
      PROVE  TypeOK'
  BY <1>11 DEF Refund, ReleaseMoneyFromEscrow, Leave, RunAgain
<1>12. ASSUME NEW a \in Yc, Collection(a) PROVE TypeOK'
  BY <1>12 DEF Collection, YcReceive, CollectionCompleted
<1>13. ASSUME NEW a \in Yc \cup Zh, Dollars(a) PROVE TypeOK'
  <2>1. CASE SettlementProcessing(a)
    BY <1>13, <2>1 DEF SettlementProcessing, PlaceInv
  <2>2. CASE SettlementCompleted(a)
    BY <1>13, <2>2 DEF SettlementCompleted, NewRow
  <2>3. CASE Reconcile(a)
    BY <1>13, <2>3 DEF Reconcile
  <2>4. CASE a \in Zh /\ (ZhReceive(a) \/ ZhAgain(a))
    BY <1>13, <2>4 DEF ZhReceive, ZhAgain
  <2>5. CASE a \in Zh /\ Deposit(a)
    BY <1>13, <2>5 DEF Deposit, NewRow
  <2>6. CASE ReadUsd(a) \/ CommitUsd(a) \/ WebhookFails(a)
    BY <1>13, <2>6 DEF ReadUsd, CommitUsd, WebhookFails
  <2> QED
    BY <1>13, <2>1, <2>2, <2>3, <2>4, <2>5, <2>6 DEF Dollars
<1>14. CASE BankSettles \/ PayInMoves
  BY <1>14 DEF BankSettles, PayInMoves
<1> HIDE DEF TypeOK
<1> QED
  BY <1>1, <1>2, <1>3, <1>4, <1>5, <1>6, <1>7, <1>8, <1>9, <1>10, <1>11, <1>12, <1>13,
     <1>14, NextCases DEF JobStep, FailStep

(* Every kind of agent keeps to its places.                                *)
LEMMA PlaceStep == ASSUME TypeOK, PlaceInv, Next PROVE PlaceInv'
<1> USE NgnUsdExchangeAssumption DEF TypeOK, PlaceInv, Moves, Goto
<1>1. ASSUME NEW j \in Jobs, Execute(j) \/ FindRows(j) \/ CreateRows(j)
      PROVE  PlaceInv'
  BY <1>1 DEF Execute, FindRows, CreateRows, RunAgain
<1>2. ASSUME NEW j \in Jobs, AcceptPayIn(j) \/ Deduct(j)
      PROVE  PlaceInv'
  BY <1>2 DEF AcceptPayIn, Deduct
<1>3. ASSUME NEW j \in Jobs, MoveMoneyToEscrow(j)
      PROVE  PlaceInv'
  BY <1>3 DEF MoveMoneyToEscrow
<1>4. ASSUME NEW j \in Jobs, LookForEntry(j) \/ EnterReference(j)
      PROVE  PlaceInv'
  BY <1>4 DEF LookForEntry, EnterReference
<1>5. ASSUME NEW j \in Jobs, LeaseEnds(j) \/ CheckTransfer(j) \/ Catch(j)
      PROVE  PlaceInv'
  BY <1>5 DEF LeaseEnds, CheckTransfer, Catch
<1>6. ASSUME NEW j \in Jobs, JobFails(j)
      PROVE  PlaceInv'
  BY <1>6 DEF JobFails, RunAgain
<1>7. ASSUME NEW j \in Jobs, NEW answer \in {"processing", "failed"}, DepositToBank(j, answer)
      PROVE  PlaceInv'
  BY <1>7 DEF DepositToBank, Unlocked
<1>8. ASSUME NEW a \in Jobs \cup Yc, FailRead(a) \/ FailWrite(a)
      PROVE  PlaceInv'
  BY <1>8 DEF FailRead, FailWrite, Leave, RunAgain
<1>9. ASSUME NEW a \in Jobs \cup Yc, GetEscrowAmount(a)
      PROVE  PlaceInv'
  BY <1>9 DEF GetEscrowAmount, Leave, RunAgain
<1>10. ASSUME NEW a \in Jobs \cup Yc, Refund(a) \/ ReleaseMoneyFromEscrow(a)
      PROVE  PlaceInv'
  BY <1>10 DEF Refund, ReleaseMoneyFromEscrow, Leave, RunAgain
<1>11. ASSUME NEW a \in Yc, Collection(a) PROVE PlaceInv'
  BY <1>11 DEF Collection, YcReceive, CollectionCompleted
<1>12. ASSUME NEW a \in Yc \cup Zh, Dollars(a) PROVE PlaceInv'
  <2>1. CASE a \in Yc /\ SettlementProcessing(a)
    BY <2>1 DEF SettlementProcessing
  <2>2. CASE a \in Yc /\ (SettlementCompleted(a) \/ Reconcile(a))
    BY <2>2 DEF SettlementCompleted, Reconcile
  <2>3. CASE a \in Zh /\ Deposit(a)
    BY <2>3 DEF Deposit
  <2>4. CASE a \in Zh /\ (ZhReceive(a) \/ ZhAgain(a))
    BY <2>4 DEF ZhReceive, ZhAgain
  <2>5. CASE ReadUsd(a) \/ CommitUsd(a) \/ WebhookFails(a)
    BY <2>5 DEF ReadUsd, CommitUsd, WebhookFails
  <2> QED
    BY <1>12, <2>1, <2>2, <2>3, <2>4, <2>5 DEF Dollars
<1>13. CASE BankSettles \/ PayInMoves
  BY <1>13 DEF BankSettles, PayInMoves
<1> HIDE DEF PlaceInv, TypeOK
<1> QED
  BY <1>1, <1>2, <1>3, <1>4, <1>5, <1>6, <1>7, <1>8, <1>9, <1>10, <1>11, <1>12, <1>13,
     NextCases DEF JobStep, FailStep

(* The ledger is asked and entered under the lock, so by one job.          *)
LEMMA LedgerStep == ASSUME TypeOK, PlaceInv, LedgerInv, Next PROVE LedgerInv'
<1> USE NgnUsdExchangeAssumption
    DEF TypeOK, PlaceInv, LedgerInv, Collected, Moves, Goto, Unlocked
<1>1. ASSUME NEW j \in Jobs, Execute(j) \/ FindRows(j) \/ CreateRows(j)
      PROVE  LedgerInv'
  BY <1>1 DEF Execute, FindRows, CreateRows, RunAgain
<1>2. ASSUME NEW j \in Jobs, AcceptPayIn(j) \/ Deduct(j)
      PROVE  LedgerInv'
  BY <1>2 DEF AcceptPayIn, Deduct
<1>3. ASSUME NEW j \in Jobs, MoveMoneyToEscrow(j)
      PROVE  LedgerInv'
  BY <1>3 DEF MoveMoneyToEscrow
<1>4. ASSUME NEW j \in Jobs, LookForEntry(j) \/ EnterReference(j)
      PROVE  LedgerInv'
  BY <1>4 DEF LookForEntry, EnterReference
<1>5. ASSUME NEW j \in Jobs, LeaseEnds(j) \/ CheckTransfer(j) \/ Catch(j)
      PROVE  LedgerInv'
  BY <1>5 DEF LeaseEnds, CheckTransfer, Catch
<1>6. ASSUME NEW j \in Jobs, JobFails(j)
      PROVE  LedgerInv'
  BY <1>6 DEF JobFails, RunAgain
<1>7. ASSUME NEW j \in Jobs, NEW answer \in {"processing", "failed"}, DepositToBank(j, answer)
      PROVE  LedgerInv'
  BY <1>7 DEF DepositToBank, Unlocked
<1>8. ASSUME NEW a \in Jobs \cup Yc, FailRead(a) \/ FailWrite(a)
      PROVE  LedgerInv'
  BY <1>8 DEF FailRead, FailWrite, Leave, RunAgain
<1>9. ASSUME NEW a \in Jobs \cup Yc, GetEscrowAmount(a)
      PROVE  LedgerInv'
  BY <1>9 DEF GetEscrowAmount, Leave, RunAgain
<1>10. ASSUME NEW a \in Jobs \cup Yc, Refund(a) \/ ReleaseMoneyFromEscrow(a)
      PROVE  LedgerInv'
  BY <1>10 DEF Refund, ReleaseMoneyFromEscrow, Leave, RunAgain
<1>11. ASSUME NEW a \in Yc, Collection(a) PROVE LedgerInv'
  BY <1>11 DEF Collection, YcReceive, CollectionCompleted
<1>12. ASSUME NEW a \in Yc \cup Zh, Dollars(a) PROVE LedgerInv'
  BY <1>12, DollarFrame
<1>13. CASE BankSettles \/ PayInMoves
  BY <1>13 DEF BankSettles, PayInMoves
<1> HIDE DEF LedgerInv, PlaceInv, TypeOK
<1> QED
  BY <1>1, <1>2, <1>3, <1>4, <1>5, <1>6, <1>7, <1>8, <1>9, <1>10, <1>11, <1>12, <1>13,
     NextCases DEF JobStep, FailStep

(* Nothing is sent, noted or refunded before the debit.                    *)
LEMMA DebitStep ==
  ASSUME TypeOK, PlaceInv, LedgerInv, DebitInv, Next
  PROVE  DebitInv'
<1> USE NgnUsdExchangeAssumption
    DEF TypeOK, PlaceInv, LedgerInv, DebitInv, Collected, Moves, Goto
<1>1. ASSUME NEW j \in Jobs, Execute(j) \/ FindRows(j) \/ CreateRows(j)
      PROVE  DebitInv'
  BY <1>1 DEF Execute, FindRows, CreateRows, RunAgain
<1>2. ASSUME NEW j \in Jobs, AcceptPayIn(j) \/ Deduct(j)
      PROVE  DebitInv'
  BY <1>2 DEF AcceptPayIn, Deduct
<1>3. ASSUME NEW j \in Jobs, MoveMoneyToEscrow(j)
      PROVE  DebitInv'
  BY <1>3 DEF MoveMoneyToEscrow
<1>4. ASSUME NEW j \in Jobs, LookForEntry(j) \/ EnterReference(j)
      PROVE  DebitInv'
  BY <1>4 DEF LookForEntry, EnterReference
<1>5. ASSUME NEW j \in Jobs, LeaseEnds(j) \/ CheckTransfer(j) \/ Catch(j)
      PROVE  DebitInv'
  BY <1>5 DEF LeaseEnds, CheckTransfer, Catch
<1>6. ASSUME NEW j \in Jobs, JobFails(j)
      PROVE  DebitInv'
  BY <1>6 DEF JobFails, RunAgain
<1>7. ASSUME NEW j \in Jobs, NEW answer \in {"processing", "failed"}, DepositToBank(j, answer)
      PROVE  DebitInv'
  BY <1>7 DEF DepositToBank, Unlocked
<1>8. ASSUME NEW a \in Jobs \cup Yc, FailRead(a) \/ FailWrite(a)
      PROVE  DebitInv'
  BY <1>8 DEF FailRead, FailWrite, Leave, RunAgain
<1>9. ASSUME NEW a \in Jobs \cup Yc, GetEscrowAmount(a)
      PROVE  DebitInv'
  BY <1>9 DEF GetEscrowAmount, Leave, RunAgain
<1>10. ASSUME NEW a \in Jobs \cup Yc, Refund(a) \/ ReleaseMoneyFromEscrow(a)
      PROVE  DebitInv'
  BY <1>10 DEF Refund, ReleaseMoneyFromEscrow, Leave, RunAgain
<1>11. ASSUME NEW a \in Yc, Collection(a) PROVE DebitInv'
  BY <1>11 DEF Collection, YcReceive, CollectionCompleted
<1>12. ASSUME NEW a \in Yc \cup Zh, Dollars(a) PROVE DebitInv'
  BY <1>12, DollarFrame
<1>13. CASE BankSettles \/ PayInMoves
  BY <1>13 DEF BankSettles, PayInMoves
<1> HIDE DEF DebitInv, LedgerInv, PlaceInv, TypeOK
<1> QED
  BY <1>1, <1>2, <1>3, <1>4, <1>5, <1>6, <1>7, <1>8, <1>9, <1>10, <1>11, <1>12, <1>13,
     NextCases DEF JobStep, FailStep

(* The first to fail the row ends it, and the others see that it is ended. *)
LEMMA RefundStep == ASSUME TypeOK, PlaceInv, RefundInv, Next PROVE RefundInv'
<1> USE NgnUsdExchangeAssumption DEF TypeOK, PlaceInv, RefundInv, Moves, Goto
<1>1. ASSUME NEW j \in Jobs, Execute(j) \/ FindRows(j) \/ CreateRows(j)
      PROVE  RefundInv'
  BY <1>1 DEF Execute, FindRows, CreateRows, RunAgain
<1>2. ASSUME NEW j \in Jobs, AcceptPayIn(j) \/ Deduct(j)
      PROVE  RefundInv'
  BY <1>2 DEF AcceptPayIn, Deduct
<1>3. ASSUME NEW j \in Jobs, MoveMoneyToEscrow(j)
      PROVE  RefundInv'
  BY <1>3 DEF MoveMoneyToEscrow
<1>4. ASSUME NEW j \in Jobs, LookForEntry(j) \/ EnterReference(j)
      PROVE  RefundInv'
  BY <1>4 DEF LookForEntry, EnterReference
<1>5. ASSUME NEW j \in Jobs, LeaseEnds(j) \/ CheckTransfer(j) \/ Catch(j)
      PROVE  RefundInv'
  BY <1>5 DEF LeaseEnds, CheckTransfer, Catch
<1>6. ASSUME NEW j \in Jobs, JobFails(j)
      PROVE  RefundInv'
  BY <1>6 DEF JobFails, RunAgain
<1>7. ASSUME NEW j \in Jobs, NEW answer \in {"processing", "failed"}, DepositToBank(j, answer)
      PROVE  RefundInv'
  BY <1>7 DEF DepositToBank, Unlocked
<1>8. ASSUME NEW a \in Jobs \cup Yc, FailRead(a)
      PROVE  RefundInv'
  BY <1>8 DEF FailRead, Leave, RunAgain
<1>9. ASSUME NEW a \in Jobs \cup Yc, FailWrite(a)
      PROVE  RefundInv'
  BY <1>9 DEF FailWrite, Leave, RunAgain
<1>10. ASSUME NEW a \in Jobs \cup Yc, GetEscrowAmount(a)
      PROVE  RefundInv'
  BY <1>10 DEF GetEscrowAmount, Leave, RunAgain
<1>11. ASSUME NEW a \in Jobs \cup Yc, Refund(a) \/ ReleaseMoneyFromEscrow(a)
      PROVE  RefundInv'
  BY <1>11 DEF Refund, ReleaseMoneyFromEscrow, Leave, RunAgain
<1>12. ASSUME NEW a \in Yc, Collection(a) PROVE RefundInv'
  BY <1>12 DEF Collection, YcReceive, CollectionCompleted
<1>13. ASSUME NEW a \in Yc \cup Zh, Dollars(a) PROVE RefundInv'
  BY <1>13, DollarFrame
<1>14. CASE BankSettles \/ PayInMoves
  BY <1>14 DEF BankSettles, PayInMoves
<1> HIDE DEF RefundInv, PlaceInv, TypeOK
<1> QED
  BY <1>1, <1>2, <1>3, <1>4, <1>5, <1>6, <1>7, <1>8, <1>9, <1>10, <1>11, <1>12, <1>13,
     <1>14, NextCases DEF JobStep, FailStep

(* The note in escrow follows the debit, and is struck after a refund or a *)
(* collection.                                                             *)
LEMMA EscrowStep ==
  ASSUME TypeOK, PlaceInv, DebitInv, EscrowInv, Next
  PROVE  EscrowInv'
<1> USE NgnUsdExchangeAssumption
    DEF TypeOK, PlaceInv, DebitInv, EscrowInv, Collected, Moves, Goto
<1>1. ASSUME NEW j \in Jobs, Execute(j) \/ FindRows(j) \/ CreateRows(j)
      PROVE  EscrowInv'
  BY <1>1 DEF Execute, FindRows, CreateRows, RunAgain
<1>2. ASSUME NEW j \in Jobs, AcceptPayIn(j) \/ Deduct(j)
      PROVE  EscrowInv'
  BY <1>2 DEF AcceptPayIn, Deduct
<1>3. ASSUME NEW j \in Jobs, MoveMoneyToEscrow(j)
      PROVE  EscrowInv'
  BY <1>3 DEF MoveMoneyToEscrow
<1>4. ASSUME NEW j \in Jobs, LookForEntry(j) \/ EnterReference(j)
      PROVE  EscrowInv'
  BY <1>4 DEF LookForEntry, EnterReference
<1>5. ASSUME NEW j \in Jobs, LeaseEnds(j) \/ CheckTransfer(j) \/ Catch(j)
      PROVE  EscrowInv'
  BY <1>5 DEF LeaseEnds, CheckTransfer, Catch
<1>6. ASSUME NEW j \in Jobs, JobFails(j)
      PROVE  EscrowInv'
  <2>1. \A b \in Agents : b # j => pc'[b] = pc[b]
    BY <1>6 DEF JobFails, RunAgain
  <2>2. pc'[j] \in {"catch", "find", "done"} /\ (pc[j] = "moveToEscrow" => lost')
    BY <1>6 DEF JobFails, RunAgain
  <2>3. UNCHANGED <<escrow, payIn, debits, refunds>> /\ (lost => lost')
    BY <1>6 DEF JobFails
  <2> QED
    BY <2>1, <2>2, <2>3
<1>7. ASSUME NEW j \in Jobs, NEW answer \in {"processing", "failed"}, DepositToBank(j, answer)
      PROVE  EscrowInv'
  BY <1>7 DEF DepositToBank, Unlocked
<1>8. ASSUME NEW a \in Jobs \cup Yc, FailRead(a) \/ FailWrite(a)
      PROVE  EscrowInv'
  BY <1>8 DEF FailRead, FailWrite, Leave, RunAgain
<1>9. ASSUME NEW a \in Jobs \cup Yc, GetEscrowAmount(a)
      PROVE  EscrowInv'
  BY <1>9 DEF GetEscrowAmount, Leave, RunAgain
<1>10. ASSUME NEW a \in Jobs \cup Yc, Refund(a) \/ ReleaseMoneyFromEscrow(a)
      PROVE  EscrowInv'
  BY <1>10 DEF Refund, ReleaseMoneyFromEscrow, Leave, RunAgain
<1>11. ASSUME NEW a \in Yc, Collection(a) PROVE EscrowInv'
  BY <1>11 DEF Collection, YcReceive, CollectionCompleted
<1>12. ASSUME NEW a \in Yc \cup Zh, Dollars(a) PROVE EscrowInv'
  BY <1>12, DollarFrame
<1>13. CASE BankSettles \/ PayInMoves
  BY <1>13 DEF BankSettles, PayInMoves
<1> HIDE DEF EscrowInv, DebitInv, PlaceInv, TypeOK
<1> QED
  BY <1>1, <1>2, <1>3, <1>4, <1>5, <1>6, <1>7, <1>8, <1>9, <1>10, <1>11, <1>12, <1>13,
     NextCases DEF JobStep, FailStep

(* The other steps leave the dollars alone.                                *)
LEMMA NairaFrame ==
  ASSUME TypeOK, Next, \A a \in Yc \cup Zh : ~Dollars(a)
  PROVE  /\ UNCHANGED <<dollars, row, seen>>
         /\ \A a \in Yc \cup Zh : pc'[a] = "commitUsd" => pc[a] = "commitUsd"
<1> USE NextCases
    DEF TypeOK, JobStep, FailStep, Collection, Execute, FindRows, CreateRows, AcceptPayIn,
        Deduct, MoveMoneyToEscrow, LookForEntry, EnterReference, LeaseEnds, CheckTransfer,
        Catch, JobFails, DepositToBank, FailRead, FailWrite, GetEscrowAmount, Refund,
        ReleaseMoneyFromEscrow, Leave, RunAgain, YcReceive, CollectionCompleted,
        BankSettles, PayInMoves, Moves, Goto
<1>1. UNCHANGED <<dollars, row, seen>>
  OBVIOUS
<1> DEFINE Stays == \A a \in Yc \cup Zh : pc'[a] = "commitUsd" => pc[a] = "commitUsd"
<1>2. Stays
  <2>1. ASSUME NEW j \in Jobs, Execute(j) \/ JobStep(j) PROVE Stays
    BY <2>1
  <2>2. ASSUME NEW j \in Jobs, NEW answer \in {"processing", "failed"},
               DepositToBank(j, answer)
        PROVE  Stays
    BY <2>2
  <2>3. ASSUME NEW a \in Jobs \cup Yc, FailStep(a) PROVE Stays
    BY <2>3
  <2>4. ASSUME NEW a \in Yc, Collection(a) PROVE Stays
    BY <2>4
  <2>5. CASE BankSettles \/ PayInMoves
    BY <2>5
  <2> QED
    BY <2>1, <2>2, <2>3, <2>4, <2>5, NextCases
<1> QED
  BY <1>1, <1>2

(* A completion counts its row once: a wallet as it was read means that no *)
(* row was completed since.                                                *)
LEMMA UsdStep == ASSUME TypeOK, PlaceInv, UsdInv, Next PROVE UsdInv'
<1> USE NgnUsdExchangeAssumption DEF TypeOK, PlaceInv, UsdInv, Moves, Goto
<1>1. CASE \A a \in Yc \cup Zh : ~Dollars(a)
  <2>1. Completed' = Completed
    BY <1>1, NairaFrame DEF Completed
  <2> QED
    BY <1>1, <2>1, NairaFrame
<1>2. ASSUME NEW a \in Yc \cup Zh, CommitUsd(a) PROVE UsdInv'
  <2>1. Completed' = Completed \cup {row[a]} /\ row[a] \in Rows
    BY <1>2 DEF CommitUsd, Completed
  <2>2. /\ IsFiniteSet(Completed')
        /\ row[a] \notin Completed => Cardinality(Completed') = Cardinality(Completed) + 1
        /\ Cardinality(Completed) \in Nat
    BY <2>1, FS_AddElement, FS_CardinalityType
  <2>3. ~crossed' => ~crossed /\ usd' = usd + 1 /\ row[a] \notin Completed
    BY <1>2 DEF CommitUsd
  <2>4. \A b \in Yc \cup Zh : pc'[b] = "commitUsd" =>
           b # a /\ pc[b] = "commitUsd" /\ UNCHANGED <<seen[b], row[b]>>
    BY <1>2 DEF CommitUsd
  <2> QED
    BY <2>2, <2>3, <2>4
<1>3. ASSUME NEW a \in Yc \cup Zh, Dollars(a), ~CommitUsd(a) PROVE UsdInv'
  <2>1. /\ UNCHANGED usd
        /\ \A r \in Rows : usdTx'[r] = "COMPLETED" => usdTx[r] = "COMPLETED"
        /\ ~crossed' =>
              ~crossed /\ \A r \in Rows : usdTx[r] = "COMPLETED" => usdTx'[r] = "COMPLETED"
    <3>1. CASE SettlementProcessing(a)
      BY <3>1 DEF SettlementProcessing
    <3>2. CASE SettlementCompleted(a)
      BY <3>2 DEF SettlementCompleted, NewRow
    <3>3. CASE Reconcile(a)
      BY <3>3 DEF Reconcile
    <3>4. CASE Deposit(a)
      BY <3>4 DEF Deposit, NewRow
    <3>5. CASE ZhReceive(a) \/ ZhAgain(a)
      BY <3>5 DEF ZhReceive, ZhAgain
    <3>6. CASE ReadUsd(a) \/ WebhookFails(a)
      BY <3>6 DEF ReadUsd, WebhookFails
    <3> QED
      BY <1>3, <3>1, <3>2, <3>3, <3>4, <3>5, <3>6 DEF Dollars
  <2>2. Completed' \subseteq Completed /\ (~crossed' => Completed' = Completed)
    BY <2>1 DEF Completed
  <2>3. IsFiniteSet(Completed')
    BY <2>2, FS_Subset
  <2>4. \A b \in Yc \cup Zh : pc'[b] = "commitUsd" =>
           \/ pc[b] = "commitUsd" /\ UNCHANGED <<seen[b], row[b]>>
           \/ seen'[b] = usd /\ row'[b] \notin Completed
    <3>1. CASE SettlementProcessing(a)
      BY <3>1 DEF SettlementProcessing, Completed
    <3>2. CASE SettlementCompleted(a)
      BY <3>2 DEF SettlementCompleted, Completed
    <3>3. CASE Reconcile(a)
      BY <3>3 DEF Reconcile, Completed
    <3>4. CASE Deposit(a)
      BY <3>4 DEF Deposit, Completed
    <3>5. CASE ZhReceive(a) \/ ZhAgain(a)
      BY <3>5 DEF ZhReceive, ZhAgain, Completed
    <3>6. CASE ReadUsd(a) \/ WebhookFails(a)
      BY <3>6 DEF ReadUsd, WebhookFails, Completed
    <3> QED
      BY <1>3, <3>1, <3>2, <3>3, <3>4, <3>5, <3>6 DEF Dollars
  <2> QED
    BY <2>1, <2>2, <2>3, <2>4
<1> QED
  BY <1>1, <1>2, <1>3

(* The invariant is one of the specification.                              *)
THEOREM Invariance == Spec => []Inv
<1>1. ASSUME Inv, [Next]_vars PROVE Inv'
  <2>1. CASE Next
    BY <1>1, <2>1, TypesStep, PlaceStep, LedgerStep, DebitStep, RefundStep, EscrowStep, UsdStep
       DEF Inv
  <2>2. CASE UNCHANGED vars
    BY <1>1, <2>2
       DEF Inv, vars, TypeOK, PlaceInv, LedgerInv, DebitInv, RefundInv, EscrowInv, UsdInv,
           Collected, Completed
  <2> QED
    BY <1>1, <2>1, <2>2
<1> QED
  BY InitInv, <1>1, PTL DEF Spec

(* Every reachable state is of the types.                                  *)
THEOREM TypeCorrect == Spec => []TypeOK
BY Invariance, PTL DEF Inv

(* Paga sends the naira at most once and never before they were debited    *)
(* (deductFundsFromUser, transferToOtherBank).                             *)
THEOREM SentOnce == Spec => []NgnSentOnce
<1>1. Inv => NgnSentOnce
  BY DEF Inv, LedgerInv, DebitInv, NgnSentOnce
<1> QED
  BY Invariance, <1>1, PTL

(* The naira go back to the wallet at most once and only if they were      *)
(* debited (updateSourceTransactionsToFailed), unless two callers raced.   *)
THEOREM RefundedOnce == Spec => []NgnRefundedOnce
<1>1. Inv => NgnRefundedOnce
  BY DEF Inv, TypeOK, DebitInv, RefundInv, NgnRefundedOnce
<1> QED
  BY Invariance, <1>1, PTL

(* Debited naira are on record when nothing runs: in escrow, refunded or   *)
(* collected (moveMoneyToEscrow, releaseMoneyFromEscrow).                  *)
THEOREM Accounted == Spec => []NgnAccounted
<1>1. Inv => NgnAccounted
  BY DEF Inv, EscrowInv, Collected, NgnAccounted, AtRest
<1> QED
  BY Invariance, <1>1, PTL

(* The dollar wallet holds one credit for each completed row               *)
(* (completeExchangeTransaction), unless two handlers overlapped.          *)
THEOREM UsdCorrect == Spec => []UsdFollowsRows
<1>1. Inv => UsdFollowsRows
  BY DEF Inv, UsdInv, UsdFollowsRows
<1> QED
  BY Invariance, <1>1, PTL
=============================================================================
