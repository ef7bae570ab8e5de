------------------------ MODULE UsdNgnExchangeProofs ------------------------
(***************************************************************************)
(* Proofs about UsdNgnExchange, for any number of deliveries, retries,     *)
(* attempts and failing calls.  The argument: whoever has looked at the    *)
(* parent under W still holds W until it has recorded what it did, since   *)
(* the lease of W ends only afterwards, so at most one agent is between    *)
(* looking and recording; nobody looks at a parent that the job has not    *)
(* linked; and what the job writes after that is never COMPLETED, so it    *)
(* can spoil a record, which is noted, but not make one.                   *)
(***************************************************************************)
EXTENDS UsdNgnExchange, TLAPS

Recording == {"completeTx", "completeFwt"}

(* Between looking at the parent under W and the last write to it.         *)
Holding == DebitPoints \cup {"look", "pendTx", "pendFwt", "recheck"}

(* The places of each kind of agent.                                       *)
PlaceInv ==
    /\ \A a \in Zh : pc[a] \in DebitPoints \cup ChildPoints \cup
          {"idle", "waitW", "look", "pendTx", "pendFwt", "waitX", "freeX", "freeW", "done"}
    /\ \A a \in Yc \cup Pg : pc[a] \in DebitPoints \cup ChildPoints \cup
          {"idle", "waitX", "check", "waitW", "recheck", "freeW", "fetch", "reconcile",
           "find", "freeX", "done"} \cup
          (IF a \in Yc THEN {"failFind", "failWrite", "end", "markChild"}
                       ELSE {"ledger", "commit", "create"})
    /\ \A r \in Retries : pc[r] \in
          {"idle", "retryRead", "retryWrite", "retryCreate", "setReference", "done"}

(* Who holds the locks, by its place.                                      *)
LockInv ==
    \A a \in Deliveries :
        /\ pc[a] \in Holding => lockW = a
        /\ UnderX(a) => lockX = a

(* Before the parent is linked nobody has got as far as to debit or to     *)
(* complete.                                                               *)
LinkInv ==
    /\ linked => request = "committed"
    /\ ptx = "COMPLETED" \/ pfwt = "COMPLETED" => linked
    /\ \A a \in Deliveries :
          \/ pc[a] \in Holding \ {"look"}
          \/ a \notin Zh /\ pc[a] = "waitW"
          => linked

(* What was seen of the parent under W is still so.                        *)
ParentInv ==
    \A a \in Deliveries : pc[a] \in Holding \ {"look", "recheck"} => pfwt # "COMPLETED"

(* Each debit is on record, or about to be.                                *)
DebitInv ==
    ~tainted /\ ~reopened =>
        debits = IF pfwt = "COMPLETED" \/ \E a \in Deliveries : pc[a] \in Recording
                 THEN 1 ELSE 0

Expected == InitialBalance - debits * Amount

(* The books, and what a debit has read of the wallet.                     *)
BooksInv ==
    ~crossed =>
        /\ usd = Expected
        /\ \A a \in Deliveries : pc[a] = "writeWallet" => seen[a] = usd

(* Whoever is about to credit a payout is the first.                       *)
CreditInv ==
    /\ \A p \in Payouts : credits[p] <= 1
    /\ \A a \in Pg : pc[a] = "commit" => credits[about[a]] = 0

Inv == /\ TypeOK /\ PlaceInv /\ LockInv /\ LinkInv /\ ParentInv
       /\ DebitInv /\ BooksInv /\ CreditInv

(* A step of the request, the job or a provider, and one of a retry.       *)
Background ==
    \/ Exchange \/ CommitRows \/ RollBack \/ JobStep \/ Approve \/ Confirm
    \/ \E p \in Payouts, s \in {"complete", "failed", "expired", "cancelled"} : EndPayout(p, s)

RetryAction(r) == Retry(r) \/ RetryStep(r)

(* A delivery starts, or goes on.                                          *)
Receive(a) ==
    \/ a \in Zh /\ \E k \in {"pending", "confirmed"} : ZhReceive(a, k)
    \/ a \in Yc /\ \E p \in Payouts : YcReceive(a, p)
    \/ a \in Pg /\ \E p \in Payouts : PgReceive(a, p)

GoesOn(a) == Step(a) \/ LeaseEnds(a) \/ Fails(a)

USE DEF parent, remote, wallet, jobVars, locks, local, rest, Deliveries, Agents, Payouts,
        DebitPoints, ChildPoints, Recording, Holding

(* The four kinds of steps are all of them.                                *)
LEMMA NextCases ==
  ASSUME Next
  PROVE  \/ Background
         \/ \E a \in Deliveries : Receive(a) \/ GoesOn(a)
         \/ \E r \in Retries : RetryAction(r)
BY DEF Next, Background, Receive, GoesOn, RetryAction

(* What the background leaves alone, and what it may do to the parent: it  *)
(* completes no row, and takes a completion back only by an update of the  *)
(* job, which is noted.                                                    *)
LEMMA BackgroundFrame ==
  ASSUME Background, TypeOK, LinkInv
  PROVE  /\ UNCHANGED <<pc, lockW, lockX, local, wallet, tainted, credits, child>>
         /\ linked => linked'
         /\ linked' => request' = "committed"
         /\ ptx' = ptx \/ ptx' # "COMPLETED"
         /\ pfwt' = pfwt \/ pfwt' # "COMPLETED"
         /\ reopened' = FALSE => reopened = FALSE /\ (pfwt = "COMPLETED" => pfwt' = "COMPLETED")
         /\ ptx = "COMPLETED" /\ ptx' # ptx =>
               jobPc \in {"updateTx", "failTx"} /\ jobPc' # jobPc
         /\ pfwt = "COMPLETED" /\ pfwt' # pfwt =>
               jobPc \in {"updateFwt", "failFwt"} /\ jobPc' # jobPc
<1> USE DEF TypeOK, LinkInv, JobGoto
<1>1. CASE Exchange \/ CommitRows \/ RollBack
  BY <1>1 DEF Exchange, CommitRows, RollBack
<1>2. CASE JobPayOut \/ JobWithdraw \/ JobEnds \/ JobThrows \/ JobStalls
  BY <1>2 DEF JobPayOut, JobWithdraw, JobEnds, JobThrows, JobStalls
<1>3. CASE JobUpdateTx
  BY <1>3 DEF JobUpdateTx
<1>4. CASE JobUpdateFwt
  BY <1>4 DEF JobUpdateFwt, JobWritesFwt
<1>5. CASE JobFails
  BY <1>5 DEF JobFails, JobWritesFwt, JobRetried
<1>6. CASE Approve \/ Confirm
  BY <1>6 DEF Approve, Confirm
<1>7. ASSUME NEW p \in Payouts, NEW s \in {"complete", "failed", "expired", "cancelled"},
             EndPayout(p, s)
      PROVE  UNCHANGED <<parent, jobVars, pc, lockW, lockX, local, wallet, rest, credits, child>>
  BY <1>7 DEF EndPayout
<1> QED
  BY <1>1, <1>2, <1>3, <1>4, <1>5, <1>6, <1>7 DEF Background, JobStep

(* What a retry leaves alone.                                              *)
LEMMA RetryFrame ==
  ASSUME NEW r \in Retries, RetryAction(r), TypeOK
  PROVE  /\ UNCHANGED <<ptx, pfwt, linked, jobVars, lockW, lockX, wallet, tainted, reopened,
                        credits, about, seen>>
         /\ \A a \in Deliveries : pc'[a] = pc[a]
BY UsdNgnExchangeAssumption
   DEF RetryAction, RetryStep, Retry, RetryRead, RetryWrite, RetryCreate, SetReference, Goto,
       TypeOK

(* Nothing has started, so every part holds.                               *)
LEMMA InitInv == ASSUME Init PROVE Inv
<1> USE UsdNgnExchangeAssumption DEF Init
<1> linked \in BOOLEAN /\ crossed \in BOOLEAN /\ tainted \in BOOLEAN /\ reopened \in BOOLEAN
  OBVIOUS
<1>1. (CHOOSE c \in Children : TRUE) \in Children
  OBVIOUS
<1>2. TypeOK
  BY <1>1 DEF TypeOK, Statuses, Points
<1>3. PlaceInv /\ LockInv /\ LinkInv /\ ParentInv
  BY DEF PlaceInv, LockInv, LinkInv, ParentInv, UnderX
<1>4. DebitInv /\ BooksInv /\ CreditInv
  BY DEF DebitInv, BooksInv, Expected, CreditInv
<1> QED
  BY <1>2, <1>3, <1>4 DEF Inv

(* The background keeps the types ...                                      *)
LEMMA BackgroundTypes == ASSUME TypeOK, Background PROVE TypeOK'
<1> USE UsdNgnExchangeAssumption DEF TypeOK, Statuses, Upset, JobGoto
<1>1. CASE Exchange \/ CommitRows \/ RollBack
  BY <1>1 DEF Exchange, CommitRows, RollBack
<1>2. CASE JobPayOut \/ JobWithdraw \/ JobEnds \/ JobStalls
  BY <1>2 DEF JobPayOut, JobWithdraw, JobEnds, JobStalls
<1>3. CASE JobUpdateTx
  BY <1>3 DEF JobUpdateTx
<1>4. CASE JobUpdateFwt
  <2>1. linked' \in BOOLEAN /\ reopened' \in BOOLEAN
    BY <1>4 DEF JobUpdateFwt, JobWritesFwt
  <2> QED
    BY <1>4, <2>1 DEF JobUpdateFwt, JobWritesFwt
<1>5. CASE JobThrows
  BY <1>5 DEF JobThrows
<1>6. CASE JobFails
  <2>1. reopened' \in BOOLEAN
    BY <1>6 DEF JobFails, JobWritesFwt
  <2> QED
    BY <1>6, <2>1 DEF JobFails, JobWritesFwt, JobRetried
<1>7. CASE Approve \/ Confirm
  BY <1>7 DEF Approve, Confirm
<1>8. ASSUME NEW p \in Payouts, NEW s \in {"complete", "failed", "expired", "cancelled"},
             EndPayout(p, s)
      PROVE  TypeOK'
  BY <1>8 DEF EndPayout
<1> HIDE DEF TypeOK
<1> QED
  BY <1>1, <1>2, <1>3, <1>4, <1>5, <1>6, <1>7, <1>8 DEF Background, JobStep

(* ... a retry also ...                                                    *)
LEMMA RetryTypes == ASSUME TypeOK, NEW r \in Retries, RetryAction(r) PROVE TypeOK'
<1> USE UsdNgnExchangeAssumption DEF TypeOK, Statuses, Points, Upset, Goto
<1>1. CASE Retry(r) \/ RetryRead(r)
  BY <1>1 DEF Retry, RetryRead
<1>2. CASE RetryWrite(r) \/ RetryCreate(r) \/ SetReference(r)
  BY <1>2 DEF RetryWrite, RetryCreate, SetReference
<1> QED
  BY <1>1, <1>2 DEF RetryAction, RetryStep

(* ... the start of a delivery ...                                         *)
LEMMA ReceiveTypes == ASSUME TypeOK, NEW a \in Deliveries, Receive(a) PROVE TypeOK'
<1> USE UsdNgnExchangeAssumption DEF TypeOK, Points, Goto
<1>1. ASSUME NEW k \in {"pending", "confirmed"}, a \in Zh, ZhReceive(a, k) PROVE TypeOK'
  BY <1>1 DEF ZhReceive
<1>2. ASSUME NEW p \in Payouts, a \in Yc, YcReceive(a, p) PROVE TypeOK'
  BY <1>2 DEF YcReceive
<1>3. ASSUME NEW p \in Payouts, a \in Pg, PgReceive(a, p) PROVE TypeOK'
  BY <1>3 DEF PgReceive
<1> HIDE DEF TypeOK
<1> QED
  BY <1>1, <1>2, <1>3 DEF Receive

(* ... and its steps.                                                      *)
LEMMA StepTypes == ASSUME TypeOK, PlaceInv, NEW a \in Deliveries, GoesOn(a) PROVE TypeOK'
<1> USE UsdNgnExchangeAssumption DEF TypeOK, Statuses, Points, UpdateStatus, Terminal, Goto
<1>1. CASE ZhLook(a) \/ ZhPending(a)
  BY <1>1 DEF ZhLook, ZhPending
<1>2. CASE YcFailFind(a) \/ YcFailWrite(a)
  BY <1>2 DEF YcFailFind, YcFailWrite
<1>3. CASE YcEnd(a)
  BY <1>3 DEF YcEnd
<1>4. CASE MarkChild(a) \/ CheckLedger(a)
  BY <1>4 DEF MarkChild, CheckLedger
<1>5. CASE Commit(a)
  BY <1>5 DEF Commit, PlaceInv
<1>6. CASE CreateCompleted(a)
  BY <1>6 DEF CreateCompleted, PlaceInv
<1>7. CASE TakeW(a) \/ TakeX(a)
  BY <1>7 DEF TakeW, TakeX
<1>8. CASE ReadWallet(a)
  BY <1>8 DEF ReadWallet
<1>9. CASE WriteWallet(a)
  BY <1>9 DEF WriteWallet
<1>10. CASE CompleteTx(a) \/ CompleteFwt(a)
  BY <1>10 DEF CompleteTx, CompleteFwt
<1>11. CASE LookForChild(a) \/ CreateChild(a)
  BY <1>11 DEF LookForChild, CreateChild
<1>12. CASE FreeW(a) \/ FreeX(a)
  BY <1>12 DEF FreeW, FreeX
<1>13. CASE Check(a) \/ Recheck(a)
  BY <1>13 DEF Check, Recheck
<1>14. CASE Fetch(a)
  BY <1>14 DEF Fetch
<1>15. CASE Reconcile(a)
  BY <1>15 DEF Reconcile
<1>16. CASE FindChild(a)
  BY <1>16 DEF FindChild
<1>17. CASE LeaseEnds(a)
  BY <1>17 DEF LeaseEnds
<1>18. CASE Fails(a)
  BY <1>18 DEF Fails, After, Upset
<1> QED
  BY <1>1, <1>2, <1>3, <1>4, <1>5, <1>6, <1>7, <1>8, <1>9, <1>10, <1>11, <1>12, <1>13,
     <1>14, <1>15, <1>16, <1>17, <1>18 DEF GoesOn, Step, ZhStep, YcStep, PgStep,
     SharedStep, InlineStep

(* Every kind of agent keeps to its places ...                             *)
LEMMA PlaceStep == ASSUME TypeOK, PlaceInv, NEW a \in Deliveries, GoesOn(a) PROVE PlaceInv'
<1> USE UsdNgnExchangeAssumption DEF TypeOK, PlaceInv, Goto
<1>1. CASE ZhLook(a) \/ ZhPending(a)
  BY <1>1 DEF ZhLook, ZhPending
<1>2. CASE YcFailFind(a) \/ YcFailWrite(a) \/ YcEnd(a)
  BY <1>2 DEF YcFailFind, YcFailWrite, YcEnd
<1>3. CASE MarkChild(a) \/ CheckLedger(a) \/ Commit(a)
  BY <1>3 DEF MarkChild, CheckLedger, Commit
<1>4. CASE CreateCompleted(a)
  BY <1>4 DEF CreateCompleted
<1>5. CASE TakeW(a) \/ TakeX(a)
  BY <1>5 DEF TakeW, TakeX
<1>6. CASE ReadWallet(a) \/ WriteWallet(a)
  BY <1>6 DEF ReadWallet, WriteWallet
<1>7. CASE CompleteTx(a) \/ CompleteFwt(a)
  BY <1>7 DEF CompleteTx, CompleteFwt
<1>8. CASE LookForChild(a) \/ CreateChild(a)
  BY <1>8 DEF LookForChild, CreateChild
<1>9. CASE FreeW(a) \/ FreeX(a)
  BY <1>9 DEF FreeW, FreeX
<1>10. CASE Check(a) \/ Recheck(a)
  BY <1>10 DEF Check, Recheck
<1>11. CASE Fetch(a) \/ Reconcile(a) \/ FindChild(a)
  BY <1>11 DEF Fetch, Reconcile, FindChild
<1>12. CASE LeaseEnds(a)
  BY <1>12 DEF LeaseEnds
<1>13. CASE Fails(a)
  BY <1>13 DEF Fails, After, UnderW, UnderX
<1> QED
  BY <1>1, <1>2, <1>3, <1>4, <1>5, <1>6, <1>7, <1>8, <1>9, <1>10, <1>11, <1>12, <1>13
     DEF GoesOn, Step, ZhStep, YcStep, PgStep, SharedStep, InlineStep

(* ... takes a lock that is free and keeps it where it needs it.  A lease  *)
(* of W that ends was that of an agent past its debit.                     *)
LEMMA LockStep ==
  ASSUME TypeOK, PlaceInv, LockInv, NEW a \in Deliveries, GoesOn(a)
  PROVE  LockInv'
<1> USE UsdNgnExchangeAssumption DEF TypeOK, PlaceInv, LockInv, UnderX, Goto
<1>1. CASE ZhLook(a) \/ ZhPending(a)
  BY <1>1 DEF ZhLook, ZhPending
<1>2. CASE YcFailFind(a) \/ YcFailWrite(a) \/ YcEnd(a)
  BY <1>2 DEF YcFailFind, YcFailWrite, YcEnd
<1>3. CASE MarkChild(a) \/ CheckLedger(a) \/ Commit(a)
  BY <1>3 DEF MarkChild, CheckLedger, Commit
<1>4. CASE CreateCompleted(a)
  BY <1>4 DEF CreateCompleted
<1>5. CASE TakeW(a) \/ TakeX(a)
  BY <1>5 DEF TakeW, TakeX
<1>6. CASE ReadWallet(a) \/ WriteWallet(a)
  BY <1>6 DEF ReadWallet, WriteWallet
<1>7. CASE CompleteTx(a) \/ CompleteFwt(a)
  BY <1>7 DEF CompleteTx, CompleteFwt
<1>8. CASE LookForChild(a) \/ CreateChild(a)
  BY <1>8 DEF LookForChild, CreateChild
<1>9. CASE FreeW(a) \/ FreeX(a)
  BY <1>9 DEF FreeW, FreeX
<1>10. CASE Check(a) \/ Recheck(a)
  BY <1>10 DEF Check, Recheck
<1>11. CASE Fetch(a) \/ Reconcile(a) \/ FindChild(a)
  BY <1>11 DEF Fetch, Reconcile, FindChild
<1>12. CASE LeaseEnds(a)
  BY <1>12 DEF LeaseEnds
<1>13. CASE Fails(a)
  BY <1>13 DEF Fails, After, UnderW
<1> QED
  BY <1>1, <1>2, <1>3, <1>4, <1>5, <1>6, <1>7, <1>8, <1>9, <1>10, <1>11, <1>12, <1>13
     DEF GoesOn, Step, ZhStep, YcStep, PgStep, SharedStep, InlineStep

(* The parent is looked at once it is linked, which it stays.              *)
LEMMA LinkStep ==
  ASSUME TypeOK, PlaceInv, LinkInv, NEW a \in Deliveries, GoesOn(a)
  PROVE  LinkInv'
<1> USE UsdNgnExchangeAssumption DEF TypeOK, PlaceInv, LinkInv, UpdateStatus, Terminal, Goto
<1>1. CASE ZhLook(a) \/ ZhPending(a)
  BY <1>1 DEF ZhLook, ZhPending
<1>2. CASE YcFailFind(a) \/ YcFailWrite(a) \/ YcEnd(a)
  BY <1>2 DEF YcFailFind, YcFailWrite, YcEnd
<1>3. CASE MarkChild(a) \/ CheckLedger(a) \/ Commit(a)
  BY <1>3 DEF MarkChild, CheckLedger, Commit
<1>4. CASE CreateCompleted(a)
  BY <1>4 DEF CreateCompleted
<1>5. CASE TakeW(a) \/ TakeX(a)
  BY <1>5 DEF TakeW, TakeX
<1>6. CASE ReadWallet(a) \/ WriteWallet(a)
  BY <1>6 DEF ReadWallet, WriteWallet
<1>7. CASE CompleteTx(a) \/ CompleteFwt(a)
  BY <1>7 DEF CompleteTx, CompleteFwt
<1>8. CASE LookForChild(a) \/ CreateChild(a)
  BY <1>8 DEF LookForChild, CreateChild
<1>9. CASE FreeW(a) \/ FreeX(a)
  BY <1>9 DEF FreeW, FreeX
<1>10. CASE Check(a) \/ Recheck(a)
  BY <1>10 DEF Check, Recheck
<1>11. CASE Fetch(a) \/ Reconcile(a) \/ FindChild(a)
  BY <1>11 DEF Fetch, Reconcile, FindChild
<1>12. CASE LeaseEnds(a)
  BY <1>12 DEF LeaseEnds
<1>13. CASE Fails(a)
  BY <1>13 DEF Fails, After, UnderW, UnderX
<1> QED
  BY <1>1, <1>2, <1>3, <1>4, <1>5, <1>6, <1>7, <1>8, <1>9, <1>10, <1>11, <1>12, <1>13
     DEF GoesOn, Step, ZhStep, YcStep, PgStep, SharedStep, InlineStep

(* Only the holder of W completes the parent, and then has done with it.   *)
LEMMA ParentStep ==
  ASSUME TypeOK, PlaceInv, LockInv, ParentInv, NEW a \in Deliveries, GoesOn(a)
  PROVE  ParentInv'
<1> USE UsdNgnExchangeAssumption
    DEF TypeOK, PlaceInv, LockInv, ParentInv, UpdateStatus, Terminal, Goto
<1>1. CASE ZhLook(a) \/ ZhPending(a)
  BY <1>1 DEF ZhLook, ZhPending
<1>2. CASE YcFailFind(a) \/ YcFailWrite(a) \/ YcEnd(a)
  BY <1>2 DEF YcFailFind, YcFailWrite, YcEnd
<1>3. CASE MarkChild(a) \/ CheckLedger(a) \/ Commit(a)
  BY <1>3 DEF MarkChild, CheckLedger, Commit
<1>4. CASE CreateCompleted(a)
  BY <1>4 DEF CreateCompleted
<1>5. CASE TakeW(a) \/ TakeX(a)
  BY <1>5 DEF TakeW, TakeX
<1>6. CASE ReadWallet(a) \/ WriteWallet(a)
  BY <1>6 DEF ReadWallet, WriteWallet
<1>7. CASE CompleteTx(a) \/ CompleteFwt(a)
  BY <1>7 DEF CompleteTx, CompleteFwt
<1>8. CASE LookForChild(a) \/ CreateChild(a)
  BY <1>8 DEF LookForChild, CreateChild
<1>9. CASE FreeW(a) \/ FreeX(a)
  BY <1>9 DEF FreeW, FreeX
<1>10. CASE Check(a) \/ Recheck(a)
  BY <1>10 DEF Check, Recheck
<1>11. CASE Fetch(a) \/ Reconcile(a) \/ FindChild(a)
  BY <1>11 DEF Fetch, Reconcile, FindChild
<1>12. CASE LeaseEnds(a)
  BY <1>12 DEF LeaseEnds
<1>13. CASE Fails(a)
  BY <1>13 DEF Fails, After, UnderW, UnderX
<1> QED
  BY <1>1, <1>2, <1>3, <1>4, <1>5, <1>6, <1>7, <1>8, <1>9, <1>10, <1>11, <1>12, <1>13
     DEF GoesOn, Step, ZhStep, YcStep, PgStep, SharedStep, InlineStep

(* A debit finds none on record, by the holder of W, and is then the one   *)
(* that is being recorded; a failure before the record taints.             *)
LEMMA DebitStep ==
  ASSUME TypeOK, PlaceInv, LockInv, ParentInv, DebitInv, NEW a \in Deliveries, GoesOn(a)
  PROVE  DebitInv'
<1> USE UsdNgnExchangeAssumption
    DEF TypeOK, PlaceInv, LockInv, ParentInv, DebitInv, UpdateStatus, Terminal, Goto
<1>1. CASE ZhLook(a) \/ ZhPending(a)
  BY <1>1 DEF ZhLook, ZhPending
<1>2. CASE YcFailFind(a) \/ YcFailWrite(a) \/ YcEnd(a)
  BY <1>2 DEF YcFailFind, YcFailWrite, YcEnd
<1>3. CASE MarkChild(a) \/ CheckLedger(a) \/ Commit(a)
  BY <1>3 DEF MarkChild, CheckLedger, Commit
<1>4. CASE CreateCompleted(a)
  BY <1>4 DEF CreateCompleted
<1>5. CASE TakeW(a) \/ TakeX(a)
  BY <1>5 DEF TakeW, TakeX
<1>6. CASE ReadWallet(a) \/ WriteWallet(a)
  BY <1>6 DEF ReadWallet, WriteWallet
<1>7. CASE CompleteTx(a) \/ CompleteFwt(a)
  BY <1>7 DEF CompleteTx, CompleteFwt
<1>8. CASE LookForChild(a) \/ CreateChild(a)
  BY <1>8 DEF LookForChild, CreateChild
<1>9. CASE FreeW(a) \/ FreeX(a)
  BY <1>9 DEF FreeW, FreeX
<1>10. CASE Check(a) \/ Recheck(a)
  BY <1>10 DEF Check, Recheck
<1>11. CASE Fetch(a) \/ Reconcile(a) \/ FindChild(a)
  BY <1>11 DEF Fetch, Reconcile, FindChild
<1>12. CASE LeaseEnds(a)
  BY <1>12 DEF LeaseEnds
<1>13. CASE Fails(a)
  BY <1>13 DEF Fails, After, UnderW, UnderX
<1> QED
  BY <1>1, <1>2, <1>3, <1>4, <1>5, <1>6, <1>7, <1>8, <1>9, <1>10, <1>11, <1>12, <1>13
     DEF GoesOn, Step, ZhStep, YcStep, PgStep, SharedStep, InlineStep

(* A reconciliation that writes what the books say changes nothing, and    *)
(* the balance a debit has read is changed by nobody else.                 *)
LEMMA BooksStep ==
  ASSUME TypeOK, PlaceInv, LockInv, BooksInv, NEW a \in Deliveries, GoesOn(a)
  PROVE  BooksInv'
<1> USE UsdNgnExchangeAssumption DEF TypeOK, PlaceInv, LockInv, BooksInv, Goto
<1>1. CASE ReadWallet(a)
  <2>1. Expected' = Expected
    BY <1>1 DEF ReadWallet, Expected
  <2> QED
    BY <1>1, <2>1 DEF ReadWallet
<1>2. CASE WriteWallet(a)
  <2>1. Expected' = Expected - Amount
    <3>1. (debits + 1) * Amount = debits * Amount + Amount
      OBVIOUS
    <3> QED
      BY <1>2, <3>1 DEF WriteWallet, Expected
  <2>2. \A b \in Deliveries : pc'[b] # "writeWallet"
    BY <1>2 DEF WriteWallet
  <2> QED
    BY <1>2, <2>1, <2>2 DEF WriteWallet
<1>3. CASE Reconcile(a)
  <2>1. Expected' = Expected
    BY <1>3 DEF Reconcile, Expected
  <2>2. ~crossed' => ~crossed /\ usd' = Expected
    BY <1>3 DEF Reconcile, Expected
  <2>3. \A b \in Deliveries :
           pc'[b] = "writeWallet" => b # a /\ pc[b] = "writeWallet" /\ seen'[b] = seen[b]
    BY <1>3 DEF Reconcile
  <2> QED
    BY <2>1, <2>2, <2>3
<1>4. CASE ~ReadWallet(a) /\ ~WriteWallet(a) /\ ~Reconcile(a)
  <2>1. UNCHANGED <<usd, debits, crossed>>
    BY <1>4 DEF GoesOn, Step, ZhStep, YcStep, PgStep, SharedStep, InlineStep, ZhLook, ZhPending,
               YcFailFind, YcFailWrite, YcEnd, MarkChild, CheckLedger, Commit, CreateCompleted,
               TakeW, CompleteTx, CompleteFwt, LookForChild, CreateChild, FreeW, TakeX, FreeX,
               Check, Recheck, Fetch, FindChild, LeaseEnds, Fails
  <2>2. \A b \in Deliveries :
           pc'[b] = "writeWallet" => pc[b] = "writeWallet" /\ seen'[b] = seen[b]
    BY <1>4 DEF GoesOn, Step, ZhStep, YcStep, PgStep, SharedStep, InlineStep, ZhLook, ZhPending,
               YcFailFind, YcFailWrite, YcEnd, MarkChild, CheckLedger, Commit, CreateCompleted,
               TakeW, CompleteTx, CompleteFwt, LookForChild, CreateChild, FreeW, TakeX, FreeX,
               Check, Recheck, Fetch, FindChild, LeaseEnds, Fails, After
  <2>3. Expected' = Expected
    BY <2>1 DEF Expected
  <2> QED
    BY <2>1, <2>2, <2>3
<1> QED
  BY <1>1, <1>2, <1>3, <1>4

(* The ledger is looked at and written by the holder of X.                 *)
LEMMA CreditStep ==
  ASSUME TypeOK, PlaceInv, LockInv, CreditInv, NEW a \in Deliveries, GoesOn(a)
  PROVE  CreditInv'
<1> USE UsdNgnExchangeAssumption DEF TypeOK, PlaceInv, LockInv, CreditInv, UnderX, Goto
<1>1. CASE ZhLook(a) \/ ZhPending(a)
  BY <1>1 DEF ZhLook, ZhPending
<1>2. CASE YcFailFind(a) \/ YcFailWrite(a) \/ YcEnd(a)
  BY <1>2 DEF YcFailFind, YcFailWrite, YcEnd
<1>3. CASE MarkChild(a) \/ CheckLedger(a) \/ Commit(a)
  BY <1>3 DEF MarkChild, CheckLedger, Commit
<1>4. CASE CreateCompleted(a)
  BY <1>4 DEF CreateCompleted
<1>5. CASE TakeW(a) \/ TakeX(a)
  BY <1>5 DEF TakeW, TakeX
<1>6. CASE ReadWallet(a) \/ WriteWallet(a)
  BY <1>6 DEF ReadWallet, WriteWallet
<1>7. CASE CompleteTx(a) \/ CompleteFwt(a)
  BY <1>7 DEF CompleteTx, CompleteFwt
<1>8. CASE LookForChild(a) \/ CreateChild(a)
  BY <1>8 DEF LookForChild, CreateChild
<1>9. CASE FreeW(a) \/ FreeX(a)
  BY <1>9 DEF FreeW, FreeX
<1>10. CASE Check(a) \/ Recheck(a)
  BY <1>10 DEF Check, Recheck
<1>11. CASE Fetch(a) \/ Reconcile(a) \/ FindChild(a)
  BY <1>11 DEF Fetch, Reconcile, FindChild
<1>12. CASE LeaseEnds(a)
  BY <1>12 DEF LeaseEnds
<1>13. CASE Fails(a)
  BY <1>13 DEF Fails, After, UnderW
<1> QED
  BY <1>1, <1>2, <1>3, <1>4, <1>5, <1>6, <1>7, <1>8, <1>9, <1>10, <1>11, <1>12, <1>13
     DEF GoesOn, Step, ZhStep, YcStep, PgStep, SharedStep, InlineStep

(* Receiving a notification touches neither the rows nor the locks.        *)
LEMMA ReceiveFrame ==
  ASSUME TypeOK, NEW a \in Deliveries, Receive(a)
  PROVE  /\ UNCHANGED <<parent, jobVars, locks, wallet, tainted, reopened, credits, seen>>
         /\ pc[a] = "idle"
         /\ pc'[a] \in {"waitW", "waitX", "failFind", "end", "done"}
         /\ pc'[a] = "waitW" <=> a \in Zh
         /\ pc'[a] \in {"failFind", "end"} => a \in Yc
         /\ \A b \in Agents : b # a => pc'[b] = pc[b]
         /\ \A b \in Yc \cup Pg : b # a => about'[b] = about[b]
BY UsdNgnExchangeAssumption DEF TypeOK, Receive, ZhReceive, YcReceive, PgReceive, Goto

(* Every part is preserved by every step.                                  *)
LEMMA NextInv == ASSUME Inv, Next PROVE Inv'
<1> USE UsdNgnExchangeAssumption DEF Inv
<1>1. ASSUME Background PROVE Inv'
  <2>1. TypeOK' /\ PlaceInv' /\ LockInv' /\ BooksInv' /\ CreditInv'
    BY <1>1, BackgroundTypes, BackgroundFrame
       DEF PlaceInv, LockInv, UnderX, BooksInv, Expected, CreditInv
  <2>2. LinkInv'
    <3>1. \A b \in Deliveries : pc'[b] = pc[b]
      BY <1>1, BackgroundFrame
    <3>2. ptx' = "COMPLETED" \/ pfwt' = "COMPLETED" => linked'
      BY <1>1, BackgroundFrame DEF LinkInv
    <3> QED
      BY <1>1, <3>1, <3>2, BackgroundFrame DEF LinkInv
  <2>3. ParentInv'
    BY <1>1, BackgroundFrame DEF ParentInv
  <2>4. DebitInv'
    <3>1. SUFFICES ASSUME ~tainted', ~reopened' PROVE DebitInv'
      BY DEF DebitInv
    <3>2. /\ ~tainted /\ ~reopened
          /\ pfwt' = "COMPLETED" <=> pfwt = "COMPLETED"
          /\ UNCHANGED <<pc, debits>>
      BY <1>1, <3>1, BackgroundFrame, BackgroundTypes DEF TypeOK
    <3> QED
      BY <3>2 DEF DebitInv
  <2> QED
    BY <2>1, <2>2, <2>3, <2>4
<1>2. ASSUME NEW r \in Retries, RetryAction(r) PROVE Inv'
  <2>1. PlaceInv'
    <3>1. pc'[r] \in {"retryRead", "retryWrite", "retryCreate", "setReference", "done"}
          /\ \A b \in Agents : b # r => pc'[b] = pc[b]
      BY <1>2 DEF RetryAction, RetryStep, Retry, RetryRead, RetryWrite, RetryCreate,
                  SetReference, Goto, TypeOK
    <3> QED
      BY <3>1 DEF PlaceInv
  <2>2. TypeOK' /\ LockInv' /\ LinkInv' /\ ParentInv'
    BY <1>2, RetryTypes, RetryFrame DEF LockInv, UnderX, LinkInv, ParentInv
  <2>3. DebitInv' /\ BooksInv' /\ CreditInv'
    BY <1>2, RetryFrame DEF DebitInv, BooksInv, Expected, CreditInv
  <2> QED
    BY <2>1, <2>2, <2>3
<1>3. ASSUME NEW a \in Deliveries, Receive(a) PROVE Inv'
  <2>1. TypeOK' /\ PlaceInv' /\ LockInv'
    BY <1>3, ReceiveTypes, ReceiveFrame DEF PlaceInv, LockInv, UnderX
  <2>2. LinkInv' /\ ParentInv' 
    BY <1>3, ReceiveFrame DEF LinkInv, ParentInv
  <2>3. DebitInv' /\ BooksInv' /\ CreditInv'
    BY <1>3, ReceiveFrame DEF DebitInv, BooksInv, Expected, CreditInv
  <2> QED
    BY <2>1, <2>2, <2>3
<1>4. ASSUME NEW a \in Deliveries, GoesOn(a) PROVE Inv'
  BY <1>4, StepTypes, PlaceStep, LockStep, LinkStep, ParentStep, DebitStep, BooksStep,
     CreditStep
<1> HIDE DEF Inv
<1> QED
  BY <1>1, <1>2, <1>3, <1>4, NextCases

(* The invariant is one of the specification.                              *)
THEOREM Invariance == Spec => []Inv
<1>1. ASSUME Inv, UNCHANGED vars PROVE Inv'
  BY <1>1 DEF vars, Inv, TypeOK, PlaceInv, LockInv, UnderX, LinkInv, ParentInv, DebitInv,
              BooksInv, Expected, CreditInv
<1> QED
  BY InitInv, NextInv, <1>1, PTL DEF Spec

(* Every reachable state is of the types.                                  *)
THEOREM TypeCorrect == Spec => []TypeOK
BY Invariance, PTL DEF Inv

(* The dollars leave the wallet at most once (processWithdrawalConfirmed,  *)
(* checkAndCompleteUsdWithdrawal), unless a call failed between the debit  *)
(* and its record or the job, run on or run again after it linked the      *)
(* parent, wrote over a completed one.                                     *)
THEOREM DebitedOnce == Spec => []UsdDebitedOnce
<1>1. Inv => UsdDebitedOnce
  BY DEF Inv, DebitInv, UsdDebitedOnce
<1> QED
  BY Invariance, <1>1, PTL

(* No debit is computed from an outdated balance, as long as no            *)
(* reconcileUsdBalanceFromProvider writes one.                             *)
THEOREM BooksCorrect == Spec => []UsdBooks
<1>1. Inv => UsdBooks
  BY DEF Inv, BooksInv, Expected, UsdBooks
<1> QED
  BY Invariance, <1>1, PTL

(* A payout is credited in naira at most once (handleExchangeTransaction). *)
THEOREM CreditedOnce == Spec => []CreditedOncePerPayout
<1>1. Inv => CreditedOncePerPayout
  BY DEF Inv, CreditInv, CreditedOncePerPayout
<1> QED
  BY Invariance, <1>1, PTL

(* Only the job's own updates take a completion of the parent back: no     *)
(* late pending, expired or cancelled event does, no retry and no request. *)
THEOREM CompletedIsFinal == Spec => CompletedStays
<1> DEFINE Stays ==
      /\ ptx = "COMPLETED" /\ ptx' # "COMPLETED" =>
            jobPc \in {"updateTx", "failTx"} /\ jobPc' # jobPc
      /\ pfwt = "COMPLETED" /\ pfwt' # "COMPLETED" =>
            jobPc \in {"updateFwt", "failFwt"} /\ jobPc' # jobPc
<1>1. ASSUME Inv, Next PROVE Stays
  <2>1. ASSUME Background PROVE Stays
    BY <1>1, <2>1, BackgroundFrame DEF Inv
  <2>2. ASSUME NEW r \in Retries, RetryAction(r) PROVE Stays
    BY <1>1, <2>2, RetryFrame DEF Inv
  <2>3. ASSUME NEW a \in Deliveries, Receive(a) PROVE Stays
    BY <1>1, <2>3, ReceiveFrame DEF Inv
  <2>4. ASSUME NEW a \in Deliveries, GoesOn(a) PROVE Stays
    <3> USE <1>1 DEF Inv
    <3>1. CASE ZhPending(a)
      BY <3>1 DEF ZhPending, ParentInv
    <3>2. CASE YcEnd(a) \/ CompleteTx(a) \/ CompleteFwt(a)
      BY <3>2 DEF YcEnd, CompleteTx, CompleteFwt, UpdateStatus, Terminal
    <3>3. CASE UNCHANGED <<ptx, pfwt>>
      BY <3>3
    <3> QED
      BY <2>4, <3>1, <3>2, <3>3
         DEF GoesOn, Step, ZhStep, YcStep, PgStep, SharedStep, InlineStep, ZhLook,
             YcFailFind, YcFailWrite, MarkChild, CheckLedger, Commit, CreateCompleted, TakeW,
             ReadWallet, WriteWallet, LookForChild, CreateChild, FreeW, TakeX, FreeX, Check,
             Recheck, Fetch, Reconcile, FindChild, LeaseEnds, Fails
  <2> HIDE DEF Stays
  <2> QED
    BY <1>1, <2>1, <2>2, <2>3, <2>4, NextCases
<1>2. Inv /\ [Next]_vars => [Stays]_vars
  BY <1>1
<1> QED
  BY Invariance, <1>2, PTL DEF Spec, CompletedStays
=============================================================================
