----------------------- MODULE BlockchainWalletProofs -----------------------
(***************************************************************************)
(* Proofs about BlockchainWallet, for any transfers, deposits, handlers,   *)
(* amounts and faults.  The argument: until two sections overlap, whoever  *)
(* has read the balance is alone in a section, so what it has read is      *)
(* still the balance when it commits; and each commit changes by one the   *)
(* number of standing debits or of credited deposits, because the row it   *)
(* writes is in the status its own earlier steps left it in.               *)
(***************************************************************************)
EXTENDS BlockchainWallet, FiniteSetTheorems, TLAPS

Crediting == {"fundLock", "fundRead", "fundCommit"}
Before == {"idle", "debitLock", "debitRead", "debitCommit"}
Reverting == {"revertLock", "revertRead", "revertCommit", "revertFree"}

(* The places of a request, those of a handler, and the event it handles.  *)
PlaceInv ==
    /\ \A r \in Requests :
          pc[r] \in Before \cup Reverting \cup {"debitFree", "send", "setReference", "done"}
    /\ \A h \in Handlers :
          /\ pc[h] \in Crediting \cup {"idle", "handle", "markPending", "fundFree", "done"}
          /\ pc[h] \in Crediting => event[h].kind = "deposit"
          /\ pc[h] = "markPending" =>
                event[h].kind = "broadcasting" /\ event[h].of \in referenced

(* What a request's place says of its row and of its transfer.  A transfer *)
(* that was sent and not lost keeps its debit.                             *)
RowInv ==
    \A r \in Requests :
        /\ pc[r] \in Before =>
              status[r] = "none" /\ transfer[r] = "none" /\ r \notin referenced
        /\ pc[r] \in {"debitFree", "send"} =>
              status[r] = "PENDING" /\ transfer[r] = "none" /\ r \notin referenced
        /\ pc[r] = "setReference" =>
              status[r] = "PENDING" /\ r \notin referenced
        /\ pc[r] = "revertCommit" => status[r] = "PENDING"
        /\ r \notin lost =>
              /\ pc[r] \in Reverting => transfer[r] = "none" /\ r \notin referenced
              /\ transfer[r] # "none" \/ r \in referenced => status[r] = "PENDING"

(* While no sections have overlapped: whoever is in a section holds its    *)
(* key and knows the balance, and nobody is about to credit twice.         *)
AloneInv ==
    ~crossed =>
        /\ ~Crossing(pc)
        /\ \A a \in Agents :
              /\ pc[a] \in {"debitRead", "debitCommit"} => lock["debit"] = a
              /\ pc[a] \in {"revertRead", "revertCommit"} => lock["revert"] = a
              /\ pc[a] \in {"fundRead", "fundCommit"} => lock["fund"] = a
              /\ pc[a] \in Sections => seen[a] = balance
        /\ \A h \in Handlers : pc[h] \in Crediting => credits[event[h].of] = 0

(* The books, of which only finitely many rows are entered at any time.    *)
BooksInv ==
    /\ IsFiniteSet(Debited)
    /\ IsFiniteSet(Credited)
    /\ WalletBooks

Inv == TypeOK /\ PlaceInv /\ RowInv /\ AloneInv /\ BooksInv

(* Nothing has happened at the start, so every part holds.                 *)
LEMMA InitInv == ASSUME Init PROVE Inv
<1> USE BlockchainWalletAssumption DEF Init, Agents, Kinds, Sections, Crediting, Before, Reverting
<1> NoEvent \in Events
  BY DEF NoEvent, Events
<1> crossed \in BOOLEAN
  OBVIOUS
<1>1. TypeOK
  BY DEF TypeOK, Points
<1>2. PlaceInv /\ RowInv
  BY DEF PlaceInv, RowInv
<1>3. AloneInv
  BY DEF AloneInv, Crossing
<1>4. Debited = {} /\ Credited = {}
  BY DEF Debited, Credited
<1>5. IsFiniteSet({}) /\ Cardinality({}) = 0
  BY FS_EmptySet
<1>6. BooksInv
  BY <1>4, <1>5 DEF BooksInv, WalletBooks
<1> QED
  BY <1>1, <1>2, <1>3, <1>6 DEF Inv

(* Going on to a place keeps the types of what it changes.                 *)
LEMMA GotoTypes ==
  ASSUME TypeOK, NEW a \in Agents, NEW p \in Points, Goto(a, p)
  PROVE  /\ pc' \in [Agents -> Points]
         /\ seen' \in [Agents -> Int]
         /\ event' \in [Handlers -> Events]
         /\ crossed' \in BOOLEAN
<1> USE DEF TypeOK, Goto
<1>1. crossed' \in BOOLEAN
  OBVIOUS
<1>2. NoEvent \in Events
  BY DEF NoEvent, Events
<1> QED
  BY <1>1, <1>2

(* Every step keeps the types.                                             *)
LEMMA TypesStep == ASSUME TypeOK, PlaceInv, Next PROVE TypeOK'
<1> USE BlockchainWalletAssumption, GotoTypes
    DEF TypeOK, rows, fireblocks, Agents, Kinds, Points, LastPoint
<1> \A e \in Events : e.kind = "broadcasting" => e.of \in Requests
  BY DEF Events, NoEvent
<1> \A e \in Events : e.kind = "deposit" => e.of \in Deposits
  BY DEF Events, NoEvent
<1>1. ASSUME NEW r \in Requests, Initiate(r) PROVE TypeOK'
  BY <1>1 DEF Initiate
<1>2. ASSUME NEW r \in Requests, DebitRead(r) PROVE TypeOK'
  BY <1>2 DEF DebitRead, Freed
<1>3. ASSUME NEW r \in Requests, DebitCommit(r) PROVE TypeOK'
  BY <1>3 DEF DebitCommit
<1>4. ASSUME NEW r \in Requests, DebitFree(r) PROVE TypeOK'
  BY <1>4 DEF DebitFree, Freed
<1>5. ASSUME NEW r \in Requests, Send(r) PROVE TypeOK'
  BY <1>5 DEF Send
<1>6. ASSUME NEW r \in Requests, SetReference(r) PROVE TypeOK'
  BY <1>6 DEF SetReference
<1>7. ASSUME NEW r \in Requests, RevertRead(r) PROVE TypeOK'
  BY <1>7 DEF RevertRead
<1>8. ASSUME NEW r \in Requests, RevertCommit(r) PROVE TypeOK'
  BY <1>8 DEF RevertCommit
<1>9. ASSUME NEW r \in Requests, TransferMoves(r) PROVE TypeOK'
  BY <1>9 DEF TransferMoves, Moves
<1>10. ASSUME NEW h \in Handlers, NEW e \in Events, Receive(h, e) PROVE TypeOK'
  BY <1>10 DEF Receive
<1>11. ASSUME NEW h \in Handlers, TransferOutEnded(h) PROVE TypeOK'
  BY <1>11 DEF TransferOutEnded
<1>12. ASSUME NEW h \in Handlers, FindTransfer(h) PROVE TypeOK'
  BY <1>12 DEF FindTransfer
<1>13. ASSUME NEW h \in Handlers, MarkPending(h) PROVE TypeOK'
  BY <1>13 DEF MarkPending, PlaceInv, Crediting
<1>14. ASSUME NEW h \in Handlers, FindDeposit(h) PROVE TypeOK'
  BY <1>14 DEF FindDeposit
<1>15. ASSUME NEW h \in Handlers, FundRead(h) PROVE TypeOK'
  BY <1>15 DEF FundRead
<1>16. ASSUME NEW h \in Handlers, FundCommit(h) PROVE TypeOK'
  BY <1>16 DEF FundCommit, PlaceInv, Crediting
<1>17. ASSUME NEW d \in Deposits, Arrive(d) PROVE TypeOK'
  BY <1>17 DEF Arrive
<1>18. ASSUME NEW a \in Agents, Free(a) PROVE TypeOK'
  BY <1>18 DEF Free, Freed
<1>19. ASSUME NEW a \in Agents, Fails(a) PROVE TypeOK'
  BY <1>19 DEF Fails, Freed
<1>20. ASSUME NEW a \in Agents, Crash(a) PROVE TypeOK'
  BY <1>20 DEF Crash
<1>21. ASSUME NEW a \in Agents, NEW k \in Kinds, Acquire(a, k) PROVE TypeOK'
  BY <1>21 DEF Acquire, ReadPoint
<1>22. ASSUME NEW a \in Agents, NEW k \in Kinds, GiveUp(a, k) PROVE TypeOK'
  BY <1>22 DEF GiveUp
<1>23. ASSUME NEW k \in Kinds, LeaseEnds(k) PROVE TypeOK'
  <2> USE <1>23 DEF LeaseEnds
  <2>1. faults' \in 0..MaxFaults
    BY DEF TypeOK
  <2>2. crossed' \in BOOLEAN
    BY DEF TypeOK
  <2> QED
    BY <2>1, <2>2
<1> HIDE DEF TypeOK
<1> QED
  BY <1>1, <1>2, <1>3, <1>4, <1>5, <1>6, <1>7, <1>8, <1>9, <1>10, <1>11, <1>12,
     <1>13, <1>14, <1>15, <1>16, <1>17, <1>18, <1>19, <1>20, <1>21, <1>22, <1>23
     DEF Next, RequestStep, HandlerStep

(* What going on to a place does to the places and the events.             *)
LEMMA GotoPlaces ==
  ASSUME TypeOK, NEW a \in Agents, NEW p \in Points, Goto(a, p)
  PROVE  /\ pc'[a] = p
         /\ \A b \in Agents : b # a => pc'[b] = pc[b] /\ seen'[b] = seen[b]
         /\ p \in Sections => seen'[a] = balance
         /\ \A h \in Handlers :
               pc'[h] \notin {"idle", "done"} => event'[h] = event[h]
BY DEF TypeOK, Goto, Agents

(* Requests and handlers keep to their own places; a handler's event stays *)
(* until it ends, and a reference, once set, also.                         *)
LEMMA PlaceStep == ASSUME TypeOK, PlaceInv, Next PROVE PlaceInv'
<1> USE BlockchainWalletAssumption, GotoPlaces
    DEF TypeOK, PlaceInv, rows, fireblocks, Agents, Kinds, Points, LastPoint,
        Crediting, Before, Reverting
<1>1. ASSUME NEW r \in Requests, Initiate(r) PROVE PlaceInv'
  BY <1>1 DEF Initiate
<1>2. ASSUME NEW r \in Requests, DebitRead(r) PROVE PlaceInv'
  BY <1>2 DEF DebitRead
<1>3. ASSUME NEW r \in Requests, DebitCommit(r) PROVE PlaceInv'
  BY <1>3 DEF DebitCommit
<1>4. ASSUME NEW r \in Requests, DebitFree(r) PROVE PlaceInv'
  BY <1>4 DEF DebitFree
<1>5. ASSUME NEW r \in Requests, Send(r) PROVE PlaceInv'
  BY <1>5 DEF Send
<1>6. ASSUME NEW r \in Requests, SetReference(r) PROVE PlaceInv'
  BY <1>6 DEF SetReference
<1>7. ASSUME NEW r \in Requests, RevertRead(r) PROVE PlaceInv'
  BY <1>7 DEF RevertRead
<1>8. ASSUME NEW r \in Requests, RevertCommit(r) PROVE PlaceInv'
  BY <1>8 DEF RevertCommit
<1>9. ASSUME NEW r \in Requests, TransferMoves(r) PROVE PlaceInv'
  BY <1>9 DEF TransferMoves
<1>10. ASSUME NEW h \in Handlers, NEW e \in Events, Receive(h, e) PROVE PlaceInv'
  BY <1>10 DEF Receive
<1>11. ASSUME NEW h \in Handlers, TransferOutEnded(h) PROVE PlaceInv'
  BY <1>11 DEF TransferOutEnded
<1>12. ASSUME NEW h \in Handlers, FindTransfer(h) PROVE PlaceInv'
  BY <1>12 DEF FindTransfer
<1>13. ASSUME NEW h \in Handlers, MarkPending(h) PROVE PlaceInv'
  BY <1>13 DEF MarkPending
<1>14. ASSUME NEW h \in Handlers, FindDeposit(h) PROVE PlaceInv'
  BY <1>14 DEF FindDeposit
<1>15. ASSUME NEW h \in Handlers, FundRead(h) PROVE PlaceInv'
  BY <1>15 DEF FundRead
<1>16. ASSUME NEW h \in Handlers, FundCommit(h) PROVE PlaceInv'
  BY <1>16 DEF FundCommit
<1>17. ASSUME NEW d \in Deposits, Arrive(d) PROVE PlaceInv'
  BY <1>17 DEF Arrive
<1>18. ASSUME NEW a \in Agents, Free(a) PROVE PlaceInv'
  BY <1>18 DEF Free
<1>19. ASSUME NEW a \in Agents, Fails(a) PROVE PlaceInv'
  BY <1>19 DEF Fails
<1>20. ASSUME NEW a \in Agents, Crash(a) PROVE PlaceInv'
  BY <1>20 DEF Crash
<1>21. ASSUME NEW a \in Agents, NEW k \in Kinds, Acquire(a, k) PROVE PlaceInv'
  BY <1>21 DEF Acquire, LockPoint, ReadPoint
<1>22. ASSUME NEW a \in Agents, NEW k \in Kinds, GiveUp(a, k) PROVE PlaceInv'
  BY <1>22 DEF GiveUp, LockPoint
<1>23. ASSUME NEW k \in Kinds, LeaseEnds(k) PROVE PlaceInv'
  BY <1>23 DEF LeaseEnds
<1> HIDE DEF PlaceInv, TypeOK
<1> QED
  BY <1>1, <1>2, <1>3, <1>4, <1>5, <1>6, <1>7, <1>8, <1>9, <1>10, <1>11, <1>12,
     <1>13, <1>14, <1>15, <1>16, <1>17, <1>18, <1>19, <1>20, <1>21, <1>22, <1>23
     DEF Next, RequestStep, HandlerStep

(* The status and the reference of a row change in the request's own steps *)
(* or, for a referenced row, back to what a transfer not lost has anyway.  *)
LEMMA RowStep == ASSUME TypeOK, PlaceInv, RowInv, Next PROVE RowInv'
<1> USE BlockchainWalletAssumption, GotoPlaces
    DEF TypeOK, PlaceInv, RowInv, rows, fireblocks, Agents, Kinds, Points, LastPoint,
        Crediting, Before, Reverting
<1>1. ASSUME NEW r \in Requests, Initiate(r) PROVE RowInv'
  BY <1>1 DEF Initiate
<1>2. ASSUME NEW r \in Requests, DebitRead(r) PROVE RowInv'
  BY <1>2 DEF DebitRead
<1>3. ASSUME NEW r \in Requests, DebitCommit(r) PROVE RowInv'
  BY <1>3 DEF DebitCommit
<1>4. ASSUME NEW r \in Requests, DebitFree(r) PROVE RowInv'
  BY <1>4 DEF DebitFree
<1>5. ASSUME NEW r \in Requests, Send(r) PROVE RowInv'
  BY <1>5 DEF Send
<1>6. ASSUME NEW r \in Requests, SetReference(r) PROVE RowInv'
  BY <1>6 DEF SetReference
<1>7. ASSUME NEW r \in Requests, RevertRead(r) PROVE RowInv'
  BY <1>7 DEF RevertRead
<1>8. ASSUME NEW r \in Requests, RevertCommit(r) PROVE RowInv'
  BY <1>8 DEF RevertCommit
<1>9. ASSUME NEW r \in Requests, TransferMoves(r) PROVE RowInv'
  BY <1>9 DEF TransferMoves, Moves
<1>10. ASSUME NEW h \in Handlers, NEW e \in Events, Receive(h, e) PROVE RowInv'
  BY <1>10 DEF Receive
<1>11. ASSUME NEW h \in Handlers, TransferOutEnded(h) PROVE RowInv'
  BY <1>11 DEF TransferOutEnded
<1>12. ASSUME NEW h \in Handlers, FindTransfer(h) PROVE RowInv'
  BY <1>12 DEF FindTransfer
<1>13. ASSUME NEW h \in Handlers, MarkPending(h) PROVE RowInv'
  BY <1>13 DEF MarkPending
<1>14. ASSUME NEW h \in Handlers, FindDeposit(h) PROVE RowInv'
  BY <1>14 DEF FindDeposit
<1>15. ASSUME NEW h \in Handlers, FundRead(h) PROVE RowInv'
  BY <1>15 DEF FundRead
<1>16. ASSUME NEW h \in Handlers, FundCommit(h) PROVE RowInv'
  BY <1>16 DEF FundCommit
<1>17. ASSUME NEW d \in Deposits, Arrive(d) PROVE RowInv'
  BY <1>17 DEF Arrive
<1>18. ASSUME NEW a \in Agents, Free(a) PROVE RowInv'
  BY <1>18 DEF Free
<1>19. ASSUME NEW a \in Agents, Fails(a) PROVE RowInv'
  BY <1>19 DEF Fails
<1>20. ASSUME NEW a \in Agents, Crash(a) PROVE RowInv'
  BY <1>20 DEF Crash
<1>21. ASSUME NEW a \in Agents, NEW k \in Kinds, Acquire(a, k) PROVE RowInv'
  BY <1>21 DEF Acquire, LockPoint, ReadPoint
<1>22. ASSUME NEW a \in Agents, NEW k \in Kinds, GiveUp(a, k) PROVE RowInv'
  BY <1>22 DEF GiveUp, LockPoint
<1>23. ASSUME NEW k \in Kinds, LeaseEnds(k) PROVE RowInv'
  BY <1>23 DEF LeaseEnds
<1> HIDE DEF RowInv, PlaceInv, TypeOK
<1> QED
  BY <1>1, <1>2, <1>3, <1>4, <1>5, <1>6, <1>7, <1>8, <1>9, <1>10, <1>11, <1>12,
     <1>13, <1>14, <1>15, <1>16, <1>17, <1>18, <1>19, <1>20, <1>21, <1>22, <1>23
     DEF Next, RequestStep, HandlerStep

(* Going on to a place notices the overlap it leads to.                    *)
LEMMA GotoCrossing ==
  ASSUME TypeOK, NEW a \in Agents, NEW p \in Points, Goto(a, p), ~crossed'
  PROVE  ~crossed /\ ~Crossing(pc)'
BY DEF TypeOK, Goto, Crossing, Agents, Sections

(* Whoever is in a section without overlap is alone there.                 *)
LEMMA OneInSection ==
  ASSUME AloneInv, ~crossed, NEW a \in Agents, NEW b \in Agents,
         pc[a] \in Sections, pc[b] \in Sections
  PROVE  a = b
BY DEF AloneInv, Crossing, Sections

(* Nobody else is about to credit the deposit that a handler credits.      *)
LEMMA OneCrediting ==
  ASSUME TypeOK, PlaceInv, AloneInv, ~crossed, NEW g \in Handlers, NEW h \in Handlers,
         pc[g] \in Crediting, pc[h] \in Crediting, event[g].of = event[h].of
  PROVE  g = h
<1>1. event[g] = event[h]
  BY DEF TypeOK, PlaceInv, Events, NoEvent
<1> QED
  BY <1>1 DEF AloneInv, Crossing, Crediting

(* A key is taken from nobody but whoever gives it back or has ended, and  *)
(* the balance changes only when its last reader commits.                  *)
LEMMA AloneStep == ASSUME TypeOK, PlaceInv, AloneInv, Next PROVE AloneInv'
<1> USE BlockchainWalletAssumption, GotoPlaces, GotoCrossing, OneInSection
    DEF TypeOK, PlaceInv, AloneInv, rows, fireblocks, Agents, Kinds, Points, LastPoint,
        Crediting, Before, Reverting, Sections
<1>1. ASSUME NEW r \in Requests, Initiate(r) PROVE AloneInv'
  BY <1>1 DEF Initiate
<1>2. ASSUME NEW r \in Requests, DebitRead(r) PROVE AloneInv'
  BY <1>2 DEF DebitRead, Freed
<1>3. ASSUME NEW r \in Requests, DebitCommit(r) PROVE AloneInv'
  BY <1>3 DEF DebitCommit
<1>4. ASSUME NEW r \in Requests, DebitFree(r) PROVE AloneInv'
  BY <1>4 DEF DebitFree, Freed
<1>5. ASSUME NEW r \in Requests, Send(r) PROVE AloneInv'
  BY <1>5 DEF Send
<1>6. ASSUME NEW r \in Requests, SetReference(r) PROVE AloneInv'
  BY <1>6 DEF SetReference
<1>7. ASSUME NEW r \in Requests, RevertRead(r) PROVE AloneInv'
  BY <1>7 DEF RevertRead
<1>8. ASSUME NEW r \in Requests, RevertCommit(r) PROVE AloneInv'
  BY <1>8 DEF RevertCommit
<1>9. ASSUME NEW r \in Requests, TransferMoves(r) PROVE AloneInv'
  BY <1>9 DEF TransferMoves, Crossing
<1>10. ASSUME NEW h \in Handlers, NEW e \in Events, Receive(h, e) PROVE AloneInv'
  BY <1>10 DEF Receive, Crossing
<1>11. ASSUME NEW h \in Handlers, TransferOutEnded(h) PROVE AloneInv'
  BY <1>11 DEF TransferOutEnded
<1>12. ASSUME NEW h \in Handlers, FindTransfer(h) PROVE AloneInv'
  BY <1>12 DEF FindTransfer
<1>13. ASSUME NEW h \in Handlers, MarkPending(h) PROVE AloneInv'
  BY <1>13 DEF MarkPending
<1>14. ASSUME NEW h \in Handlers, FindDeposit(h) PROVE AloneInv'
  BY <1>14 DEF FindDeposit
<1>15. ASSUME NEW h \in Handlers, FundRead(h) PROVE AloneInv'
  BY <1>15 DEF FundRead
<1>16. ASSUME NEW h \in Handlers, FundCommit(h) PROVE AloneInv'
  BY <1>16, OneCrediting DEF FundCommit
<1>17. ASSUME NEW d \in Deposits, Arrive(d) PROVE AloneInv'
  BY <1>17 DEF Arrive, Crossing
<1>18. ASSUME NEW a \in Agents, Free(a) PROVE AloneInv'
  BY <1>18 DEF Free, Freed
<1>19. ASSUME NEW a \in Agents, Fails(a) PROVE AloneInv'
  BY <1>19 DEF Fails, Freed
<1>20. ASSUME NEW a \in Agents, Crash(a) PROVE AloneInv'
  BY <1>20 DEF Crash
<1>21. ASSUME NEW a \in Agents, NEW k \in Kinds, Acquire(a, k) PROVE AloneInv'
  BY <1>21 DEF Acquire, LockPoint, ReadPoint
<1>22. ASSUME NEW a \in Agents, NEW k \in Kinds, GiveUp(a, k) PROVE AloneInv'
  BY <1>22 DEF GiveUp, LockPoint
<1>23. ASSUME NEW k \in Kinds, LeaseEnds(k) PROVE AloneInv'
  BY <1>23 DEF LeaseEnds, Crossing
<1> HIDE DEF AloneInv, PlaceInv, TypeOK
<1> QED
  BY <1>1, <1>2, <1>3, <1>4, <1>5, <1>6, <1>7, <1>8, <1>9, <1>10, <1>11, <1>12,
     <1>13, <1>14, <1>15, <1>16, <1>17, <1>18, <1>19, <1>20, <1>21, <1>22, <1>23
     DEF Next, RequestStep, HandlerStep

(* Entering and striking a debit that stands.                              *)
LEMMA DebitedAfter ==
  ASSUME TypeOK, IsFiniteSet(Debited), NEW r \in Requests
  PROVE  /\ status[r] # "PENDING" /\ status' = [status EXCEPT ![r] = "PENDING"] =>
               IsFiniteSet(Debited)' /\ Cardinality(Debited)' = Cardinality(Debited) + 1
         /\ status[r] = "PENDING" /\ status' = [status EXCEPT ![r] = "FAILED"] =>
               IsFiniteSet(Debited)' /\ Cardinality(Debited)' = Cardinality(Debited) - 1
<1>1. ASSUME status[r] # "PENDING", status' = [status EXCEPT ![r] = "PENDING"]
      PROVE  r \notin Debited /\ Debited' = Debited \cup {r}
  BY <1>1 DEF TypeOK, Debited
<1>2. ASSUME status[r] = "PENDING", status' = [status EXCEPT ![r] = "FAILED"]
      PROVE  r \in Debited /\ Debited' = Debited \ {r}
  BY <1>2 DEF TypeOK, Debited
<1> QED
  BY <1>1, <1>2, FS_AddElement, FS_RemoveElement, FS_CardinalityType

(* Entering a deposit for the first time.                                  *)
LEMMA CreditedAfter ==
  ASSUME TypeOK, IsFiniteSet(Credited), NEW d \in Deposits, 
         credits' = [credits EXCEPT ![d] = @ + 1]
  PROVE  /\ IsFiniteSet(Credited)'
         /\ credits[d] = 0 => Cardinality(Credited)' = Cardinality(Credited) + 1
<1>1. Credited' = Credited \cup {d}
  BY DEF TypeOK, Credited
<1>2. credits[d] = 0 => d \notin Credited
  BY DEF Credited
<1> QED
  BY <1>1, <1>2, FS_AddElement, FS_CardinalityType

(* A commit changes the balance and the number of rows it is made of by    *)
(* the same; any other step changes neither.                               *)
LEMMA BooksStep ==
  ASSUME TypeOK, PlaceInv, RowInv, AloneInv, BooksInv, Next
  PROVE  BooksInv'
<1> USE BlockchainWalletAssumption
<1>1. ASSUME NEW r \in Requests, DebitCommit(r) PROVE BooksInv'
  <2> USE <1>1 DEF DebitCommit
  <2>1. status[r] # "PENDING" /\ Credited' = Credited
    BY DEF RowInv, Before, Credited
  <2>2. /\ IsFiniteSet(Debited)'
        /\ Cardinality(Debited)' = Cardinality(Debited) + 1
        /\ Cardinality(Debited) \in Nat /\ Cardinality(Credited) \in Nat
    BY <2>1, DebitedAfter, FS_CardinalityType DEF BooksInv
  <2>3. ~crossed' => ~crossed /\ seen[r] = balance
    BY DEF AloneInv, Sections, Goto, Agents
  <2> QED
    BY <2>1, <2>2, <2>3 DEF BooksInv, WalletBooks, TypeOK
<1>2. ASSUME NEW r \in Requests, RevertCommit(r) PROVE BooksInv'
  <2> USE <1>2 DEF RevertCommit
  <2>1. status[r] = "PENDING" /\ Credited' = Credited
    BY DEF RowInv, Credited
  <2>2. /\ IsFiniteSet(Debited)'
        /\ Cardinality(Debited)' = Cardinality(Debited) - 1
        /\ Cardinality(Debited) \in Nat /\ Cardinality(Credited) \in Nat
    BY <2>1, DebitedAfter, FS_CardinalityType DEF BooksInv
  <2>3. ~crossed' => ~crossed /\ seen[r] = balance
    BY DEF AloneInv, Sections, Goto, Agents
  <2> QED
    BY <2>1, <2>2, <2>3 DEF BooksInv, WalletBooks, TypeOK
<1>3. ASSUME NEW h \in Handlers, FundCommit(h) PROVE BooksInv'
  <2> USE <1>3 DEF FundCommit
  <2> DEFINE d == event[h].of
  <2>1. d \in Deposits /\ Debited' = Debited
    BY DEF TypeOK, PlaceInv, Events, NoEvent, Crediting, Debited
  <2>2. ~crossed' => ~crossed /\ seen[h] = balance /\ credits[d] = 0
    BY DEF AloneInv, Sections, Goto, Agents, Crediting
  <2> HIDE DEF d
  <2>3. credits' = [credits EXCEPT ![d] = @ + 1]
    BY DEF d
  <2>4. /\ IsFiniteSet(Credited)'
        /\ credits[d] = 0 => Cardinality(Credited)' = Cardinality(Credited) + 1
        /\ Cardinality(Debited) \in Nat /\ Cardinality(Credited) \in Nat
    BY <2>1, <2>3, CreditedAfter, FS_CardinalityType DEF BooksInv
  <2> QED
    BY <2>1, <2>2, <2>4 DEF BooksInv, WalletBooks, TypeOK
<1>4. ASSUME NEW h \in Handlers, MarkPending(h) PROVE BooksInv'
  <2> USE <1>4 DEF MarkPending
  <2> DEFINE r == event[h].of
  <2>1. r \in Requests /\ r \in referenced /\ Credited' = Credited
    BY DEF TypeOK, PlaceInv, Events, NoEvent, Credited
  <2>2. lost = {} => status[r] = "PENDING"
    BY <2>1 DEF RowInv
  <2> HIDE DEF r
  <2>3. status' = [status EXCEPT ![r] = "PENDING"]
    BY DEF r
  <2>4. CASE status[r] = "PENDING"
    <3>1. Debited' = Debited
      BY <2>1, <2>3, <2>4 DEF Debited, TypeOK
    <3> QED
      BY <2>1, <3>1 DEF BooksInv, WalletBooks, Goto
  <2>5. CASE status[r] # "PENDING"
    <3>1. IsFiniteSet(Debited)' 
      BY <2>1, <2>3, <2>5, DebitedAfter DEF BooksInv
    <3> QED
      BY <2>1, <2>2, <2>5, <3>1 DEF BooksInv, WalletBooks
  <2> QED
    BY <2>4, <2>5
<1>5. CASE UNCHANGED rows
  <2>1. (crossed => crossed') /\ (lost \subseteq lost')
    BY Next
    DEF Next, RequestStep, HandlerStep, Goto, TypeOK, Initiate, DebitRead, DebitCommit, DebitFree,
        Send, SetReference, RevertRead, RevertCommit, TransferMoves, Receive, TransferOutEnded,
        FindTransfer, MarkPending, FindDeposit, FundRead, FundCommit, Arrive, Free, Fails,
        Crash, Acquire, GiveUp, LeaseEnds
  <2> QED
    BY <1>5, <2>1 DEF BooksInv, WalletBooks, rows, Debited, Credited
<1>6. ASSUME NEW r \in Requests, SetReference(r) PROVE BooksInv'
  BY <1>6 DEF SetReference, Goto, TypeOK, BooksInv, WalletBooks, Debited, Credited
<1> QED
  BY <1>1, <1>2, <1>3, <1>4, <1>5, <1>6, Next
     DEF Next, RequestStep, HandlerStep, Initiate, DebitRead, DebitFree, Send, RevertRead,
         TransferMoves, Receive, TransferOutEnded, FindTransfer, FindDeposit, FundRead,
         Arrive, Free, Fails, Crash, Acquire, GiveUp, LeaseEnds

(* The invariant is one of the specification.                              *)
THEOREM Invariance == Spec => []Inv
<1>1. ASSUME Inv, [Next]_vars PROVE Inv'
  <2>1. CASE Next
    BY <1>1, <2>1, TypesStep, PlaceStep, RowStep, AloneStep, BooksStep DEF Inv
  <2>2. CASE UNCHANGED vars
    BY <1>1, <2>2
       DEF Inv, vars, rows, fireblocks, TypeOK, PlaceInv, RowInv, AloneInv, Crossing,
           BooksInv, WalletBooks, Debited, Credited
  <2> QED
    BY <1>1, <2>1, <2>2
<1> QED
  BY InitInv, <1>1, PTL DEF Spec

(* Every reachable state is of the types.                                  *)
THEOREM TypeCorrect == Spec => []TypeOK
BY Invariance, PTL DEF Inv

(* The balance counts every standing debit and every credited deposit once *)
(* (debitWallet, revertWalletDebit, fundWallet), until they overlap under  *)
(* their different keys or a transfer's answer is lost.                    *)
THEOREM BooksCorrect == Spec => []WalletBooks
BY Invariance, PTL DEF Inv, BooksInv

(* A transfer under way has its debit (initiateTransaction), unless the    *)
(* exception came after the sending.                                       *)
THEOREM SentCorrect == Spec => []SentWasTaken
<1>1. Inv => SentWasTaken
  BY DEF Inv, RowInv, SentWasTaken
<1> QED
  BY Invariance, <1>1, PTL

-----------------------------------------------------------------------------
(* What is read is not negative, and a debit that goes on covers itself,   *)
(* whether sections overlap or not.                                        *)
FundsInv ==
    /\ balance >= 0
    /\ \A a \in Agents :
          /\ seen[a] >= 0
          /\ pc[a] = "debitCommit" => seen[a] >= Amount

(* Going on keeps what the others have read.                               *)
LEMMA GotoFunds ==
  ASSUME TypeOK, FundsInv, NEW a \in Agents, NEW p \in Points, Goto(a, p),
         p = "debitCommit" => balance >= Amount
  PROVE  \A b \in Agents :
            /\ seen'[b] >= 0
            /\ pc'[b] = "debitCommit" => seen'[b] >= Amount
BY BlockchainWalletAssumption DEF TypeOK, FundsInv, Goto, Sections

(* Only the three commits change the balance, and they write no negative   *)
(* one.                                                                    *)
LEMMA FundsStep == ASSUME TypeOK, FundsInv, [Next]_vars PROVE FundsInv'
<1> USE BlockchainWalletAssumption
    DEF rows, fireblocks, Kinds, Points, LastPoint
<1> DEFINE F == \A b \in Agents : /\ seen'[b] >= 0
                                  /\ pc'[b] = "debitCommit" => seen'[b] >= Amount
<1>a. ASSUME UNCHANGED <<pc, seen>> PROVE F
  BY <1>a DEF FundsInv
<1>b. ASSUME NEW a \in Agents, NEW p \in Points, p # "debitCommit", Goto(a, p)
      PROVE  F
  BY <1>b, GotoFunds
<1>r. \A r \in Requests : r \in Agents
  BY DEF Agents
<1>h. \A h \in Handlers : h \in Agents
  BY DEF Agents
<1>t. balance \in Int /\ balance >= 0 /\ \A a \in Agents : seen[a] \in Int /\ seen[a] >= 0
  BY DEF TypeOK, FundsInv
<1> HIDE DEF F
<1>1. ASSUME NEW r \in Requests, DebitRead(r) PROVE FundsInv'
  <2>1. F
    <3>1. CASE balance >= Amount
      BY <1>1, <1>r, <3>1, GotoFunds DEF DebitRead, F
    <3>2. CASE ~(balance >= Amount)
      BY <1>1, <1>r, <1>b, <3>2 DEF DebitRead
    <3> QED
      BY <3>1, <3>2
  <2> QED
    BY <1>1, <1>t, <2>1 DEF DebitRead, F, FundsInv
<1>2. ASSUME NEW r \in Requests, DebitCommit(r) PROVE FundsInv'
  <2>1. F
    BY <1>2, <1>r, <1>b DEF DebitCommit
  <2>2. seen[r] \in Int /\ seen[r] >= Amount
    BY <1>2, <1>r, <1>t DEF DebitCommit, FundsInv
  <2> QED
    BY <1>2, <2>1, <2>2 DEF DebitCommit, F, FundsInv
<1>3. ASSUME NEW r \in Requests, RevertCommit(r) PROVE FundsInv'
  <2>1. F
    BY <1>3, <1>r, <1>b DEF RevertCommit
  <2> QED
    BY <1>3, <1>r, <1>t, <2>1 DEF RevertCommit, F, FundsInv
<1>4. ASSUME NEW h \in Handlers, FundCommit(h) PROVE FundsInv'
  <2>1. F
    BY <1>4, <1>h, <1>b DEF FundCommit
  <2> QED
    BY <1>4, <1>h, <1>t, <2>1 DEF FundCommit, F, FundsInv
<1>5. ASSUME NEW r \in Requests,
             \/ Initiate(r) \/ DebitFree(r) \/ Send(r) \/ SetReference(r)
             \/ RevertRead(r) \/ TransferMoves(r)
      PROVE  F /\ balance' = balance
  BY <1>5, <1>r, <1>a, <1>b
     DEF Initiate, DebitFree, Send, SetReference, RevertRead, TransferMoves
<1>6. ASSUME NEW h \in Handlers,
             \/ \E e \in Events : Receive(h, e)
             \/ TransferOutEnded(h) \/ FindTransfer(h) \/ MarkPending(h)
             \/ FindDeposit(h) \/ FundRead(h)
      PROVE  F /\ balance' = balance
  <2>1. ASSUME NEW e \in Events, Receive(h, e) PROVE F /\ balance' = balance
    <3>1. /\ UNCHANGED <<balance, seen>>
          /\ \A b \in Agents : pc'[b] = "debitCommit" => pc[b] = "debitCommit"
      BY <2>1 DEF Receive, TypeOK
    <3> QED
      BY <3>1 DEF F, FundsInv
  <2> QED
    BY <1>6, <2>1, <1>h, <1>b
       DEF TransferOutEnded, FindTransfer, MarkPending, FindDeposit, FundRead
<1>7. ASSUME NEW a \in Agents, Free(a) \/ Fails(a) \/ Crash(a)
      PROVE  F /\ balance' = balance
  BY <1>7, <1>b DEF Free, Fails, Crash
<1>8. ASSUME NEW a \in Agents, NEW k \in Kinds, Acquire(a, k) \/ GiveUp(a, k)
      PROVE  F /\ balance' = balance
  BY <1>8, <1>b DEF Acquire, GiveUp, ReadPoint
<1>9. ASSUME \/ \E d \in Deposits : Arrive(d)
             \/ \E k \in Kinds : LeaseEnds(k)
             \/ UNCHANGED vars
      PROVE  F /\ balance' = balance
  BY <1>9, <1>a DEF Arrive, LeaseEnds, vars
<1>10. ASSUME F, balance' = balance PROVE FundsInv'
  BY <1>10, <1>t DEF F, FundsInv
<1> QED
  BY <1>1, <1>2, <1>3, <1>4, <1>5, <1>6, <1>7, <1>8, <1>9, <1>10
     DEF Next, RequestStep, HandlerStep

(* The wallet is never overdrawn, not even by debits that overlap with     *)
(* credits and reverts.                                                    *)
THEOREM FundsCorrect == Spec => []FundsInv
<1>1. Init => FundsInv
  BY BlockchainWalletAssumption DEF Init, FundsInv
<1>2. Inv /\ FundsInv /\ [Next]_vars => FundsInv'
  BY FundsStep DEF Inv
<1> QED
  BY <1>1, <1>2, Invariance, PTL DEF Spec

(* An overlap, once noticed, is remembered.                                *)
LEMMA CrossedStays == ASSUME TypeOK, crossed, [Next]_vars PROVE crossed'
BY DEF Next, RequestStep, HandlerStep, Goto, Initiate, DebitRead, DebitCommit,
       DebitFree, Send, SetReference, RevertRead, RevertCommit, TransferMoves,
       Receive, TransferOutEnded, FindTransfer, MarkPending, FindDeposit,
       FundRead, FundCommit, Arrive, Free, Fails, Crash, Acquire, GiveUp,
       LeaseEnds, vars

(* Every commit is an atomic update of the account, unless sections have   *)
(* overlapped, and other steps at most lose its trust.                     *)
LEMMA AccountStep ==
  ASSUME Inv, FundsInv, TypeOK', FundsInv', [Next]_vars
  PROVE  [AccountRef!Next]_<<balance, ~crossed>>
<1> USE BlockchainWalletAssumption
<1>a. crossed \in BOOLEAN /\ crossed' \in BOOLEAN /\ (crossed => crossed')
  BY CrossedStays DEF Inv, TypeOK
<1>b. balance' \in Nat
  BY DEF TypeOK, FundsInv
<1>1. CASE balance' = balance
  BY <1>1, <1>a DEF AccountRef!Next, AccountRef!LoseTrust
<1>2. ASSUME NEW a \in Agents, pc[a] \in Sections,
             balance' = seen[a] + Amount \/ balance' = seen[a] - Amount
      PROVE  AccountRef!Next
  <2>1. CASE crossed
    BY <2>1, <1>a, <1>b DEF AccountRef!Next, AccountRef!Untrusted
  <2>2. CASE ~crossed
    <3>1. seen[a] = balance /\ balance \in Int
      BY <1>2, <2>2 DEF Inv, AloneInv, TypeOK
    <3>2. \E d \in {Amount, -Amount} : balance' = balance + d /\ balance' >= 0
      BY <1>2, <1>b, <3>1
    <3> QED
      BY <2>2, <1>a, <3>2 DEF AccountRef!Next, AccountRef!Apply
  <2> QED
    BY <2>1, <2>2
<1>3. ASSUME NEW r \in Requests, DebitCommit(r) \/ RevertCommit(r)
      PROVE  AccountRef!Next
  BY <1>3, <1>2 DEF DebitCommit, RevertCommit, Sections, Agents
<1>4. ASSUME NEW h \in Handlers, FundCommit(h) PROVE AccountRef!Next
  BY <1>4, <1>2 DEF FundCommit, Sections, Agents
<1>5. CASE UNCHANGED vars
  BY <1>5, <1>1 DEF vars, rows
<1>6. ASSUME Next, \A r \in Requests : ~DebitCommit(r) /\ ~RevertCommit(r),
             \A h \in Handlers : ~FundCommit(h)
      PROVE  balance' = balance
  BY <1>6 DEF Next, RequestStep, HandlerStep, Initiate, DebitRead,
       DebitFree, Send, SetReference, RevertRead, TransferMoves,
       Receive, TransferOutEnded, FindTransfer, MarkPending, FindDeposit,
       FundRead, Arrive, Free, Fails, Crash, Acquire, GiveUp, LeaseEnds, rows
<1> QED
  BY <1>1, <1>3, <1>4, <1>5, <1>6

(* The stablecoin wallet implements the atomic account until debits,       *)
(* reverts and deposits overlap under their different keys.                *)
THEOREM AccountImplemented == Spec => AccountSpec
<1>1. Init => AccountRef!Init
  BY DEF Init, AccountRef!Init
<1>2. Inv /\ FundsInv /\ Inv' /\ FundsInv' /\ [Next]_vars
        => [AccountRef!Next]_<<balance, ~crossed>>
  BY AccountStep DEF Inv
<1> QED
  BY <1>1, <1>2, Invariance, FundsCorrect, PTL
     DEF Spec, AccountSpec, AccountRef!Spec
=============================================================================
