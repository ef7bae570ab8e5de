------------------------ MODULE NgnWithdrawalProofs ------------------------
(***************************************************************************)
(* Proofs about NgnWithdrawal, for any number of withdrawals, requests,    *)
(* jobs, operators, attempts and faults.                                   *)
(*                                                                         *)
(* The safety properties speak of counters at the end of a withdrawal; the *)
(* inductive invariant says where each agent may be for which state of the *)
(* withdrawal.  Its core is ownership: at any time at most one of handler, *)
(* poll job and operators can still move the money of an untainted         *)
(* withdrawal.                                                             *)
(*                                                                         *)
(* The last section is about CircuitBreaker, which every withdrawal goes   *)
(* through: for any number of calls and any durations.                     *)
(***************************************************************************)
EXTENDS NgnWithdrawal, CircuitBreaker, FiniteSetTheorems, TLAPS

(* The awaits before and at the transfer, and those between the transfer   *)
(* and the finally block.                                                  *)
PreTransfer == {"session", "ledger", "reserve", "escrow", "pendingTx",
                "pendingFwt", "circuit", "transfer"}

PostTransfer == {"confirm", "queue", "complete", "completeFwt", "notify"}

Handling == PreTransfer \cup PostTransfer \cup FailPoints

Unhandled(k) == \A r \in Requests : Tx[r] = k => pc[r] \notin Handling

Unattended(k) ==
    /\ \A j \in Jobs : Tx[j] = k => pc[j] = "none"
    /\ \A o \in Operators : Tx[o] = k => pc[o] = "idle"

Unpayable(k) == provider[k] \in {"none", "rejected"}

(* A withdrawal without rows has no history and nobody works on it.        *)
FreshInv ==
    \A k \in Keys : fwtStatus[k] = "none" =>
        /\ txStatus[k] = "none"
        /\ debits[k] = 0 /\ refunds[k] = 0 /\ transfers[k] = 0
        /\ escrow[k] = 0
        /\ provider[k] = "none"
        /\ Unhandled(k)
        /\ Unattended(k)

(* The unique key lets one request per withdrawal into the handler.        *)
OneHandlerInv ==
    \A r, s \in Requests :
        Tx[r] = Tx[s] /\ pc[r] \in Handling /\ pc[s] \in Handling => r = s

(* Until the transfer is sent nothing else can have touched the money.     *)
BeforeInv ==
    \A r \in Requests : pc[r] \in PreTransfer =>
        /\ txStatus[Tx[r]] = IF pc[r] \in {"pendingFwt", "circuit", "transfer"}
                             THEN "PENDING" ELSE "INITIATED"
        /\ provider[Tx[r]] = "none"
        /\ transfers[Tx[r]] = 0 /\ refunds[Tx[r]] = 0
        /\ debits[Tx[r]] =
              IF pc[r] \in {"session", "ledger", "reserve"} THEN 0 ELSE 1
        /\ Unattended(Tx[r])

CountInv ==
    \A k \in Keys :
        /\ debits[k] <= 1
        /\ transfers[k] <= debits[k]
        /\ escrow[k] # 0 => debits[k] = 1

(* After the transfer the handler is alone until it has queued a poll.     *)
AfterInv ==
    \A r \in Requests : Tx[r] \notin tainted /\ pc[r] \in PostTransfer =>
        /\ txStatus[Tx[r]] = IF pc[r] \in {"completeFwt", "notify"}
                             THEN "COMPLETED" ELSE "PENDING"
        /\ refunds[Tx[r]] = 0
        /\ Unattended(Tx[r])

(* A handler that fails a withdrawal: the provider will not pay, and the   *)
(* refund is still to come or its escrow is gone.                          *)
FailInv ==
    \A r \in Requests : Tx[r] \notin tainted /\ pc[r] \in FailPoints =>
        /\ txStatus[Tx[r]] \in IF pc[r] \in {"failFwt", "refund", "release"}
                               THEN {"FAILED"}
                               ELSE {"INITIATED", "PENDING", "FAILED"}
        /\ Unpayable(Tx[r])
        /\ pc[r] = "refund" => refunds[Tx[r]] = 0 /\ debits[Tx[r]] = 1
        /\ pc[r] # "release" => refunds[Tx[r]] = 0 \/ escrow[Tx[r]] = 0
        /\ Unattended(Tx[r])

(* A poll job is the only one of its withdrawal and knows its status.      *)
JobInv ==
    \A j \in Jobs : Tx[j] \notin tainted /\ pc[j] # "none" =>
        /\ \A i \in Jobs : Tx[i] = Tx[j] /\ pc[i] # "none" => i = j
        /\ Unhandled(Tx[j])
        /\ pc[j] \in {"poll", "complete", "failTx", "reviewTx"} =>
              txStatus[Tx[j]] = "PENDING"
        /\ pc[j] \in {"failFwt", "revert", "refund"} =>
              txStatus[Tx[j]] = "FAILED" /\ refunds[Tx[j]] = 0
        /\ pc[j] = "refund" => debits[Tx[j]] = 1
        /\ pc[j] \in FailPoints => Unpayable(Tx[j])

(* Operators work on a withdrawal only after handler and poller are done.  *)
OperatorInv ==
    \A o \in Operators : Tx[o] \notin tainted /\ pc[o] # "idle" =>
        /\ txStatus[Tx[o]] \in {"REVIEW", "FAILED"}
        /\ Unpayable(Tx[o])
        /\ Unhandled(Tx[o])
        /\ \A j \in Jobs : Tx[j] = Tx[o] =>
              pc[j] \in {"none", "queued", "reviewFwt"}
        /\ pc[o] = "decided" /\ seen[o] > 0 => debits[Tx[o]] = 1

StatusInv ==
    \A k \in Keys \ tainted :
        /\ txStatus[k] \in {"INITIATED", "PENDING", "REVIEW"} => refunds[k] = 0
        /\ txStatus[k] = "REVIEW" =>
              /\ Unhandled(k)
              /\ \A j \in Jobs : Tx[j] = k =>
                    pc[j] \in {"none", "queued", "reviewFwt"}
        /\ refunds[k] <= debits[k]
        /\ refunds[k] > 0 => Unpayable(k)

SafetyInv ==
    /\ FreshInv
    /\ OneHandlerInv
    /\ BeforeInv
    /\ CountInv
    /\ AfterInv
    /\ FailInv
    /\ JobInv
    /\ OperatorInv
    /\ StatusInv

Inv == TypeOK /\ SafetyInv

-----------------------------------------------------------------------------
(* Type correctness                                                        *)

(* The steps of the request handler preserve the types.                    *)
LEMMA HandlerTypes ==
  ASSUME TypeOK, NEW r \in Requests, HandlerStep(r) \/ Decline(r)
  PROVE  TypeOK'
<1> USE NgnWithdrawalAssumption
    DEF Agents, money, rows, remote, env, local, TypeOK, Statuses, TryPoints,
        FailPoints, RequestPoints, JobPoints, OperatorPoints
<1>1. CASE Receive(r)
  BY <1>1 DEF Receive, Goto
<1>2. CASE Decline(r)
  BY <1>2 DEF Decline, Goto
<1>3. CASE CheckSession(r)
  BY <1>3 DEF CheckSession, Goto
<1>4. CASE CreateRows(r)
  BY <1>4 DEF CreateRows, Goto
<1>5. CASE StartSession(r)
  BY <1>5 DEF StartSession, Goto
<1>6. CASE CheckLedger(r)
  BY <1>6 DEF CheckLedger, Raise, Enter, Goto
<1>7. CASE ReserveBalance(r)
  BY <1>7 DEF ReserveBalance, Debit, Raise, Enter, Goto
<1>8. CASE MoveMoneyToEscrow(r)
  BY <1>8 DEF MoveMoneyToEscrow, Goto
<1>9. CASE MarkPending(r)
  BY <1>9 DEF MarkPending, Goto
<1>10. CASE CheckCircuit(r)
  BY <1>10 DEF CheckCircuit, Enter, Goto
<1>11. CASE Transfer(r)
  BY <1>11 DEF Transfer, Enter, Goto
<1>12. CASE ConfirmStatus(r)
  BY <1>12 DEF ConfirmStatus, Enter, Goto
<1>13. CASE QueueStatusPoll(r)
  BY <1>13 DEF QueueStatusPoll, AddJob
<1>14. CASE Notify(r)
  BY <1>14 DEF Notify, Goto
<1>15. CASE EndSession(r)
  BY <1>15 DEF EndSession, Goto
<1> QED
  BY <1>1, <1>2, <1>3, <1>4, <1>5, <1>6, <1>7, <1>8, <1>9,
     <1>10, <1>11, <1>12, <1>13, <1>14, <1>15 DEF HandlerStep

(* The steps of a poll job preserve the types.                             *)
LEMMA PollerTypes ==
  ASSUME TypeOK, NEW j \in Jobs, PollerStep(j) \/ PollError(j)
  PROVE  TypeOK'
<1> USE NgnWithdrawalAssumption
    DEF Agents, money, rows, remote, env, local, TypeOK, Statuses, TryPoints,
        FailPoints, RequestPoints, JobPoints, OperatorPoints
<1>1. CASE StartPoll(j)
  BY <1>1 DEF StartPoll, Goto
<1>2. CASE Poll(j)
  BY <1>2 DEF Poll, Requeue, Goto
<1>3. CASE PollError(j)
  BY <1>3 DEF PollError, Requeue, Goto
<1>4. CASE MarkReview(j)
  BY <1>4 DEF MarkReview, Goto
<1> QED
  BY <1>1, <1>2, <1>3, <1>4 DEF PollerStep

(* The steps of an operator request preserve the types.                    *)
LEMMA OperatorTypes ==
  ASSUME TypeOK, NEW o \in Operators, OperatorStep(o)
  PROVE  TypeOK'
<1> USE NgnWithdrawalAssumption
    DEF Agents, money, rows, remote, env, local, TypeOK, Statuses, TryPoints,
        FailPoints, RequestPoints, JobPoints, OperatorPoints
<1>1. CASE OperatorDecides(o)
  BY <1>1 DEF OperatorDecides, Goto
<1>2. CASE OperatorRefunds(o)
  BY <1>2 DEF OperatorRefunds, Credit, Goto
<1> QED
  BY <1>1, <1>2 DEF OperatorStep

(* The steps that complete or fail a withdrawal preserve the types.        *)
LEMMA SharedTypes ==
  ASSUME TypeOK, NEW a \in Agents, SharedStep(a)
  PROVE  TypeOK'
<1> USE NgnWithdrawalAssumption
    DEF Agents, money, rows, remote, env, local, TypeOK, Statuses, TryPoints,
        FailPoints, RequestPoints, JobPoints, OperatorPoints
<1>1. CASE Complete(a)
  BY <1>1 DEF Complete, Goto
<1>2. CASE Fail(a)
  BY <1>2 DEF Fail, Goto
<1>3. CASE Revert(a)
  BY <1>3 DEF Revert, AfterRevert, Raise, Enter, Goto
<1>4. CASE Refund(a)
  BY <1>4 DEF Refund, Credit, Throw, Requeue, Raise, Enter, Goto
<1>5. CASE ReleaseEscrow(a)
  BY <1>5 DEF ReleaseEscrow, AfterRevert, Raise, Enter, Goto
<1> QED
  BY <1>1, <1>2, <1>3, <1>4, <1>5 DEF SharedStep

(* The exceptions preserve the types.                                      *)
LEMMA FaultTypes ==
  ASSUME TypeOK, NEW a \in Agents, FaultStep(a)
  PROVE  TypeOK'
<1> USE NgnWithdrawalAssumption
    DEF Agents, money, rows, remote, env, local, TypeOK, Statuses, TryPoints,
        FailPoints, RequestPoints, JobPoints, OperatorPoints
<1>1. CASE CallFails(a)
  BY <1>1 DEF CallFails, CountFault, Delicate, Throw, Requeue, Raise,
     Enter, Goto
<1>2. CASE CommitsThenThrows(a)
  BY <1>2 DEF CommitsThenThrows, CountFault, Debit, Credit, Delicate, Throw,
     Requeue, Raise, Enter, Goto
<1>3. CASE a \in Requests /\ EndSessionFails(a)
  BY <1>3 DEF EndSessionFails, CountFault, Goto
<1>4. CASE a \in Requests /\ AddJobTimesOut(a)
  BY <1>4 DEF AddJobTimesOut, CountFault, AddJob
<1>5. CASE a \in Jobs /\ RequeueTimesOut(a)
  BY <1>5 DEF RequeueTimesOut, CountFault
<1> QED
  BY <1>1, <1>2, <1>3, <1>4, <1>5 DEF FaultStep

(* The type invariant is inductive by itself.                              *)
LEMMA TypesPreserved == TypeOK /\ [Next]_vars => TypeOK'
<1> SUFFICES ASSUME TypeOK, [Next]_vars PROVE TypeOK'
  OBVIOUS
<1>1. CASE \E r \in Requests : HandlerStep(r) \/ Decline(r)
  BY <1>1, HandlerTypes
<1>2. CASE \E j \in Jobs : PollerStep(j) \/ PollError(j)
  BY <1>2, PollerTypes
<1>3. CASE \E o \in Operators : OperatorStep(o)
  BY <1>3, OperatorTypes
<1>4. CASE \E a \in Agents : SharedStep(a) \/ FaultStep(a)
  BY <1>4, SharedTypes, FaultTypes
<1>5. CASE \E k \in Keys : ProviderSettles(k)
  BY <1>5 DEF ProviderSettles, money, rows, env, local, TypeOK
<1>6. CASE Restart
  <2> USE <1>6, NgnWithdrawalAssumption DEF Restart, TypeOK, Agents
  <2>1. /\ pc' \in [Agents -> RequestPoints \cup JobPoints \cup OperatorPoints]
        /\ \A r \in Requests : pc'[r] \in RequestPoints
        /\ \A j \in Jobs : pc'[j] \in JobPoints
        /\ \A o \in Operators : pc'[o] \in OperatorPoints
    BY DEF RequestPoints, JobPoints, OperatorPoints
  <2>2. faults' \in 0..MaxFaults
    BY DEF CountFault
  <2>3. registered' \in BOOLEAN
    OBVIOUS
  <2> QED
    BY <2>1, <2>2, <2>3 DEF money, rows, remote, local
<1>7. CASE UNCHANGED vars
  BY <1>7 DEF vars, money, rows, remote, env, local, TypeOK
<1> QED
  BY <1>1, <1>2, <1>3, <1>4, <1>5, <1>6, <1>7 DEF Next

(* The initial values have the declared types.                             *)
LEMMA InitTypes == Init => TypeOK
<1> SUFFICES ASSUME Init PROVE TypeOK
  OBVIOUS
<1> USE NgnWithdrawalAssumption DEF Init, Agents
<1>1. /\ pc \in [Agents -> RequestPoints \cup JobPoints \cup OperatorPoints]
      /\ \A r \in Requests : pc[r] \in RequestPoints
      /\ \A j \in Jobs : pc[j] \in JobPoints
      /\ \A o \in Operators : pc[o] \in OperatorPoints
  BY DEF RequestPoints, JobPoints, OperatorPoints
<1>2. /\ mode \in [Agents -> {"try", "rethrow", "return", "catch"}]
      /\ seen \in [Agents -> Nat]
      /\ attempt \in [Jobs -> 1..MaxAttempts]
      /\ faults \in 0..MaxFaults
  OBVIOUS
<1>3. registered \in BOOLEAN
  OBVIOUS
<1> QED
  BY <1>1, <1>2, <1>3 DEF TypeOK, Statuses

(* Every variable keeps its type: the poll attempts stay within            *)
(* MaxAttempts, and requests, jobs and operators at their own calls.       *)
THEOREM WithdrawalTypes == Spec => []TypeOK
<1>1. Init => TypeOK
  BY InitTypes
<1> QED
  BY <1>1, TypesPreserved, PTL DEF Spec

-----------------------------------------------------------------------------
(* Ownership of the money                                                  *)

(* The steps of the request handler preserve the ownership invariant.      *)
LEMMA HandlerSafety ==
  ASSUME Inv, NEW r \in Requests, HandlerStep(r) \/ Decline(r)
  PROVE  SafetyInv'
<1> USE NgnWithdrawalAssumption
    DEF Agents, money, rows, remote, env, local, TypeOK, TryPoints,
        FailPoints, RequestPoints, JobPoints, OperatorPoints, Inv, SafetyInv,
        FreshInv, OneHandlerInv, BeforeInv, CountInv, AfterInv, FailInv,
        JobInv, OperatorInv, StatusInv, Unhandled, Unattended, Unpayable,
        Handling, PreTransfer, PostTransfer
<1>1. CASE Receive(r)
  BY <1>1, SMTT(60) DEF Receive, Goto
<1>2. CASE Decline(r)
  BY <1>2, SMTT(60) DEF Decline, Goto
<1>3. CASE CheckSession(r)
  BY <1>3, SMTT(60) DEF CheckSession, Goto
<1>4. CASE CreateRows(r)
  BY <1>4, SMTT(60) DEF CreateRows, Goto
<1>5. CASE StartSession(r)
  BY <1>5, SMTT(60) DEF StartSession, Goto
<1>6. CASE CheckLedger(r)
  BY <1>6, SMTT(60) DEF CheckLedger, Raise, Enter, Goto
<1>7. CASE ReserveBalance(r)
  BY <1>7, SMTT(60) DEF ReserveBalance, Debit, Raise, Enter, Goto
<1>8. CASE MoveMoneyToEscrow(r)
  BY <1>8, SMTT(60) DEF MoveMoneyToEscrow, Goto
<1>9. CASE MarkPending(r)
  BY <1>9, SMTT(60) DEF MarkPending, Goto
<1>10. CASE CheckCircuit(r)
  BY <1>10, SMTT(60) DEF CheckCircuit, Enter, Goto
<1>11. CASE Transfer(r)
  BY <1>11, SMTT(60) DEF Transfer, Enter, Goto
<1>12. CASE ConfirmStatus(r)
  BY <1>12, SMTT(60) DEF ConfirmStatus, Enter, Goto
<1>13. CASE QueueStatusPoll(r)
  BY <1>13, SMTT(60) DEF QueueStatusPoll, AddJob
<1>14. CASE Notify(r)
  BY <1>14, SMTT(60) DEF Notify, Goto
<1>15. CASE EndSession(r)
  BY <1>15, SMTT(60) DEF EndSession, Goto
<1> QED
  BY <1>1, <1>2, <1>3, <1>4, <1>5, <1>6, <1>7, <1>8, <1>9,
     <1>10, <1>11, <1>12, <1>13, <1>14, <1>15 DEF HandlerStep

(* The steps of a poll job preserve the ownership invariant.               *)
LEMMA PollerSafety ==
  ASSUME Inv, NEW j \in Jobs, PollerStep(j) \/ PollError(j)
  PROVE  SafetyInv'
<1> USE NgnWithdrawalAssumption
    DEF Agents, money, rows, remote, env, local, TypeOK, TryPoints,
        FailPoints, RequestPoints, JobPoints, OperatorPoints, Inv, SafetyInv,
        FreshInv, OneHandlerInv, BeforeInv, CountInv, AfterInv, FailInv,
        JobInv, OperatorInv, StatusInv, Unhandled, Unattended, Unpayable,
        Handling, PreTransfer, PostTransfer
<1>1. CASE StartPoll(j)
  BY <1>1, SMTT(60) DEF StartPoll, Goto
<1>2. CASE Poll(j)
  BY <1>2, SMTT(60) DEF Poll, Requeue, Goto
<1>3. CASE PollError(j)
  BY <1>3, SMTT(60) DEF PollError, Requeue, Goto
<1>4. CASE MarkReview(j)
  BY <1>4, SMTT(60) DEF MarkReview, Goto
<1> QED
  BY <1>1, <1>2, <1>3, <1>4 DEF PollerStep

(* The steps of an operator request preserve the ownership invariant.      *)
LEMMA OperatorSafety ==
  ASSUME Inv, NEW o \in Operators, OperatorStep(o)
  PROVE  SafetyInv'
<1> USE NgnWithdrawalAssumption
    DEF Agents, money, rows, remote, env, local, TypeOK, TryPoints,
        FailPoints, RequestPoints, JobPoints, OperatorPoints, Inv, SafetyInv,
        FreshInv, OneHandlerInv, BeforeInv, CountInv, AfterInv, FailInv,
        JobInv, OperatorInv, StatusInv, Unhandled, Unattended, Unpayable,
        Handling, PreTransfer, PostTransfer
<1>1. CASE OperatorDecides(o)
  BY <1>1, SMTT(60) DEF OperatorDecides, Goto
<1>2. CASE OperatorRefunds(o)
  BY <1>2, SMTT(60) DEF OperatorRefunds, Credit, Goto
<1> QED
  BY <1>1, <1>2 DEF OperatorStep

(* The steps that complete or fail a withdrawal preserve the ownership     *)
(* invariant.                                                              *)
LEMMA SharedSafety ==
  ASSUME Inv, NEW a \in Agents, SharedStep(a)
  PROVE  SafetyInv'
<1> USE NgnWithdrawalAssumption
    DEF Agents, money, rows, remote, env, local, TypeOK, TryPoints,
        FailPoints, RequestPoints, JobPoints, OperatorPoints, Inv, SafetyInv,
        FreshInv, OneHandlerInv, BeforeInv, CountInv, AfterInv, FailInv,
        JobInv, OperatorInv, StatusInv, Unhandled, Unattended, Unpayable,
        Handling, PreTransfer, PostTransfer
<1>1. CASE Complete(a)
  BY <1>1, SMTT(60) DEF Complete, Goto
<1>2. CASE Fail(a)
  BY <1>2, SMTT(60) DEF Fail, Goto
<1>3. CASE Revert(a)
  BY <1>3, SMTT(60) DEF Revert, AfterRevert, Raise, Enter, Goto
<1>4. CASE Refund(a)
  BY <1>4, SMTT(60) DEF Refund, Credit, Throw, Requeue, Raise, Enter, Goto
<1>5. CASE ReleaseEscrow(a)
  BY <1>5, SMTT(60) DEF ReleaseEscrow, AfterRevert, Raise, Enter, Goto
<1> QED
  BY <1>1, <1>2, <1>3, <1>4, <1>5 DEF SharedStep

(* The exceptions preserve the ownership invariant.                        *)
LEMMA FaultSafety ==
  ASSUME Inv, NEW a \in Agents, FaultStep(a)
  PROVE  SafetyInv'
<1> USE NgnWithdrawalAssumption
    DEF Agents, money, rows, remote, env, local, TypeOK, TryPoints,
        FailPoints, RequestPoints, JobPoints, OperatorPoints, Inv, SafetyInv,
        FreshInv, OneHandlerInv, BeforeInv, CountInv, AfterInv, FailInv,
        JobInv, OperatorInv, StatusInv, Unhandled, Unattended, Unpayable,
        Handling, PreTransfer, PostTransfer
<1>1. CASE CallFails(a)
  BY <1>1, SMTT(60) DEF CallFails, CountFault, Delicate, Throw, Requeue, Raise,
     Enter, Goto
<1>2. CASE CommitsThenThrows(a)
  BY <1>2, SMTT(60)
  DEF CommitsThenThrows, CountFault, Debit, Credit, Delicate, Throw,
      Requeue, Raise, Enter, Goto
<1>3. CASE a \in Requests /\ EndSessionFails(a)
  BY <1>3, SMTT(60) DEF EndSessionFails, CountFault, Goto
<1>4. CASE a \in Requests /\ AddJobTimesOut(a)
  BY <1>4, SMTT(60) DEF AddJobTimesOut, CountFault, AddJob
<1>5. CASE a \in Jobs /\ RequeueTimesOut(a)
  BY <1>5, SMTT(60) DEF RequeueTimesOut, CountFault
<1> QED
  BY <1>1, <1>2, <1>3, <1>4, <1>5 DEF FaultStep

(* The inductive invariant is preserved by every step.                     *)
LEMMA InvPreserved == Inv /\ [Next]_vars => Inv'
<1> SUFFICES ASSUME Inv, [Next]_vars PROVE SafetyInv'
  BY TypesPreserved DEF Inv
<1>1. CASE \E r \in Requests : HandlerStep(r) \/ Decline(r)
  BY <1>1, HandlerSafety
<1>2. CASE \E j \in Jobs : PollerStep(j) \/ PollError(j)
  BY <1>2, PollerSafety
<1>3. CASE \E o \in Operators : OperatorStep(o)
  BY <1>3, OperatorSafety
<1>4. CASE \E a \in Agents : SharedStep(a) \/ FaultStep(a)
  BY <1>4, SharedSafety, FaultSafety
<1>5. CASE \E k \in Keys : ProviderSettles(k)
  BY <1>5, NgnWithdrawalAssumption, SMTT(60)
  DEF ProviderSettles, Agents, money, rows, env, local, Inv, TypeOK,
      SafetyInv, FreshInv, OneHandlerInv, BeforeInv, CountInv, AfterInv,
      FailInv, JobInv, OperatorInv, StatusInv, Unhandled, Unattended,
      Unpayable, Handling, PreTransfer, PostTransfer, FailPoints
<1>6. CASE Restart
  BY <1>6, NgnWithdrawalAssumption, SMTT(60)
  DEF Restart, CountFault, Agents, money, rows, remote, local, Inv, TypeOK,
      SafetyInv, FreshInv, OneHandlerInv, BeforeInv, CountInv, AfterInv,
      FailInv, JobInv, OperatorInv, StatusInv, Unhandled, Unattended,
      Unpayable, Handling, PreTransfer, PostTransfer, FailPoints
<1>7. CASE UNCHANGED vars
  BY <1>7
  DEF vars, money, rows, remote, env, local, Inv,
      SafetyInv, FreshInv, OneHandlerInv, BeforeInv, CountInv, AfterInv,
      FailInv, JobInv, OperatorInv, StatusInv, Unhandled, Unattended,
      Unpayable, Handling, PreTransfer, PostTransfer, FailPoints
<1> QED
  BY <1>1, <1>2, <1>3, <1>4, <1>5, <1>6, <1>7 DEF Next

(* The inductive invariant holds in every reachable state.                 *)
THEOREM WithdrawalInv == Spec => []Inv
<1>1. Init => Inv
  <2> SUFFICES ASSUME Init PROVE SafetyInv
    BY InitTypes DEF Inv
  <2> QED
    BY NgnWithdrawalAssumption
    DEF Init, Agents, SafetyInv, FreshInv, OneHandlerInv, BeforeInv,
        CountInv, AfterInv, FailInv, JobInv, OperatorInv, StatusInv,
        Unhandled, Unattended, Unpayable, Handling, PreTransfer,
        PostTransfer, FailPoints
<1> QED
  BY <1>1, InvPreserved, PTL DEF Spec

-----------------------------------------------------------------------------
(* What an exception-free withdrawal waits for                             *)

(* Its money is reserved and in escrow, or it has none.                    *)
Open(k) == debits[k] = 1 /\ refunds[k] = 0 /\ escrow[k] # 0
Balanced(k) == refunds[k] = debits[k] /\ escrow[k] = 0

At(k, A, P) == \E a \in A : Tx[a] = k /\ pc[a] \in P

(* A status that is not the last word has somebody who will change it.     *)
Owned(k) ==
    /\ txStatus[k] = "none" => fwtStatus[k] = "none"
    /\ txStatus[k] = "INITIATED" =>
          At(k, Requests, {"session", "ledger", "reserve", "escrow", "pendingTx",
                           "failTx"})
    /\ txStatus[k] \in {"PENDING", "REVIEW"} => Open(k)
    /\ txStatus[k] = "PENDING" =>
          \/ At(k, Requests, {"pendingFwt", "circuit", "transfer", "confirm",
                              "queue", "complete", "failTx", "revert"})
          \/ At(k, Jobs, {"queued", "poll", "complete", "failTx", "reviewTx"})
    /\ txStatus[k] = "FAILED" =>
          /\ Unpayable(k)
          /\ \/ Balanced(k)
             \/ Open(k) /\ At(k, Agents, {"failFwt", "revert", "refund"})
             \/ refunds[k] = debits[k] /\ At(k, Agents, {"release"})
    /\ txStatus[k] = "COMPLETED" =>
          /\ provider[k] = "paid" /\ refunds[k] = 0
          /\ fwtStatus[k] = "COMPLETED" \/ At(k, Agents, {"completeFwt"})

(* What an agent may rely on at its place.                                 *)
Relies(a) ==
    LET k == Tx[a] IN
    /\ a \in Requests =>
          /\ pc[a] \in {"idle", "checkSession", "create"} \cup PreTransfer =>
                mode[a] = "try"
          /\ pc[a] \in {"session", "ledger", "reserve"} => escrow[k] = 0
          /\ pc[a] = "revert" /\ txStatus[k] = "PENDING" => mode[a] = "rethrow"
    /\ pc[a] = "pendingTx" => Open(k)
    /\ pc[a] = "failTx" => Open(k) \/ Balanced(k)
    /\ pc[a] = "release" => txStatus[k] = "FAILED" /\ refunds[k] = debits[k]
    /\ pc[a] = "complete" => provider[k] = "paid"
    /\ pc[a] = "reviewFwt" => txStatus[k] \in {"REVIEW", "FAILED"}
    /\ pc[a] = "decided" => seen[a] > 0

SettleInv ==
    faults = 0 =>
        /\ \A k \in Keys \ tainted : Owned(k)
        /\ \A a \in Agents : Tx[a] \notin tainted => Relies(a)

(* A step touches one withdrawal and those who work for it.                *)
Only(k) ==
    /\ tainted \subseteq tainted'
    /\ \A l \in Keys \ {k} :
          /\ txStatus'[l] = txStatus[l] /\ fwtStatus'[l] = fwtStatus[l]
          /\ debits'[l] = debits[l] /\ refunds'[l] = refunds[l]
          /\ escrow'[l] = escrow[l] /\ provider'[l] = provider[l]
    /\ \A b \in Agents : Tx[b] # k =>
          pc'[b] = pc[b] /\ mode'[b] = mode[b] /\ seen'[b] = seen[b]

LEMMA OthersSettle ==
  ASSUME SettleInv, faults = 0, NEW k \in Keys, Only(k),
         k \notin tainted' => Owned(k)',
         k \notin tainted' => \A b \in Agents : Tx[b] = k => Relies(b)'
  PROVE  SettleInv'
<1> USE NgnWithdrawalAssumption DEF Only
<1>1. ASSUME NEW l \in Keys \ {k}, l \notin tainted' PROVE Owned(l)'
  <2>1. Owned(l)
    BY <1>1 DEF SettleInv
  <2>2. \A A, P : A \subseteq Agents /\ At(l, A, P) => At(l, A, P)'
    BY <1>1 DEF At
  <2> QED
    BY <1>1, <2>1, <2>2 DEF Owned, Open, Balanced, Unpayable, Agents
<1>2. ASSUME NEW b \in Agents, Tx[b] # k, Tx[b] \notin tainted' PROVE Relies(b)'
  <2>1. Relies(b)
    BY <1>2 DEF SettleInv
  <2> QED
    BY <1>2, <2>1 DEF Relies, Open, Balanced, Agents
<1> QED
  BY <1>1, <1>2 DEF SettleInv, Agents

(* The steps of the request handler keep the withdrawal settling.          *)
LEMMA HandlerSettles ==
  ASSUME Inv, SettleInv, faults = 0, NEW r \in Requests, HandlerStep(r) \/ Decline(r)
  PROVE  SettleInv'
<1> DEFINE k == Tx[r]
<1> USE NgnWithdrawalAssumption
    DEF Agents, money, rows, remote, env, local, Goto, TryPoints, FailPoints,
        RequestPoints, JobPoints, OperatorPoints, TypeOK, SettleInv, Owned,
        Relies, Open, Balanced, At, Inv, SafetyInv, FreshInv, OneHandlerInv, BeforeInv, AfterInv, FailInv,
        JobInv, OperatorInv, StatusInv, CountInv, Unhandled, Unattended, Unpayable,
        Handling, PreTransfer, PostTransfer
<1>0. r \in Agents /\ k \in Keys
  OBVIOUS
<1>1. CASE Receive(r)
  <2>1. Only(k)
    BY <1>0, <1>1 DEF Receive, Only
  <2>2. k \notin tainted' => Owned(k)'
    BY <1>0, <1>1, SMTT(30) DEF Receive
  <2>3. k \notin tainted' => \A b \in Agents : Tx[b] = k => Relies(b)'
    BY <1>0, <1>1, SMTT(30) DEF Receive
  <2> QED
    BY <1>0, <2>1, <2>2, <2>3, OthersSettle
<1>2. CASE Decline(r)
  <2>1. Only(k)
    BY <1>0, <1>2 DEF Decline, Only
  <2>2. k \notin tainted' => Owned(k)'
    BY <1>0, <1>2, SMTT(30) DEF Decline
  <2>3. k \notin tainted' => \A b \in Agents : Tx[b] = k => Relies(b)'
    BY <1>0, <1>2, SMTT(30) DEF Decline
  <2> QED
    BY <1>0, <2>1, <2>2, <2>3, OthersSettle
<1>3. CASE CheckSession(r)
  <2>1. Only(k)
    BY <1>0, <1>3 DEF CheckSession, Only
  <2>2. k \notin tainted' => Owned(k)'
    BY <1>0, <1>3, SMTT(30) DEF CheckSession
  <2>3. k \notin tainted' => \A b \in Agents : Tx[b] = k => Relies(b)'
    BY <1>0, <1>3, SMTT(30) DEF CheckSession
  <2> QED
    BY <1>0, <2>1, <2>2, <2>3, OthersSettle
<1>4. CASE CreateRows(r)
  <2>1. Only(k)
    BY <1>0, <1>4 DEF CreateRows, Only
  <2>2. k \notin tainted' => Owned(k)'
    BY <1>0, <1>4, SMTT(30) DEF CreateRows
  <2>3. k \notin tainted' => \A b \in Agents : Tx[b] = k => Relies(b)'
    BY <1>0, <1>4, SMTT(30) DEF CreateRows
  <2> QED
    BY <1>0, <2>1, <2>2, <2>3, OthersSettle
<1>5. CASE StartSession(r)
  <2>1. Only(k)
    BY <1>0, <1>5 DEF StartSession, Only
  <2>2. k \notin tainted' => Owned(k)'
    BY <1>0, <1>5, SMTT(30) DEF StartSession
  <2>3. k \notin tainted' => \A b \in Agents : Tx[b] = k => Relies(b)'
    BY <1>0, <1>5, SMTT(30) DEF StartSession
  <2> QED
    BY <1>0, <2>1, <2>2, <2>3, OthersSettle
<1>6. CASE CheckLedger(r)
  <2>1. Only(k)
    BY <1>0, <1>6 DEF CheckLedger, Raise, Enter, Only
  <2>2. k \notin tainted' => Owned(k)'
    BY <1>0, <1>6, SMTT(30) DEF CheckLedger, Raise, Enter
  <2>3. k \notin tainted' => \A b \in Agents : Tx[b] = k => Relies(b)'
    BY <1>0, <1>6, SMTT(30) DEF CheckLedger, Raise, Enter
  <2> QED
    BY <1>0, <2>1, <2>2, <2>3, OthersSettle
<1>7. CASE ReserveBalance(r)
  <2>1. Only(k)
    BY <1>0, <1>7 DEF ReserveBalance, Debit, Raise, Enter, Only
  <2>2. k \notin tainted' => Owned(k)'
    BY <1>0, <1>7, SMTT(30) DEF ReserveBalance, Debit, Raise, Enter
  <2>3. k \notin tainted' => \A b \in Agents : Tx[b] = k => Relies(b)'
    BY <1>0, <1>7, SMTT(30) DEF ReserveBalance, Debit, Raise, Enter
  <2> QED
    BY <1>0, <2>1, <2>2, <2>3, OthersSettle
<1>8. CASE MoveMoneyToEscrow(r)
  <2>1. Only(k)
    BY <1>0, <1>8 DEF MoveMoneyToEscrow, Only
  <2>2. k \notin tainted' => Owned(k)'
    BY <1>0, <1>8, SMTT(30) DEF MoveMoneyToEscrow
  <2>3. k \notin tainted' => \A b \in Agents : Tx[b] = k => Relies(b)'
    BY <1>0, <1>8, SMTT(30) DEF MoveMoneyToEscrow
  <2> QED
    BY <1>0, <2>1, <2>2, <2>3, OthersSettle
<1>9. CASE MarkPending(r)
  <2>1. Only(k)
    BY <1>0, <1>9 DEF MarkPending, Only
  <2>2. k \notin tainted' => Owned(k)'
    BY <1>0, <1>9, SMTT(30) DEF MarkPending
  <2>3. k \notin tainted' => \A b \in Agents : Tx[b] = k => Relies(b)'
    BY <1>0, <1>9, SMTT(30) DEF MarkPending
  <2> QED
    BY <1>0, <2>1, <2>2, <2>3, OthersSettle
<1>10. CASE CheckCircuit(r)
  <2>1. Only(k)
    BY <1>0, <1>10 DEF CheckCircuit, Enter, Only
  <2>2. k \notin tainted' => Owned(k)'
    BY <1>0, <1>10, SMTT(30) DEF CheckCircuit, Enter
  <2>3. k \notin tainted' => \A b \in Agents : Tx[b] = k => Relies(b)'
    BY <1>0, <1>10, SMTT(30) DEF CheckCircuit, Enter
  <2> QED
    BY <1>0, <2>1, <2>2, <2>3, OthersSettle
<1>11. CASE Transfer(r)
  <2>1. Only(k)
    BY <1>0, <1>11 DEF Transfer, Enter, Only
  <2>2. k \notin tainted' => Owned(k)'
    BY <1>0, <1>11, SMTT(30) DEF Transfer, Enter
  <2>3. k \notin tainted' => \A b \in Agents : Tx[b] = k => Relies(b)'
    BY <1>0, <1>11, SMTT(30) DEF Transfer, Enter
  <2> QED
    BY <1>0, <2>1, <2>2, <2>3, OthersSettle
<1>12. CASE ConfirmStatus(r)
  <2>1. Only(k)
    BY <1>0, <1>12 DEF ConfirmStatus, Enter, Only
  <2>2. k \notin tainted' => Owned(k)'
    BY <1>0, <1>12, SMTT(30) DEF ConfirmStatus, Enter
  <2>3. k \notin tainted' => \A b \in Agents : Tx[b] = k => Relies(b)'
    BY <1>0, <1>12, SMTT(30) DEF ConfirmStatus, Enter
  <2> QED
    BY <1>0, <2>1, <2>2, <2>3, OthersSettle
<1>13. CASE QueueStatusPoll(r)
  <2>1. Only(k)
    BY <1>0, <1>13 DEF QueueStatusPoll, AddJob, Only
  <2>2. k \notin tainted' => Owned(k)'
    BY <1>0, <1>13, SMTT(30) DEF QueueStatusPoll, AddJob
  <2>3. k \notin tainted' => \A b \in Agents : Tx[b] = k => Relies(b)'
    BY <1>0, <1>13, SMTT(30) DEF QueueStatusPoll, AddJob
  <2> QED
    BY <1>0, <2>1, <2>2, <2>3, OthersSettle
<1>14. CASE Notify(r)
  <2>1. Only(k)
    BY <1>0, <1>14 DEF Notify, Only
  <2>2. k \notin tainted' => Owned(k)'
    BY <1>0, <1>14, SMTT(30) DEF Notify
  <2>3. k \notin tainted' => \A b \in Agents : Tx[b] = k => Relies(b)'
    BY <1>0, <1>14, SMTT(30) DEF Notify
  <2> QED
    BY <1>0, <2>1, <2>2, <2>3, OthersSettle
<1>15. CASE EndSession(r)
  <2>1. Only(k)
    BY <1>0, <1>15 DEF EndSession, Only
  <2>2. k \notin tainted' => Owned(k)'
    BY <1>0, <1>15, SMTT(30) DEF EndSession
  <2>3. k \notin tainted' => \A b \in Agents : Tx[b] = k => Relies(b)'
    BY <1>0, <1>15, SMTT(30) DEF EndSession
  <2> QED
    BY <1>0, <2>1, <2>2, <2>3, OthersSettle
<1> QED
  BY <1>1, <1>2, <1>3, <1>4, <1>5, <1>6, <1>7, <1>8, <1>9, <1>10, <1>11, <1>12, <1>13, <1>14, <1>15 DEF HandlerStep

(* The steps of a poll job do, ...                                         *)
LEMMA PollerSettles ==
  ASSUME Inv, SettleInv, faults = 0, NEW j \in Jobs, PollerStep(j) \/ PollError(j)
  PROVE  SettleInv'
<1> DEFINE k == Tx[j]
<1> USE NgnWithdrawalAssumption
    DEF Agents, money, rows, remote, env, local, Goto, TryPoints, FailPoints,
        RequestPoints, JobPoints, OperatorPoints, TypeOK, SettleInv, Owned,
        Relies, Open, Balanced, At, Inv, SafetyInv, FreshInv, OneHandlerInv, BeforeInv, AfterInv, FailInv,
        JobInv, OperatorInv, StatusInv, CountInv, Unhandled, Unattended, Unpayable,
        Handling, PreTransfer, PostTransfer
<1>0. j \in Agents /\ k \in Keys
  OBVIOUS
<1>1. CASE StartPoll(j)
  <2>1. Only(k)
    BY <1>0, <1>1 DEF StartPoll, Only
  <2>2. k \notin tainted' => Owned(k)'
    BY <1>0, <1>1, SMTT(30) DEF StartPoll
  <2>3. k \notin tainted' => \A b \in Agents : Tx[b] = k => Relies(b)'
    BY <1>0, <1>1, SMTT(30) DEF StartPoll
  <2> QED
    BY <1>0, <2>1, <2>2, <2>3, OthersSettle
<1>2. CASE Poll(j)
  <2>1. Only(k)
    BY <1>0, <1>2 DEF Poll, Requeue, Only
  <2>2. k \notin tainted' => Owned(k)'
    BY <1>0, <1>2, SMTT(30) DEF Poll, Requeue
  <2>3. k \notin tainted' => \A b \in Agents : Tx[b] = k => Relies(b)'
    BY <1>0, <1>2, SMTT(30) DEF Poll, Requeue
  <2> QED
    BY <1>0, <2>1, <2>2, <2>3, OthersSettle
<1>3. CASE PollError(j)
  <2>1. Only(k)
    BY <1>0, <1>3 DEF PollError, Requeue, Only
  <2>2. k \notin tainted' => Owned(k)'
    BY <1>0, <1>3, SMTT(30) DEF PollError, Requeue
  <2>3. k \notin tainted' => \A b \in Agents : Tx[b] = k => Relies(b)'
    BY <1>0, <1>3, SMTT(30) DEF PollError, Requeue
  <2> QED
    BY <1>0, <2>1, <2>2, <2>3, OthersSettle
<1>4. CASE MarkReview(j)
  <2>1. Only(k)
    BY <1>0, <1>4 DEF MarkReview, Only
  <2>2. k \notin tainted' => Owned(k)'
    BY <1>0, <1>4, SMTT(30) DEF MarkReview
  <2>3. k \notin tainted' => \A b \in Agents : Tx[b] = k => Relies(b)'
    BY <1>0, <1>4, SMTT(30) DEF MarkReview
  <2> QED
    BY <1>0, <2>1, <2>2, <2>3, OthersSettle
<1> QED
  BY <1>1, <1>2, <1>3, <1>4 DEF PollerStep

(* ... those of an operator, ...                                           *)
LEMMA OperatorSettles ==
  ASSUME Inv, SettleInv, faults = 0, NEW o \in Operators, OperatorStep(o)
  PROVE  SettleInv'
<1> DEFINE k == Tx[o]
<1> USE NgnWithdrawalAssumption
    DEF Agents, money, rows, remote, env, local, Goto, TryPoints, FailPoints,
        RequestPoints, JobPoints, OperatorPoints, TypeOK, SettleInv, Owned,
        Relies, Open, Balanced, At, Inv, SafetyInv, FreshInv, OneHandlerInv, BeforeInv, AfterInv, FailInv,
        JobInv, OperatorInv, StatusInv, CountInv, Unhandled, Unattended, Unpayable,
        Handling, PreTransfer, PostTransfer
<1>0. o \in Agents /\ k \in Keys
  OBVIOUS
<1>1. CASE OperatorDecides(o)
  <2>1. Only(k)
    BY <1>0, <1>1 DEF OperatorDecides, Only
  <2>2. k \notin tainted' => Owned(k)'
    BY <1>0, <1>1, SMTT(30) DEF OperatorDecides
  <2>3. k \notin tainted' => \A b \in Agents : Tx[b] = k => Relies(b)'
    BY <1>0, <1>1, SMTT(30) DEF OperatorDecides
  <2> QED
    BY <1>0, <2>1, <2>2, <2>3, OthersSettle
<1>2. CASE OperatorRefunds(o)
  <2>1. Only(k)
    BY <1>0, <1>2 DEF OperatorRefunds, Credit, Only
  <2>2. k \notin tainted' => Owned(k)'
    BY <1>0, <1>2, SMTT(30) DEF OperatorRefunds, Credit
  <2>3. k \notin tainted' => \A b \in Agents : Tx[b] = k => Relies(b)'
    BY <1>0, <1>2, SMTT(30) DEF OperatorRefunds, Credit
  <2> QED
    BY <1>0, <2>1, <2>2, <2>3, OthersSettle
<1> QED
  BY <1>1, <1>2 DEF OperatorStep

(* ... and those that complete or fail it.                                 *)
LEMMA SharedSettles ==
  ASSUME Inv, SettleInv, faults = 0, NEW a \in Agents, SharedStep(a)
  PROVE  SettleInv'
<1> DEFINE k == Tx[a]
<1> USE NgnWithdrawalAssumption
    DEF Agents, money, rows, remote, env, local, Goto, TryPoints, FailPoints,
        RequestPoints, JobPoints, OperatorPoints, TypeOK, SettleInv, Owned,
        Relies, Open, Balanced, At, Inv, SafetyInv, FreshInv, OneHandlerInv, BeforeInv, AfterInv, FailInv,
        JobInv, OperatorInv, StatusInv, CountInv, Unhandled, Unattended, Unpayable,
        Handling, PreTransfer, PostTransfer
<1>0. a \in Agents /\ k \in Keys
  OBVIOUS
<1>1. CASE Complete(a)
  <2>1. Only(k)
    BY <1>0, <1>1 DEF Complete, Only
  <2>2. k \notin tainted' => Owned(k)'
    BY <1>0, <1>1, SMTT(30) DEF Complete
  <2>3. k \notin tainted' => \A b \in Agents : Tx[b] = k => Relies(b)'
    BY <1>0, <1>1, SMTT(30) DEF Complete
  <2> QED
    BY <1>0, <2>1, <2>2, <2>3, OthersSettle
<1>2. CASE Fail(a)
  <2>1. Only(k)
    BY <1>0, <1>2 DEF Fail, Only
  <2>2. k \notin tainted' => Owned(k)'
    BY <1>0, <1>2, SMTT(30) DEF Fail
  <2>3. k \notin tainted' => \A b \in Agents : Tx[b] = k => Relies(b)'
    BY <1>0, <1>2, SMTT(30) DEF Fail
  <2> QED
    BY <1>0, <2>1, <2>2, <2>3, OthersSettle
<1>3. CASE Revert(a)
  <2>1. Only(k)
    BY <1>0, <1>3 DEF Revert, AfterRevert, Raise, Enter, Only
  <2>2. k \notin tainted' => Owned(k)'
    BY <1>0, <1>3, SMTT(30) DEF Revert, AfterRevert, Raise, Enter
  <2>3. k \notin tainted' => \A b \in Agents : Tx[b] = k => Relies(b)'
    BY <1>0, <1>3, SMTT(30) DEF Revert, AfterRevert, Raise, Enter
  <2> QED
    BY <1>0, <2>1, <2>2, <2>3, OthersSettle
<1>4. CASE Refund(a)
  <2>1. Only(k)
    BY <1>0, <1>4 DEF Refund, Credit, Throw, Requeue, Raise, Enter, Only
  <2>2. k \notin tainted' => Owned(k)'
    BY <1>0, <1>4, SMTT(30) DEF Refund, Credit, Throw, Requeue, Raise, Enter
  <2>3. k \notin tainted' => \A b \in Agents : Tx[b] = k => Relies(b)'
    BY <1>0, <1>4, SMTT(30) DEF Refund, Credit, Throw, Requeue, Raise, Enter
  <2> QED
    BY <1>0, <2>1, <2>2, <2>3, OthersSettle
<1>5. CASE ReleaseEscrow(a)
  <2>1. Only(k)
    BY <1>0, <1>5 DEF ReleaseEscrow, AfterRevert, Raise, Enter, Only
  <2>2. k \notin tainted' => Owned(k)'
    BY <1>0, <1>5, SMTT(30) DEF ReleaseEscrow, AfterRevert, Raise, Enter
  <2>3. k \notin tainted' => \A b \in Agents : Tx[b] = k => Relies(b)'
    BY <1>0, <1>5, SMTT(30) DEF ReleaseEscrow, AfterRevert, Raise, Enter
  <2> QED
    BY <1>0, <2>1, <2>2, <2>3, OthersSettle
<1> QED
  BY <1>1, <1>2, <1>3, <1>4, <1>5 DEF SharedStep

(* Every step but an exception, which ends the claim, keeps it settling.   *)
LEMMA SettlePreserved == Inv /\ SettleInv /\ [Next]_vars => SettleInv'
<1> SUFFICES ASSUME Inv, SettleInv, [Next]_vars, faults' = 0 PROVE SettleInv'
  BY DEF SettleInv
<1>1. ASSUME NEW a \in Agents, FaultStep(a) PROVE FALSE
  BY <1>1 DEF FaultStep, CallFails, CommitsThenThrows, EndSessionFails, AddJobTimesOut,
              RequeueTimesOut, CountFault, Inv, TypeOK
<1>2. ~Restart
  BY DEF Restart, CountFault, Inv, TypeOK
<1>3. CASE \E r \in Requests : HandlerStep(r) \/ Decline(r)
  <2>1. faults' = faults
    BY <1>3 DEF env, HandlerStep, Decline, Receive, CheckSession, CreateRows,
       StartSession, CheckLedger, ReserveBalance, MoveMoneyToEscrow, MarkPending,
       CheckCircuit, Transfer, ConfirmStatus, QueueStatusPoll, Notify, EndSession
  <2> QED
    BY <1>3, <2>1, HandlerSettles
<1>4. CASE \E j \in Jobs : PollerStep(j) \/ PollError(j)
  <2>1. faults' = faults
    BY <1>4 DEF env, PollerStep, StartPoll, Poll, PollError, MarkReview
  <2> QED
    BY <1>4, <2>1, PollerSettles
<1>5. CASE \E o \in Operators : OperatorStep(o)
  <2>1. faults' = faults
    BY <1>5 DEF env, OperatorStep, OperatorDecides, OperatorRefunds
  <2> QED
    BY <1>5, <2>1, OperatorSettles
<1>6. CASE \E a \in Agents : SharedStep(a)
  <2>1. faults' = faults
    BY <1>6 DEF env, SharedStep, Complete, Fail, Revert, Refund, ReleaseEscrow
  <2> QED
    BY <1>6, <2>1, SharedSettles
<1>7. CASE \E k \in Keys : ProviderSettles(k)
  BY <1>7 DEF ProviderSettles, money, rows, env, local, SettleInv, Owned, Relies, Open,
              Balanced, At, Unpayable, Inv, TypeOK
<1>8. CASE UNCHANGED vars
  BY <1>8 DEF vars, money, rows, remote, env, local, SettleInv, Owned, Relies, Open,
              Balanced, At, Unpayable
<1> QED
  BY <1>1, <1>2, <1>3, <1>4, <1>5, <1>6, <1>7, <1>8 DEF Next

LEMMA InitSettle == Init => SettleInv
BY NgnWithdrawalAssumption
   DEF Init, Agents, SettleInv, Owned, Relies, Open, Balanced, At, Unpayable

(* Without exceptions, a withdrawal that no request, poll job or operator  *)
(* works on any more has come to an end that its rows, the escrow and the  *)
(* provider agree on; none is left PENDING with nobody to poll it.         *)
THEOREM WithdrawalSettled == Spec => []SettledAtRest
<1>1. Inv /\ SettleInv => SettledAtRest
  <2> SUFFICES ASSUME Inv, SettleInv, NEW k \in Keys \ tainted, faults = 0, ~Busy(k)
               PROVE  /\ txStatus[k] = "none" => debits[k] = 0
                      /\ txStatus[k] = "FAILED" => Balanced(k) /\ provider[k] # "paid"
                      /\ txStatus[k] = "COMPLETED" => /\ provider[k] = "paid"
                                                      /\ fwtStatus[k] = "COMPLETED"
                                                      /\ refunds[k] = 0
                      /\ txStatus[k] = "REVIEW" => debits[k] = 1 /\ refunds[k] = 0
                      /\ txStatus[k] \notin {"INITIATED", "PENDING"}
    BY DEF SettledAtRest, Balanced, Inv, TypeOK, Statuses
  <2>1. Owned(k)
    BY DEF SettleInv
  <2>2. \A A, P : /\ A \subseteq Agents
                  /\ P \cap {"idle", "done", "crashed", "none"} = {}
                  => ~At(k, A, P)
    BY DEF At, Busy
  <2>3. txStatus[k] \notin {"INITIATED", "PENDING"}
    BY <2>1, <2>2 DEF Owned, Agents
  <2>4. txStatus[k] = "FAILED" => Balanced(k) /\ provider[k] # "paid"
    BY <2>1, <2>2 DEF Owned, Unpayable
  <2>5. txStatus[k] = "COMPLETED" => /\ provider[k] = "paid"
                                    /\ fwtStatus[k] = "COMPLETED"
                                    /\ refunds[k] = 0
    BY <2>1, <2>2 DEF Owned
  <2> QED
    BY <2>1, <2>3, <2>4, <2>5 DEF Owned, Open, Inv, SafetyInv, FreshInv
<1> QED
  BY <1>1, WithdrawalInv, InitSettle, SettlePreserved, PTL DEF Spec

-----------------------------------------------------------------------------
(* One idempotency key moves money once: however many requests carry it    *)
(* and whatever fails, sendMoneyToExternalNGAccount reserves and transfers *)
(* at most once.                                                           *)
THEOREM WithdrawalOneTransfer == Spec => []OneTransferPerKey
<1>1. Inv => OneTransferPerKey
  BY DEF Inv, SafetyInv, CountInv, OneTransferPerKey
<1> QED
  BY <1>1, WithdrawalInv, PTL

(* revertWithdrawalBalance and the operator's refund never give back the   *)
(* money of a transfer the provider pays, outside the tainted cases.       *)
THEOREM WithdrawalRefundedIsNotPaid == Spec => []RefundedIsNotPaid
<1>1. Inv => RefundedIsNotPaid
  BY DEF Inv, SafetyInv, StatusInv, Unpayable, RefundedIsNotPaid
<1> QED
  BY <1>1, WithdrawalInv, PTL

(* Handler, catch block, poller and operators together refund a withdrawal *)
(* at most once, outside the tainted cases.                                *)
THEOREM WithdrawalRefundedOnce == Spec => []RefundedOnce
<1>1. Inv => RefundedOnce
  BY DEF Inv, TypeOK, SafetyInv, StatusInv, CountInv, RefundedOnce
<1> QED
  BY <1>1, WithdrawalInv, PTL

(* A terminal status is never overwritten by a step that does not leave    *)
(* the withdrawal tainted.                                                 *)
LEMMA TerminalStep ==
  ASSUME Inv, [Next]_vars, NEW k \in Keys,
         txStatus[k] \in {"COMPLETED", "FAILED"}, txStatus'[k] # txStatus[k]
  PROVE  k \in tainted'
<1> USE NgnWithdrawalAssumption
    DEF Agents, money, rows, remote, env, local, Inv, TypeOK, SafetyInv
<1>1. ASSUME NEW r \in Requests, CreateRows(r) \/ MarkPending(r)
      PROVE  k \in tainted'
  BY <1>1 DEF CreateRows, MarkPending, FreshInv, BeforeInv, PreTransfer
<1>2. ASSUME NEW a \in Agents, Complete(a) \/ Fail(a)
      PROVE  k \in tainted'
  BY <1>2 DEF Complete, Fail, AfterInv, FailInv, JobInv, PostTransfer,
              FailPoints, OperatorPoints
<1>3. ASSUME NEW j \in Jobs, MarkReview(j)
      PROVE  k \in tainted'
  BY <1>3 DEF MarkReview, JobInv
<1>4. ASSUME NEW o \in Operators, OperatorRefunds(o)
      PROVE  k \in tainted'
  BY <1>4 DEF OperatorRefunds
<1>5. ASSUME NEW r \in Requests, HandlerStep(r) \/ Decline(r),
             ~CreateRows(r), ~MarkPending(r)
      PROVE  UNCHANGED txStatus
  BY <1>5 DEF HandlerStep, Decline, Receive, CheckSession, StartSession,
              CheckLedger, ReserveBalance, Debit, MoveMoneyToEscrow,
              CheckCircuit, Transfer, ConfirmStatus, QueueStatusPoll, Notify,
              EndSession
<1>6. ASSUME NEW a \in Agents, SharedStep(a) \/ FaultStep(a),
             ~Complete(a), ~Fail(a)
      PROVE  UNCHANGED txStatus
  BY <1>6 DEF SharedStep, FaultStep, Revert, Refund, ReleaseEscrow,
              CallFails, CommitsThenThrows, Debit, EndSessionFails,
              AddJobTimesOut, RequeueTimesOut
<1>7. ASSUME NEW j \in Jobs, PollerStep(j) \/ PollError(j), ~MarkReview(j)
      PROVE  UNCHANGED txStatus
  BY <1>7 DEF PollerStep, StartPoll, Poll, PollError
<1>8. ASSUME NEW o \in Operators, OperatorStep(o), ~OperatorRefunds(o)
      PROVE  UNCHANGED txStatus
  BY <1>8 DEF OperatorStep, OperatorDecides
<1>9. ASSUME \/ \E l \in Keys : ProviderSettles(l)
             \/ Restart
             \/ UNCHANGED vars
      PROVE  UNCHANGED txStatus
  BY <1>9 DEF ProviderSettles, Restart, vars
<1> QED
  BY <1>1, <1>2, <1>3, <1>4, <1>5, <1>6, <1>7, <1>8, <1>9 DEF Next

(* COMPLETED and FAILED are final: the handler's, the poller's and the     *)
(* operator's writes of transactions.status never act on a stale read,     *)
(* outside the tainted cases.                                              *)
THEOREM WithdrawalTerminalIsFinal == Spec => TerminalIsFinal
<1>1. Inv /\ [Next]_vars =>
        [\A k \in Keys :
           txStatus[k] \in {"COMPLETED", "FAILED"} /\ txStatus'[k] # txStatus[k]
              => k \in tainted']_vars
  BY TerminalStep
<1> QED
  BY <1>1, WithdrawalInv, PTL DEF Spec, TerminalIsFinal

-----------------------------------------------------------------------------
(* The promise of a payout                                                 *)

(* The escrow, and what was read of it for a refund, is the amount of the  *)
(* withdrawal; the provider knows only what was reserved.                  *)
AmountInv ==
    /\ balance >= 0
    /\ \A k \in Keys : escrow[k] \in {0, Amount[k]}
    /\ \A k \in Keys : provider[k] # "none" => debits[k] > 0
    /\ \A a \in Agents : pc[a] = "refund" => seen[a] = Amount[Tx[a]]

(* Every step keeps the amounts: the wallet is debited only after its      *)
(* balance was compared, and only revertWithdrawalBalance leads to a       *)
(* refund.                                                                 *)
LEMMA AmountPreserved == ASSUME Inv, AmountInv, [Next]_vars PROVE AmountInv'
<1> USE NgnWithdrawalAssumption
    DEF Agents, money, rows, remote, env, local, TypeOK, TryPoints,
        FailPoints, RequestPoints, JobPoints, OperatorPoints, Inv, AmountInv
<1>1. ASSUME NEW r \in Requests, ReserveBalance(r) PROVE AmountInv'
  BY <1>1 DEF ReserveBalance, Debit, Raise, Enter, Goto
<1>2. ASSUME NEW r \in Requests, MoveMoneyToEscrow(r) PROVE AmountInv'
  BY <1>2 DEF MoveMoneyToEscrow, Goto
<1>3. ASSUME NEW r \in Requests, Transfer(r) PROVE AmountInv'
  <2>1. debits[Tx[r]] = 1
    BY <1>3 DEF Transfer, SafetyInv, BeforeInv, PreTransfer
  <2> QED
    BY <1>3, <2>1 DEF Transfer, Enter, Goto
<1>4. ASSUME NEW r \in Requests,
             HandlerStep(r) \/ Decline(r),
             ~ReserveBalance(r), ~MoveMoneyToEscrow(r), ~Transfer(r)
      PROVE  AmountInv'
  BY <1>4 DEF HandlerStep, Decline, Receive, CheckSession, CreateRows,
              StartSession, CheckLedger, MarkPending, CheckCircuit,
              ConfirmStatus, QueueStatusPoll, AddJob, Notify, EndSession,
              Raise, Enter, Goto
<1>5. ASSUME NEW j \in Jobs, PollerStep(j) \/ PollError(j) PROVE AmountInv'
  <2>1. CASE Poll(j)
    <3>1. /\ UNCHANGED <<money, provider, seen>>
          /\ \A a \in Agents : pc'[a] = "refund" => pc[a] = "refund"
      BY <2>1 DEF Poll, Requeue, Goto
    <3> QED
      BY <3>1
  <2> QED
    BY <1>5, <2>1 DEF PollerStep, StartPoll, PollError, MarkReview, Requeue, Goto
<1>6. ASSUME NEW o \in Operators, OperatorStep(o) PROVE AmountInv'
  BY <1>6 DEF OperatorStep, OperatorDecides, OperatorRefunds, Credit, Goto
<1>7. ASSUME NEW a \in Agents, Complete(a) \/ Fail(a) PROVE AmountInv'
  BY <1>7 DEF Complete, Fail, Goto
<1>8. ASSUME NEW a \in Agents, Revert(a) PROVE AmountInv'
  BY <1>8 DEF Revert, AfterRevert, Raise, Enter, Goto
<1>9. ASSUME NEW a \in Agents, Refund(a) PROVE AmountInv'
  BY <1>9 DEF Refund, Credit, Throw, Requeue, Raise, Enter, Goto
<1>10. ASSUME NEW a \in Agents, ReleaseEscrow(a) PROVE AmountInv'
  BY <1>10 DEF ReleaseEscrow, AfterRevert, Raise, Enter, Goto
<1>11. ASSUME NEW a \in Agents, CallFails(a) PROVE AmountInv'
  BY <1>11 DEF CallFails, Throw, Requeue, Raise, Enter, Goto
<1>12. ASSUME NEW a \in Agents, CommitsThenThrows(a) PROVE AmountInv'
  BY <1>12 DEF CommitsThenThrows, Debit, Credit, Throw, Requeue, Raise, Enter, Goto
<1>13. ASSUME NEW a \in Agents,
              \/ a \in Requests /\ (EndSessionFails(a) \/ AddJobTimesOut(a))
              \/ a \in Jobs /\ RequeueTimesOut(a)
       PROVE  AmountInv'
  BY <1>13 DEF EndSessionFails, AddJobTimesOut, AddJob, RequeueTimesOut, Goto
<1>14. ASSUME NEW k \in Keys, ProviderSettles(k) PROVE AmountInv'
  BY <1>14 DEF ProviderSettles
<1>15. CASE Restart
  BY <1>15 DEF Restart
<1>16. CASE UNCHANGED vars
  BY <1>16 DEF vars
<1> QED
  BY <1>1, <1>2, <1>3, <1>4, <1>5, <1>6, <1>7, <1>8, <1>9, <1>10, <1>11,
     <1>12, <1>13, <1>14, <1>15, <1>16 DEF Next, SharedStep, FaultStep

(* The wallet is never overdrawn, and a refund gives back what was taken.  *)
THEOREM WithdrawalAmounts == Spec => []AmountInv
<1>1. Init => AmountInv
  BY NgnWithdrawalAssumption DEF Init, Agents, AmountInv
<1>2. Inv /\ AmountInv /\ [Next]_vars => AmountInv'
  BY AmountPreserved
<1> QED
  BY <1>1, <1>2, WithdrawalInv, PTL DEF Spec

(* What a step does to the money of other withdrawals than k: nothing.     *)
Apart(k) ==
    \A i \in Keys \ {k} :
        /\ refunds'[i] = refunds[i]
        /\ debits'[i] = debits[i]
        /\ provider'[i] = provider[i]

(* Then only the phase of k may change.                                    *)
LEMMA PhaseOfOne ==
  ASSUME NEW k \in Keys, Apart(k)
  PROVE  /\ Phase' = [Phase EXCEPT ![k] = Phase'[k]]
         /\ \A i \in Keys \ {k} : Phase'[i] = Phase[i]
BY DEF Phase, Broken, Apart

LEMMA PhaseStays ==
  ASSUME UNCHANGED <<refunds, debits, provider>> PROVE Phase' = Phase
BY DEF Phase, Broken

(* A step that leaves k doubtful promises nothing about k.                 *)
LEMMA StrayStep ==
  ASSUME TypeOK', AmountInv', NEW k \in Keys, Apart(k),
         tainted' = tainted \cup {k}
  PROVE  PayoutRef!Next
<1>1. balance' \in Nat
  BY DEF TypeOK, AmountInv
<1>2. PayoutRef!Stray(k)
  BY <1>1, PhaseOfOne DEF PayoutRef!Stray
<1> QED
  BY <1>2 DEF PayoutRef!Next

(* A debit of a withdrawal at its reservation is a hold.                   *)
LEMMA DebitHolds ==
  ASSUME Inv, AmountInv', NEW r \in Requests, pc[r] = "reserve",
         Debit(Tx[r]), UNCHANGED <<provider, tainted>>
  PROVE  PayoutRef!Next
<1> DEFINE k == Tx[r]
<1> USE NgnWithdrawalAssumption DEF Agents
<1>1. k \in Keys
  OBVIOUS
<1>2. debits[k] = 0 /\ refunds[k] = 0 /\ provider[k] = "none"
  BY DEF Inv, SafetyInv, BeforeInv, PreTransfer
<1>3. debits' = [debits EXCEPT ![k] = @ + 1] /\ refunds' = refunds
      /\ provider' = provider /\ tainted' = tainted
      /\ balance' = balance - Amount[k]
  BY DEF Debit
<1>4. debits \in [Keys -> Nat]
  BY DEF Inv, TypeOK
<1> HIDE DEF k
<1>5. Apart(k)
  BY <1>1, <1>3, <1>4 DEF Apart
<1>6. Phase[k] = "none" /\ Phase'[k] = "held"
  BY <1>1, <1>2, <1>3, <1>4 DEF Phase, Broken
<1>7. PayoutRef!Hold(k)
  BY <1>1, <1>3, <1>5, <1>6, PhaseOfOne DEF PayoutRef!Hold, PayoutRef!Move, AmountInv
<1> QED
  BY <1>1, <1>7 DEF PayoutRef!Next

(* A refund of a withdrawal that stays beyond doubt returns what was held. *)
LEMMA CreditReturns ==
  ASSUME Inv, NEW k \in Keys, Credit(k, Amount[k]),
         UNCHANGED <<provider, tainted>>,
         refunds[k] = 0, debits[k] = 1, Unpayable(k)
  PROVE  PayoutRef!Next
<1>1. refunds' = [refunds EXCEPT ![k] = @ + 1] /\ debits' = debits
      /\ provider' = provider /\ tainted' = tainted
      /\ balance' = balance + Amount[k]
  BY DEF Credit
<1>2. refunds \in [Keys -> Nat]
  BY DEF Inv, TypeOK
<1>3. Apart(k)
  BY <1>1, <1>2 DEF Apart
<1>4. Phase[k] = "held" /\ Phase'[k] = "returned"
  BY <1>1, <1>2 DEF Phase, Broken, Unpayable
<1>5. PayoutRef!Return(k)
  BY <1>1, <1>3, <1>4, PhaseOfOne DEF PayoutRef!Return, PayoutRef!Move
<1> QED
  BY <1>5 DEF PayoutRef!Next

(* The refund of a request or a job, with or without a late exception.     *)
LEMMA RefundReturns ==
  ASSUME Inv, AmountInv, TypeOK', AmountInv', NEW a \in Agents,
         pc[a] = "refund", Credit(Tx[a], seen[a]), UNCHANGED provider,
         tainted' \in {tainted, tainted \cup {Tx[a]}}
  PROVE  PayoutRef!Next
<1> DEFINE k == Tx[a]
<1> USE NgnWithdrawalAssumption
<1>1. k \in Keys /\ Credit(k, Amount[k])
  BY DEF AmountInv, Agents
<1>2. CASE tainted' = tainted \cup {k}
  <2>1. Apart(k)
    BY <1>1 DEF Apart, Credit, Inv, TypeOK
  <2> QED
    BY <1>1, <1>2, <2>1, StrayStep
<1>3. CASE tainted' = tainted /\ k \notin tainted
  <2>1. a \in Requests \/ a \in Jobs
    BY DEF Agents, Inv, TypeOK, OperatorPoints
  <2>2. refunds[k] = 0 /\ debits[k] = 1 /\ Unpayable(k)
    BY <1>3, <2>1 DEF Inv, SafetyInv, FailInv, JobInv, FailPoints
  <2> QED
    BY <1>1, <1>3, <2>2, CreditReturns
<1> QED
  BY <1>2, <1>3

(* Every step of a withdrawal is a step of its payout or invisible to it.  *)
LEMMA PayoutStep ==
  ASSUME Inv, AmountInv, TypeOK', AmountInv', [Next]_vars
  PROVE  [PayoutRef!Next]_<<balance, Phase, tainted>>
<1> USE NgnWithdrawalAssumption DEF money, rows, remote, env, local
<1>a. ASSUME UNCHANGED <<balance, refunds, debits, provider, tainted>>
      PROVE  [PayoutRef!Next]_<<balance, Phase, tainted>>
  BY <1>a, PhaseStays
<1>b. ASSUME UNCHANGED <<balance, refunds, debits, provider>>,
             NEW a \in Agents, tainted' \in {tainted, tainted \cup {Tx[a]}}
      PROVE  [PayoutRef!Next]_<<balance, Phase, tainted>>
  <2>1. Tx[a] \in Keys /\ Apart(Tx[a])
    BY <1>b DEF Apart
  <2> QED
    BY <1>a, <1>b, <2>1, StrayStep
<1>1. ASSUME NEW r \in Requests, ReserveBalance(r)
      PROVE  [PayoutRef!Next]_<<balance, Phase, tainted>>
  <2>1. CASE Debit(Tx[r])
    BY <1>1, <2>1, DebitHolds DEF ReserveBalance
  <2>2. CASE ~Debit(Tx[r])
    BY <1>1, <2>2, <1>a DEF ReserveBalance
  <2> QED
    BY <2>1, <2>2
<1>2. ASSUME NEW r \in Requests, Transfer(r)
      PROVE  [PayoutRef!Next]_<<balance, Phase, tainted>>
  <2> DEFINE k == Tx[r]
  <2>1. k \in Keys
    BY DEF Agents
  <2>2. debits[k] = 1 /\ refunds[k] = 0 /\ provider[k] = "none"
    BY <1>2 DEF Transfer, Inv, SafetyInv, BeforeInv, PreTransfer
  <2>3. /\ provider' = provider \/ provider' = [provider EXCEPT ![k] = "processing"]
        /\ UNCHANGED <<balance, refunds, debits, tainted>>
    BY <1>2 DEF Transfer
  <2>4. provider \in [Keys -> {"none", "processing", "paid", "rejected"}]
    BY DEF Inv, TypeOK
  <2> HIDE DEF k
  <2>5. CASE provider' = [provider EXCEPT ![k] = "processing"]
    <3>1. Apart(k)
      BY <2>1, <2>3, <2>4, <2>5 DEF Apart
    <3>2. Phase[k] = "held" /\ Phase'[k] = "sent"
      BY <2>1, <2>2, <2>3, <2>4, <2>5 DEF Phase, Broken
    <3>3. PayoutRef!Send(k)
      BY <2>1, <2>3, <3>1, <3>2, PhaseOfOne DEF PayoutRef!Send, PayoutRef!Move
    <3> QED
      BY <2>1, <3>3 DEF PayoutRef!Next
  <2> QED
    BY <2>3, <2>5, <1>a
<1>3. ASSUME NEW k \in Keys, ProviderSettles(k)
      PROVE  [PayoutRef!Next]_<<balance, Phase, tainted>>
  <2>1. PICK s \in {"paid", "rejected"} : provider' = [provider EXCEPT ![k] = s]
    BY <1>3 DEF ProviderSettles
  <2>2. provider[k] = "processing" /\ UNCHANGED <<balance, refunds, debits, tainted>>
    BY <1>3 DEF ProviderSettles
  <2>3. /\ provider \in [Keys -> {"none", "processing", "paid", "rejected"}]
        /\ refunds \in [Keys -> Nat] /\ debits[k] = 1
    BY <2>2 DEF Inv, TypeOK, AmountInv, SafetyInv, CountInv
  <2>4. Apart(k)
    BY <2>1, <2>2, <2>3 DEF Apart
  <2>5. CASE refunds[k] = 0
    <3>1. Phase[k] = "sent" /\ Phase'[k] \in {"paid", "held"}
      BY <2>1, <2>2, <2>3, <2>5 DEF Phase, Broken
    <3>2. PayoutRef!Settle(k)
      BY <2>2, <2>4, <3>1, PhaseOfOne DEF PayoutRef!Settle, PayoutRef!Move
    <3> QED
      BY <3>2 DEF PayoutRef!Next
  <2>6. CASE refunds[k] > 0
    <3>1. k \in tainted
      BY <2>2, <2>6 DEF Inv, SafetyInv, StatusInv, Unpayable
    <3>2. tainted' = tainted \cup {k}
      BY <2>2, <3>1
    <3> QED
      BY <2>4, <3>2, StrayStep
  <2> QED
    BY <2>3, <2>5, <2>6
<1>4. ASSUME NEW a \in Agents, Refund(a)
      PROVE  [PayoutRef!Next]_<<balance, Phase, tainted>>
  <2>1. CASE txStatus[Tx[a]] # "COMPLETED"
    BY <1>4, <2>1, RefundReturns DEF Refund
  <2>2. CASE txStatus[Tx[a]] = "COMPLETED"
    BY <1>4, <2>2, <1>a DEF Refund
  <2> QED
    BY <2>1, <2>2
<1>5. ASSUME NEW o \in Operators, OperatorRefunds(o)
      PROVE  [PayoutRef!Next]_<<balance, Phase, tainted>>
  <2> DEFINE k == Tx[o]
  <2>1. o \in Agents /\ k \in Keys
    BY DEF Agents
  <2>2. CASE seen[o] > 0 /\ tainted' = tainted \cup {k}
    <3>1. Apart(k)
      BY <1>5, <2>2 DEF OperatorRefunds, Credit, Apart, Inv, TypeOK
    <3> QED
      BY <2>1, <2>2, <3>1, StrayStep
  <2>3. CASE seen[o] > 0 /\ tainted' = tainted /\ k \notin tainted
    <3>1. txStatus[k] = "REVIEW"
      BY <1>5, <2>3 DEF OperatorRefunds
    <3>2. refunds[k] = 0 /\ debits[k] = 1 /\ Unpayable(k)
      BY <1>5, <2>1, <2>3, <3>1
         DEF OperatorRefunds, Inv, SafetyInv, OperatorInv, StatusInv
    <3> QED
      BY <1>5, <2>1, <2>3, <3>2, CreditReturns DEF OperatorRefunds
  <2>4. CASE ~(seen[o] > 0)
    BY <1>5, <2>1, <2>4, <1>b DEF OperatorRefunds
  <2> QED
    BY <1>5, <2>2, <2>3, <2>4 DEF OperatorRefunds
<1>6. ASSUME NEW a \in Agents, CommitsThenThrows(a)
      PROVE  [PayoutRef!Next]_<<balance, Phase, tainted>>
  <2>1. CASE pc[a] = "reserve"
    <3>1. a \in Requests
      BY <2>1 DEF Inv, TypeOK, Agents, JobPoints, OperatorPoints, FailPoints
    <3> QED
      BY <1>6, <2>1, <3>1, DebitHolds DEF CommitsThenThrows
  <2>2. CASE pc[a] = "refund"
    BY <1>6, <2>2, RefundReturns DEF CommitsThenThrows
  <2> QED
    BY <1>6, <2>1, <2>2 DEF CommitsThenThrows
<1>7. ASSUME NEW a \in Agents, CallFails(a)
      PROVE  [PayoutRef!Next]_<<balance, Phase, tainted>>
  BY <1>7, <1>b DEF CallFails
<1>8. ASSUME NEW r \in Requests, EndSessionFails(r) \/ AddJobTimesOut(r)
      PROVE  [PayoutRef!Next]_<<balance, Phase, tainted>>
  BY <1>8, <1>b DEF EndSessionFails, AddJobTimesOut, Agents
<1>9. ASSUME NEW j \in Jobs, RequeueTimesOut(j)
      PROVE  [PayoutRef!Next]_<<balance, Phase, tainted>>
  BY <1>9, <1>b DEF RequeueTimesOut, Agents
<1>10. ASSUME NEW r \in Requests, HandlerStep(r) \/ Decline(r),
              ~ReserveBalance(r), ~Transfer(r)
       PROVE  [PayoutRef!Next]_<<balance, Phase, tainted>>
  BY <1>10, <1>a
     DEF HandlerStep, Decline, Receive, CheckSession, CreateRows, StartSession,
         CheckLedger, MoveMoneyToEscrow, MarkPending, CheckCircuit,
         ConfirmStatus, QueueStatusPoll, Notify, EndSession
<1>11. ASSUME NEW j \in Jobs, PollerStep(j) \/ PollError(j)
       PROVE  [PayoutRef!Next]_<<balance, Phase, tainted>>
  BY <1>11, <1>a DEF PollerStep, PollError, StartPoll, Poll, MarkReview
<1>12. ASSUME NEW a \in Agents,
              Complete(a) \/ Fail(a) \/ Revert(a) \/ ReleaseEscrow(a)
       PROVE  [PayoutRef!Next]_<<balance, Phase, tainted>>
  BY <1>12, <1>a DEF Complete, Fail, Revert, ReleaseEscrow
<1>13. ASSUME NEW o \in Operators, OperatorDecides(o)
       PROVE  [PayoutRef!Next]_<<balance, Phase, tainted>>
  BY <1>13, <1>a DEF OperatorDecides
<1>14. CASE Restart \/ UNCHANGED vars
  BY <1>14, <1>a DEF Restart, vars
<1> QED
  BY <1>1, <1>2, <1>3, <1>4, <1>5, <1>6, <1>7, <1>8, <1>9, <1>10, <1>11,
     <1>12, <1>13, <1>14 DEF Next, SharedStep, OperatorStep, FaultStep

(* A withdrawal implements the payout: reserved once, never overdrawing,   *)
(* and paid or given back in full, outside the tainted cases.              *)
THEOREM WithdrawalRefinesPayout == Spec => PayoutSpec
<1>1. Init => PayoutRef!Init
  BY DEF Init, PayoutRef!Init, Phase, Broken
<1>2. Inv /\ AmountInv /\ Inv' /\ AmountInv' /\ [Next]_vars
        => [PayoutRef!Next]_<<balance, Phase, tainted>>
  BY PayoutStep DEF Inv
<1> QED
  BY <1>1, <1>2, WithdrawalInv, WithdrawalAmounts, PTL
     DEF Spec, PayoutSpec, PayoutRef!Spec

-----------------------------------------------------------------------------
(* The circuit breaker the withdrawals go through.                         *)

(* The time openedAt holds is older than its key by a withdrawal's delay.  *)
OpenedInv == openedAt # None => openedAt <= openedAge + MaxDelay

BreakerStepInv == BreakerTypeOK /\ OpenedInv

(* What a withdrawal counted is still there to be counted: the failures of *)
(* its window outlive its decision, and nobody removes one of them.        *)
EvidenceInv ==
    \A c \in Calls :
        /\ at[c] \in {"countSuccesses", "getState"}
              => counted[c].bad <= InWindow(failures, clock[c])
        /\ at[c] = "getState"
              => counted[c].bad + counted[c].good >= MinAttempts
        /\ at[c] = "setOpen"
              => 2 * InWindow(failures, clock[c]) >= MinAttempts

(* A window of a set of ages is finite, so the two calls of ZCOUNT return  *)
(* numbers.                                                                *)
LEMMA WindowIsFinite ==
  ASSUME NEW S \in SUBSET Ages, NEW age \in Nat
  PROVE  /\ IsFiniteSet({t \in S : age <= t /\ t <= age + Window})
         /\ InWindow(S, age) \in Nat
<1>1. IsFiniteSet(Ages)
  BY FS_Interval, CircuitBreakerAssumption DEF Ages
<1>2. {t \in S : age <= t /\ t <= age + Window} \in SUBSET Ages
  OBVIOUS
<1>3. IsFiniteSet({t \in S : age <= t /\ t <= age + Window})
  BY <1>1, <1>2, FS_Subset
<1> QED
  BY <1>3, FS_CardinalityType DEF InWindow

(* A new attempt takes nothing from a window.                              *)
LEMMA WindowGrows ==
  ASSUME NEW S \in SUBSET Ages, NEW T \in SUBSET Ages, S \subseteq T,
         NEW age \in Nat
  PROVE  InWindow(S, age) <= InWindow(T, age)
<1> DEFINE In(Z) == {t \in Z : age <= t /\ t <= age + Window}
<1>1. IsFiniteSet(In(T))
  BY WindowIsFinite
<1>2. In(S) \in SUBSET In(T)
  OBVIOUS
<1> QED
  BY <1>1, <1>2, FS_Subset DEF InWindow

(* As long as a reading of the clock is fresh enough, a tick takes nothing *)
(* from its window: the window and its members grow older together.        *)
LEMMA WindowAges ==
  ASSUME NEW S \in SUBSET Ages, NEW age \in Nat, age < MaxDelay
  PROVE  InWindow(S, age) <= InWindow(Older(S), age + 1)
<1> USE CircuitBreakerAssumption
<1> DEFINE A == {t \in S : age <= t /\ t <= age + Window}
           B == {t \in Older(S) : age + 1 <= t /\ t <= age + 1 + Window}
           f == [t \in A |-> t + 1]
<1>1. Older(S) \in SUBSET Ages /\ age + 1 \in Nat
  BY DEF Older
<1>2. IsFiniteSet(B)
  BY <1>1, WindowIsFinite
<1>3. ASSUME NEW t \in A PROVE t + 1 \in B
  <2>1. t \in S /\ t \in Nat /\ age <= t /\ t <= age + Window
    BY DEF Ages
  <2>2. t + 1 \in Ages /\ (t + 1) - 1 = t
    BY <2>1 DEF Ages
  <2> QED
    BY <2>1, <2>2 DEF Older
<1>4. f \in [A -> B]
  BY <1>3
<1>5. \A a, b \in A : f[a] = f[b] => a = b
  BY DEF Ages
<1>6. f \in Injection(A, B)
  BY <1>4, <1>5 DEF Injection, IsInjective
<1>7. Cardinality(A) <= Cardinality(B)
  BY <1>2, <1>6, FS_Injection
<1> QED
  BY <1>7 DEF InWindow

(* The breaker's keys, sets and calls stay in their types; the age of the  *)
(* time in openedAt exceeds the life of its key by no more than a call's   *)
(* delay between reading the clock and writing.                            *)
THEOREM BreakerTyping == BreakerSpec => []BreakerStepInv
<1> USE CircuitBreakerAssumption
        DEF BreakerStepInv, BreakerTypeOK, OpenedInv, Points, Clocked, None,
            keys, attempts, reading
<1>1. BreakerInit => BreakerStepInv
  BY DEF BreakerInit, NoCount, Ages
<1>2. BreakerStepInv /\ [BreakerNext]_breakerVars => BreakerStepInv'
  <2> SUFFICES ASSUME BreakerStepInv, [BreakerNext]_breakerVars
               PROVE  BreakerStepInv'
    OBVIOUS
  <2> USE DEF Await, SetState
  <2>1. CASE Tick
    <3>1. clock' \in [Calls -> 0..MaxDelay]
      BY <2>1 DEF Tick
    <3>2. failures' \subseteq Ages /\ successes' \subseteq Ages
      BY <2>1 DEF Tick, Older
    <3>3. /\ state' \in {"CLOSED", "OPEN", "HALF_OPEN"}
          /\ stateAge' \in 0..(StateTtl - 1)
      BY <2>1 DEF Tick
    <3>4. /\ openedAt' \in {None} \cup 0..(OpenedTtl + MaxDelay - 1)
          /\ openedAge' \in 0..(OpenedTtl - 1)
          /\ OpenedInv'
      BY <2>1 DEF Tick
    <3> QED
      BY <2>1, <3>1, <3>2, <3>3, <3>4 DEF Tick
  <2>2. ASSUME NEW c \in Calls, GetState(c) PROVE BreakerStepInv'
    BY <2>2 DEF GetState
  <2>3. ASSUME NEW c \in Calls, GetOpenedAt(c) PROVE BreakerStepInv'
    BY <2>3 DEF GetOpenedAt
  <2>4. ASSUME NEW c \in Calls, SetHalfOpen(c) PROVE BreakerStepInv'
    BY <2>4 DEF SetHalfOpen
  <2>5. ASSUME NEW c \in Calls, GetTestAttempts(c) PROVE BreakerStepInv'
    BY <2>5 DEF GetTestAttempts
  <2>6. ASSUME NEW c \in Calls, Record(c) PROVE BreakerStepInv'
    <3>1. 0 \in Ages
      BY DEF Ages
    <3> QED
      BY <2>6, <3>1 DEF Record
  <2>7. ASSUME NEW c \in Calls, CountFailures(c) PROVE BreakerStepInv'
    <3>1. InWindow(failures, 0) \in Nat
      BY WindowIsFinite
    <3> QED
      BY <2>7, <3>1 DEF CountFailures
  <2>8. ASSUME NEW c \in Calls, CountSuccesses(c) PROVE BreakerStepInv'
    <3> DEFINE good == InWindow(successes, clock[c])
    <3>1. clock[c] \in Nat /\ successes \in SUBSET Ages
      OBVIOUS
    <3>2. good \in Nat
      BY <3>1, WindowIsFinite
    <3> HIDE DEF good
    <3>3. /\ counted'[c] \in [bad : Nat, good : Nat]
          /\ clock'[c] \in 0..MaxDelay
          /\ at'[c] \in Points
      <4>1. CASE counted[c].bad + good < MinAttempts
        BY <2>8, <4>1 DEF CountSuccesses, NoCount, good
      <4>2. CASE ~(counted[c].bad + good < MinAttempts)
        <5>1. counted' = [counted EXCEPT ![c].good = good]
              /\ at' = [at EXCEPT ![c] = "getState"] /\ clock' = clock
          BY <2>8, <4>2 DEF CountSuccesses, good
        <5> QED
          BY <3>2, <5>1
      <4> QED
        BY <4>1, <4>2
    <3> QED
      BY <2>8, <3>2, <3>3 DEF CountSuccesses, NoCount, good
  <2>9. ASSUME NEW c \in Calls, Decide(c) PROVE BreakerStepInv'
    BY <2>9 DEF Decide, NoCount
  <2>10. ASSUME NEW c \in Calls, SetOpen(c) PROVE BreakerStepInv'
    BY <2>10 DEF SetOpen
  <2>11. ASSUME NEW c \in Calls, SetOpenedAt(c) PROVE BreakerStepInv'
    BY <2>11 DEF SetOpenedAt
  <2>12. ASSUME NEW c \in Calls, SetClosed(c) PROVE BreakerStepInv'
    BY <2>12 DEF SetClosed
  <2>13. ASSUME NEW c \in Calls, ClearOpenedAt(c) PROVE BreakerStepInv'
    BY <2>13 DEF ClearOpenedAt
  <2>14. CASE UNCHANGED breakerVars
    BY <2>14 DEF breakerVars
  <2> QED
    BY <2>1, <2>2, <2>3, <2>4, <2>5, <2>6, <2>7, <2>8, <2>9, <2>10, <2>11,
       <2>12, <2>13, <2>14 DEF BreakerNext, Step
<1> QED
  BY <1>1, <1>2, PTL DEF BreakerSpec

(* The evidence of a withdrawal about to decide survives every step of the *)
(* others and of time.                                                     *)
LEMMA EvidencePreserved ==
  ASSUME BreakerTypeOK, EvidenceInv, [BreakerNext]_breakerVars
  PROVE  EvidenceInv'
<1> USE CircuitBreakerAssumption
        DEF BreakerTypeOK, Points, keys, attempts, reading, Await, SetState
<1>a. \A d \in Calls : InWindow(failures, clock[d]) \in Nat
  <2> SUFFICES ASSUME NEW d \in Calls
               PROVE  InWindow(failures, clock[d]) \in Nat
    OBVIOUS
  <2>1. clock[d] \in Nat /\ failures \in SUBSET Ages
    OBVIOUS
  <2> QED
    BY <2>1, WindowIsFinite
<1>1. CASE Tick
  <2> SUFFICES ASSUME NEW d \in Calls, at[d] \in Clocked
               PROVE  /\ clock'[d] = clock[d] + 1
                      /\ InWindow(failures, clock[d])
                            <= InWindow(failures', clock'[d])
    <3>1. at' = at /\ counted' = counted
      BY <1>1 DEF Tick
    <3>2. failures' \in SUBSET Ages /\ clock' \in [Calls -> Nat]
      BY <1>1 DEF Tick, Older, Clocked
    <3>3. \A d \in Calls : InWindow(failures', clock'[d]) \in Nat
      BY <3>2, WindowIsFinite
    <3> QED
      BY <1>a, <3>1, <3>3 DEF EvidenceInv, Clocked
  <2>1. clock[d] < MaxDelay /\ clock'[d] = clock[d] + 1
        /\ failures' = Older(failures)
    BY <1>1 DEF Tick
  <2> QED
    BY <2>1, WindowAges
<1>2. ASSUME NEW c \in Calls, Record(c) PROVE EvidenceInv'
  <2>0. 0 \in Ages
    BY DEF Ages
  <2>1. failures \in SUBSET Ages /\ failures' \in SUBSET Ages
        /\ failures \subseteq failures'
    BY <1>2, <2>0 DEF Record
  <2>2. ASSUME NEW d \in Calls
        PROVE  /\ InWindow(failures, clock[d])
                     <= InWindow(failures', clock[d])
               /\ InWindow(failures', clock[d]) \in Nat
    <3>1. clock[d] \in Nat
      OBVIOUS
    <3> QED
      BY <2>1, <3>1, WindowGrows, WindowIsFinite
  <2>3. clock' = clock /\ counted' = counted
        /\ \A d \in Calls : at'[d] \in {"countFailures", "idle"}
                            \/ at'[d] = at[d]
    BY <1>2 DEF Record
  <2> QED
    BY <1>a, <2>2, <2>3 DEF EvidenceInv
<1>3. ASSUME NEW c \in Calls, CountFailures(c) PROVE EvidenceInv'
  <2>1. InWindow(failures, 0) \in Nat
    BY WindowIsFinite
  <2> QED
    BY <1>3, <2>1 DEF CountFailures, EvidenceInv
<1>4. ASSUME NEW c \in Calls, CountSuccesses(c) PROVE EvidenceInv'
  <2>1. clock[c] \in Nat /\ successes \in SUBSET Ages
    OBVIOUS
  <2>2. InWindow(successes, clock[c]) \in Nat
    BY <2>1, WindowIsFinite
  <2> QED
    BY <1>4, <2>2 DEF CountSuccesses, EvidenceInv, NoCount
<1>5. ASSUME NEW c \in Calls, Decide(c) PROVE EvidenceInv'
  BY <1>5, <1>a DEF Decide, TooManyFailures, EvidenceInv, NoCount
<1>6. ASSUME NEW c \in Calls,
             \/ GetState(c) \/ GetOpenedAt(c) \/ SetHalfOpen(c)
             \/ GetTestAttempts(c) \/ SetOpen(c) \/ SetClosed(c)
             \/ ClearOpenedAt(c)
      PROVE  EvidenceInv'
  BY <1>6 DEF GetState, GetOpenedAt, SetHalfOpen, GetTestAttempts, SetOpen,
              SetClosed, ClearOpenedAt, EvidenceInv
<1>7. ASSUME NEW c \in Calls, SetOpenedAt(c) PROVE EvidenceInv'
  BY <1>7 DEF SetOpenedAt, EvidenceInv
<1>8. CASE UNCHANGED breakerVars
  BY <1>8 DEF breakerVars, EvidenceInv
<1> QED
  BY <1>1, <1>2, <1>3, <1>4, <1>5, <1>6, <1>7, <1>8 DEF BreakerNext, Step

(* What a withdrawal counted before it decides never exceeds what is in    *)
(* its window when it acts.                                                *)
THEOREM BreakerEvidence == BreakerSpec => []EvidenceInv
<1>1. BreakerInit => EvidenceInv
  BY DEF BreakerInit, EvidenceInv
<1>2. BreakerStepInv /\ EvidenceInv /\ [BreakerNext]_breakerVars => EvidenceInv'
  BY EvidencePreserved DEF BreakerStepInv
<1> QED
  BY <1>1, <1>2, BreakerTyping, PTL DEF BreakerSpec

(* The circuit opens only when half of the minimum of attempts has failed  *)
(* in the window of the withdrawal that opens it.                          *)
THEOREM BreakerOpensOnFailures == BreakerSpec => OpensOnFailures
<1> DEFINE A == state # "OPEN" /\ state' = "OPEN"
                   => \E c \in Calls :
                         /\ at[c] = "setOpen"
                         /\ 2 * InWindow(failures, clock[c]) >= MinAttempts
<1>1. EvidenceInv /\ [BreakerNext]_breakerVars => [A]_breakerVars
  <2> SUFFICES ASSUME EvidenceInv, BreakerNext,
                      state # "OPEN", state' = "OPEN"
               PROVE  \E c \in Calls :
                         /\ at[c] = "setOpen"
                         /\ 2 * InWindow(failures, clock[c]) >= MinAttempts
    OBVIOUS
  <2>1. \E c \in Calls : SetOpen(c)
    BY DEF BreakerNext, Step, Tick, GetState, GetOpenedAt, SetHalfOpen,
           GetTestAttempts, Record, CountFailures, CountSuccesses, Decide,
           SetOpenedAt, SetClosed, ClearOpenedAt, SetState, keys
  <2> QED
    BY <2>1 DEF SetOpen, EvidenceInv
<1> QED
  BY <1>1, BreakerEvidence, PTL DEF BreakerSpec, OpensOnFailures
=============================================================================
