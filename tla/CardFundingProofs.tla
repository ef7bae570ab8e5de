-------------------------- MODULE CardFundingProofs --------------------------
(***************************************************************************)
(* TLAPS proofs about CardFunding, for every set of deliveries, fundings,  *)
(* collaterals and amounts, and every number of attempts and faults.       *)
(*                                                                         *)
(* Three things carry the proof.  Lemmas about sums over finite sets: the  *)
(* books say that a balance is a sum over what was credited, and a credit  *)
(* adds one member to it.  What a delivery remembers at each place of the  *)
(* handler (PlaceInv).  And who takes the issuance fee: the delivery that  *)
(* made the first credit, whatever the others do meanwhile (FirstInv).     *)
(***************************************************************************)
EXTENDS CardFunding, FiniteSetTheorems, WellFoundedInduction, TLAPS

(* The places of the handler: before the credit (the collateral is in      *)
(* hand), after the match (the deposit is in hand), inside an attempt to   *)
(* charge the fee, under the fee lock, and anywhere after the credit.      *)
InHand == {"lookup", "lock", "readUser", "readCard", "credit"}
Matched == {"lock", "readUser", "readCard", "credit", "checkFee", "previous"}
Charging == {"feeLock", "feeCard", "feeUser", "fee"}
Locked == {"feeCard", "feeUser", "fee"}
OnFee == {"checkFee", "previous", "feeFailed"} \cup Charging

(* What a delivery remembers is sound for the place where it is.           *)
Sound(m) ==
    /\ m.pc \in InHand => m.id \in Collaterals /\ received[m.id] # 0
    /\ m.pc \in Matched => m.for \in Fundings
    /\ m.pc \in Charging => m.left > 0

(* Every delivery is sound, and a job that may still run has an attempt    *)
(* left.                                                                   *)
PlaceInv ==
    /\ \A a \in Actors : Sound(at[a])
    /\ \A f \in Fundings : job[f].pc \in {"ready", "threw"} => job[f].left > 0

(* What Rain received was sent for a funding and does not change; what was *)
(* credited was received, and the unique reference counts it once.         *)
OnceInv ==
    /\ IsFiniteSet(main)
    /\ \A c \in Collaterals :
          /\ received[c] # 0 => owner[c] # None
          /\ c \in main => received[c] # 0
          /\ credits[c] = IF c \in main THEN 1 ELSE 0

(* Without faults, whoever charges the fee holds its lock, and a fee about *)
(* to be charged was not charged before.                                   *)
FeeInv ==
    faults = MaxFaults =>
        /\ feesTaken <= 1
        /\ feeStatus = "PENDING" => feesTaken = 0
        /\ \A a \in Actors :
              /\ at[a].pc \in Locked => feeLock = a
              /\ at[a].pc \in {"feeUser", "fee"} => feesTaken = 0

(* The first credit leaves somebody who will take the fee, and who finds   *)
(* no earlier deposit.                                                     *)
FirstInv ==
    /\ main = {} => \A f \in Fundings : row[f].status # "SUCCESSFUL"
    /\ faults = MaxFaults /\ Cardinality(main) = 1 /\ feeStatus = "PENDING" =>
          \E a \in Actors :
              /\ at[a].pc \in OnFee
              /\ at[a].pc \in {"checkFee", "previous"} => PreviousDeposits(at[a].for) = {}

(* The inductive invariant.                                                *)
Inv == TypeOK /\ PlaceInv /\ OnceInv /\ FundingBooks /\ FeeInv /\ FirstInv

-----------------------------------------------------------------------------
(* Sums over finite sets.  Induction is by a least counterexample.         *)

(* Every non-empty set of natural numbers has a least member.              *)
LEMMA Least ==
  ASSUME NEW T \in SUBSET Nat, T # {}
  PROVE  \E n \in T : \A m \in T : n <= m
<1>1. PICK n \in T : \A m \in T : ~ (<<m, n>> \in OpToRel(<, Nat))
  BY WFMin, NatLessThanWellFounded
<1>2. \A m \in Nat : m < n => <<m, n>> \in OpToRel(<, Nat)
  BY DEF OpToRel
<1>3. \A m \in T : ~ (m < n)
  BY <1>1, <1>2, Zenon
<1>4. \A m \in T : n <= m
  BY <1>3
<1> QED  BY <1>4

(* The member of a set that a fold takes next.                             *)
Some(s) == CHOOSE x \in s : TRUE

(* g adds up r over every subset of S, one chosen member at a time.        *)
AddsUp(g, r, S) ==
    g = [s \in SUBSET S |-> IF s = {} THEN 0 ELSE r[Some(s)] + g[s \ {Some(s)}]]

(* What r adds up to over S, as FundingBooks writes it.                    *)
Total(r, S) == MapThenSumSet(LAMBDA x : r[x], S)

(* A subset without one of its members is smaller by one.                  *)
LEMMA SmallerWithout ==
  ASSUME NEW S, IsFiniteSet(S), NEW s \in SUBSET S, NEW x \in s
  PROVE  /\ IsFiniteSet(s) /\ Cardinality(s) \in Nat \ {0}
         /\ s \ {x} \in SUBSET S
         /\ Cardinality(s \ {x}) = Cardinality(s) - 1
<1>1. IsFiniteSet(s)
  BY FS_Subset
<1>2. /\ Cardinality(s) \in Nat
      /\ Cardinality(s \ {x}) = Cardinality(s) - 1
      /\ Cardinality(s \ {x}) \in Nat
  BY <1>1, FS_RemoveElement, FS_CardinalityType, FS_Subset
<1> QED  BY <1>1, <1>2

(* The recursion that defines the sum has a solution on every finite set:  *)
(* the least size for which it had none would extend the one below it.     *)
LEMMA SumExists ==
  ASSUME NEW S, IsFiniteSet(S), NEW r
  PROVE  \E g : AddsUp(g, r, S)
<1> DEFINE Sub(n) == {s \in SUBSET S : Cardinality(s) <= n}
           Upto(g, n) == g = [s \in Sub(n) |-> IF s = {} THEN 0 ELSE r[Some(s)] + g[s \ {Some(s)}]]
           Missing == {n \in Nat : ~ \E g : Upto(g, n)}
<1>0. \A s \in SUBSET S : s # {} =>
          Some(s) \in s /\ s \ {Some(s)} \in SUBSET S
            /\ Cardinality(s \ {Some(s)}) = Cardinality(s) - 1 /\ Cardinality(s) \in Nat \ {0}
  <2> TAKE s \in SUBSET S
  <2> HAVE s # {}
  <2>1. Some(s) \in s
    BY DEF Some
  <2> QED  BY <2>1, SmallerWithout
<1>. HIDE DEF Sub
<1>01. \A n \in Nat : Sub(n) \subseteq SUBSET S /\ \A s \in Sub(n) : Cardinality(s) <= n
  BY DEF Sub
<1>02. \A s \in SUBSET S : Cardinality(s) \in Nat
  BY FS_Subset, FS_CardinalityType
<1>03. \A n \in Nat, s \in SUBSET S : Cardinality(s) <= n => s \in Sub(n)
  BY DEF Sub
<1>1. \E g : Upto(g, 0)
  <2>1. \A s \in Sub(0) : s = {}
    <3> TAKE s \in Sub(0)
    <3>1. s \in SUBSET S /\ Cardinality(s) <= 0
      BY <1>01
    <3>2. s # {} => Cardinality(s) \in Nat \ {0}
      BY <1>0, <3>1
    <3> QED  BY <3>1, <3>2
  <2>2. Upto([s \in Sub(0) |-> 0], 0)
    BY <2>1
  <2> QED  BY <2>2
<1>2. ASSUME NEW n \in Nat, NEW g, Upto(g, n)
      PROVE  \E h : Upto(h, n + 1)
  <2> DEFINE h == [s \in Sub(n + 1) |-> IF s = {} THEN 0 ELSE r[Some(s)] + g[s \ {Some(s)}]]
  <2>1. \A s \in Sub(n) : s \in Sub(n + 1) /\ h[s] = g[s]
    <3> TAKE s \in Sub(n)
    <3>1. s \in Sub(n + 1)
      BY <1>01, <1>02, <1>03
    <3>2. g[s] = IF s = {} THEN 0 ELSE r[Some(s)] + g[s \ {Some(s)}]
      BY <1>2
    <3> QED  BY <3>1, <3>2
  <2>2. \A s \in Sub(n + 1) : s # {} => s \ {Some(s)} \in Sub(n)
    BY <1>0, <1>01, <1>03
  <2>3. \A s \in Sub(n + 1) : h[s] = IF s = {} THEN 0 ELSE r[Some(s)] + h[s \ {Some(s)}]
    BY <2>1, <2>2
  <2>4. Upto(h, n + 1)
    <3> HIDE DEF h
    <3>1. h = [s \in Sub(n + 1) |-> h[s]]
      BY DEF h
    <3> QED  BY <2>3, <3>1
  <2> QED  BY <2>4
<1> HIDE DEF Upto
<1>3. Missing = {}
  <2> SUFFICES ASSUME Missing # {} PROVE FALSE
    OBVIOUS
  <2>1. PICK n \in Missing : \A m \in Missing : n <= m
    BY Least
  <2>2. n # 0
    BY <1>1
  <2>3. n - 1 \in Nat /\ n - 1 \notin Missing
    BY <2>1, <2>2
  <2>4. PICK g : Upto(g, n - 1)
    BY <2>3
  <2>5. \E h : Upto(h, (n - 1) + 1)
    BY <1>2, <2>3, <2>4
  <2> QED  BY <2>5
<1>4. Cardinality(S) \in Nat /\ Sub(Cardinality(S)) = SUBSET S
  BY FS_Subset, FS_CardinalityType DEF Sub
<1>5. PICK g : Upto(g, Cardinality(S))
  BY <1>3, <1>4
<1>6. AddsUp(g, r, S)
  BY <1>4, <1>5 DEF AddsUp, Upto
<1> QED  BY <1>6

(* Two solutions agree wherever what they add up agrees: on a smallest     *)
(* set where they differ, they would differ on a smaller one already.      *)
LEMMA SumUnique ==
  ASSUME NEW S, IsFiniteSet(S), NEW U \in SUBSET S, NEW r, NEW q,
         \A x \in U : r[x] = q[x],
         NEW g, AddsUp(g, r, S), NEW h, AddsUp(h, q, U)
  PROVE  \A s \in SUBSET U : g[s] = h[s]
<1> DEFINE Differs == {n \in Nat : \E s \in SUBSET U : Cardinality(s) = n /\ g[s] # h[s]}
<1>1. \A s \in SUBSET U : Cardinality(s) \in Nat
  BY FS_Subset, FS_CardinalityType
<1>2. SUFFICES ASSUME Differs # {} PROVE FALSE
  BY <1>1
<1>3. PICK n \in Differs : \A m \in Differs : n <= m
  BY <1>2, Least
<1>4. PICK s \in SUBSET U : Cardinality(s) = n /\ g[s] # h[s]
  BY <1>3
<1>5. /\ g[s] = IF s = {} THEN 0 ELSE r[Some(s)] + g[s \ {Some(s)}]
      /\ h[s] = IF s = {} THEN 0 ELSE q[Some(s)] + h[s \ {Some(s)}]
  BY DEF AddsUp
<1>6. s # {} /\ Some(s) \in s
  BY <1>4, <1>5 DEF Some
<1>7. s \ {Some(s)} \in SUBSET U /\ Cardinality(s \ {Some(s)}) = n - 1
  BY <1>4, <1>6, SmallerWithout
<1>8. g[s \ {Some(s)}] = h[s \ {Some(s)}]
  BY <1>1, <1>3, <1>7
<1> QED  BY <1>4, <1>5, <1>6, <1>8

(* The sum does not depend on the order in which members are taken: any    *)
(* member can be split off.                                                *)
LEMMA SumRemove ==
  ASSUME NEW S, IsFiniteSet(S), NEW r, \A x \in S : r[x] \in Int,
         NEW g, AddsUp(g, r, S)
  PROVE  \A s \in SUBSET S : g[s] \in Int /\ \A c \in s : g[s] = r[c] + g[s \ {c}]
<1> DEFINE Fine(s) == g[s] \in Int /\ \A c \in s : g[s] = r[c] + g[s \ {c}]
           Bad == {n \in Nat : \E s \in SUBSET S : Cardinality(s) = n /\ ~Fine(s)}
<1> SUFFICES \A s \in SUBSET S : Fine(s)
  OBVIOUS
<1>1. \A s \in SUBSET S : Cardinality(s) \in Nat
  BY FS_Subset, FS_CardinalityType
<1>2. \A s \in SUBSET S : g[s] = IF s = {} THEN 0 ELSE r[Some(s)] + g[s \ {Some(s)}]
  BY DEF AddsUp
<1>3. ASSUME NEW n \in Nat, NEW s \in SUBSET S, Cardinality(s) = n,
             \A t \in SUBSET S : Cardinality(t) < n => Fine(t)
      PROVE  Fine(s)
  <2>1. CASE s = {}
    <3>1. g[s] = 0
      BY <1>2, <2>1
    <3> QED  BY <2>1, <3>1
  <2>2. CASE s # {}
    <3> DEFINE x == Some(s)
    <3>1. x \in s
      BY <2>2 DEF Some
    <3>2. g[s] = r[x] + g[s \ {x}]
      BY <1>2, <2>2
    <3> HIDE DEF x
    <3>3. ASSUME NEW c \in s
          PROVE  s \ {c} \in SUBSET S /\ Fine(s \ {c}) /\ r[c] \in Int
      <4> HIDE DEF Fine
      <4>1. s \ {c} \in SUBSET S /\ Cardinality(s \ {c}) < n
        BY <1>3, SmallerWithout
      <4> QED  BY <1>3, <4>1
    <3>4. g[s] \in Int
      BY <3>1, <3>2, <3>3
    <3>5. ASSUME NEW c \in s, c # x
          PROVE  g[s] = r[c] + g[s \ {c}]
      <4> DEFINE t == (s \ {x}) \ {c}
      <4>1. t = (s \ {c}) \ {x} /\ c \in s \ {x} /\ x \in s \ {c}
        BY <3>1, <3>5
      <4>2. g[s \ {x}] = r[c] + g[t]
        BY <3>1, <3>3, <4>1
      <4>3. g[s \ {c}] = r[x] + g[t]
        BY <3>3, <4>1
      <4>4. g[t] \in Int
        <5> HIDE DEF Fine
        <5>1. s \ {x} \in SUBSET S /\ Cardinality(s \ {x}) = n - 1
          BY <1>3, <3>1, SmallerWithout
        <5>2. t \in SUBSET S /\ Cardinality(t) = n - 2
          BY <4>1, <5>1, SmallerWithout
        <5>3. Fine(t)
          BY <1>3, <5>2
        <5> QED  BY <5>3 DEF Fine
      <4> HIDE DEF t
      <4> QED  BY <3>1, <3>2, <3>3, <4>2, <4>3, <4>4
    <3> QED  BY <3>2, <3>4, <3>5
  <2> QED  BY <2>1, <2>2
<1> HIDE DEF Fine
<1>4. Bad = {}
  <2> SUFFICES ASSUME Bad # {} PROVE FALSE
    OBVIOUS
  <2>1. PICK n \in Bad : \A m \in Bad : n <= m
    BY Least
  <2>2. PICK s \in SUBSET S : Cardinality(s) = n /\ ~Fine(s)
    BY <2>1
  <2>3. \A t \in SUBSET S : Cardinality(t) < n => Fine(t)
    BY <1>1, <2>1
  <2> QED  BY <1>3, <2>2, <2>3
<1> QED  BY <1>1, <1>4

(* The library's fold is such a solution.                                  *)
LEMMA TotalAdds ==
  ASSUME NEW S, IsFiniteSet(S), NEW r
  PROVE  \E g : AddsUp(g, r, S) /\ Total(r, S) = g[S]
<1>1. Total(r, S) = (CHOOSE g : AddsUp(g, r, S))[S]
  BY DEF Total, MapThenSumSet, MapThenFoldSet, AddsUp, Some
<1> QED  BY <1>1, SumExists

(* Adding one member adds its value.                                       *)
LEMMA TotalAdd ==
  ASSUME NEW S, IsFiniteSet(S), NEW r, NEW c, c \notin S,
         \A x \in S \cup {c} : r[x] \in Int
  PROVE  /\ Total(r, S) \in Int
         /\ Total(r, S \cup {c}) = Total(r, S) + r[c]
<1> DEFINE W == S \cup {c}
<1>0. IsFiniteSet(W) /\ S \in SUBSET W /\ W \ {c} = S
  BY FS_AddElement
<1>1. PICK g : AddsUp(g, r, W) /\ Total(r, W) = g[W]
  BY <1>0, TotalAdds
<1>2. PICK h : AddsUp(h, r, S) /\ Total(r, S) = h[S]
  BY TotalAdds
<1> HIDE DEF W
<1>3. g[S] = h[S]
  BY <1>0, <1>1, <1>2, SumUnique
<1>4. g[W] = r[c] + g[S] /\ g[S] \in Int
  <2>1. c \in W /\ W \in SUBSET W /\ \A x \in W : r[x] \in Int
    BY DEF W
  <2>2. \A s \in SUBSET W : g[s] \in Int /\ \A d \in s : g[s] = r[d] + g[s \ {d}]
    BY <1>0, <1>1, <2>1, SumRemove
  <2> QED  BY <1>0, <2>1, <2>2
<1> QED  BY <1>1, <1>2, <1>3, <1>4 DEF W

(* Only the values of the members count.                                   *)
LEMMA TotalSame ==
  ASSUME NEW S, IsFiniteSet(S), NEW r, NEW q, \A x \in S : r[x] = q[x]
  PROVE  Total(r, S) = Total(q, S)
<1>1. PICK g : AddsUp(g, r, S) /\ Total(r, S) = g[S]
  BY TotalAdds
<1>2. PICK h : AddsUp(h, q, S) /\ Total(q, S) = h[S]
  BY TotalAdds
<1>3. S \in SUBSET S
  OBVIOUS
<1>4. \A s \in SUBSET S : g[s] = h[s]
  BY <1>1, <1>2, <1>3, SumUnique
<1> QED  BY <1>1, <1>2, <1>3, <1>4

(* A sum of integers is an integer.                                        *)
LEMMA TotalInt ==
  ASSUME NEW S, IsFiniteSet(S), NEW r, \A x \in S : r[x] \in Int
  PROVE  Total(r, S) \in Int
<1>1. PICK g : AddsUp(g, r, S) /\ Total(r, S) = g[S]
  BY TotalAdds
<1>2. S \in SUBSET S
  OBVIOUS
<1> QED  BY <1>1, <1>2, SumRemove

(* Nothing adds up to zero.                                                *)
LEMMA TotalEmpty == ASSUME NEW r PROVE Total(r, {}) = 0
<1>1. PICK g : AddsUp(g, r, {}) /\ Total(r, {}) = g[{}]
  BY TotalAdds, FS_EmptySet
<1> QED  BY <1>1 DEF AddsUp

-----------------------------------------------------------------------------
(* What a delivery remembers.                                              *)

(* Where a PENDING deposit exists, the latest one is a deposit: what       *)
(* handleUserCardDeposit matches a webhook with.                           *)
LEMMA LatestPending ==
  ASSUME TypeOK, Pending # {}
  PROVE  order[Max(Pending)] \in Fundings
<1> DEFINE n == Len(order)
           T == {k \in Nat : n - k \in Pending}
<1>1. order \in Seq(Fundings) /\ n \in Nat /\ DOMAIN order = 1..n
      /\ \A i \in 1..n : order[i] \in Fundings
  BY DEF TypeOK
<1>2. Pending \subseteq 1..n
  BY <1>1 DEF Pending
<1> HIDE DEF n
<1>3. T # {}
  <2>1. PICK i \in Pending : TRUE
    OBVIOUS
  <2>2. n - i \in Nat /\ n - (n - i) = i
    BY <1>1, <1>2, <2>1
  <2> QED  BY <2>1, <2>2
<1>4. PICK k \in T : \A m \in T : k <= m
  BY <1>3, Least
<1>5. n - k \in Pending
  BY <1>4
<1>6. \A i \in Pending : n - k >= i
  <2> TAKE i \in Pending
  <2>1. i \in Nat /\ n - i \in Nat /\ n - (n - i) = i
    BY <1>1, <1>2
  <2>2. n - i \in T
    BY <2>1
  <2>3. k <= n - i /\ k \in Nat /\ n \in Nat
    BY <1>1, <1>4, <2>2
  <2> QED  BY <2>1, <2>3
<1>7. Max(Pending) \in Pending
  BY <1>5, <1>6 DEF Max
<1> QED  BY <1>1, <1>2, <1>7

(* A memory a delivery may be left with.                                   *)
Keeps(m) == m \in Memory /\ Sound(m)

(* A delivery at rest remembers nothing that could be unsound.             *)
LEMMA IdleKeeps == Keeps(Idle)
  BY CardFundingAssumption DEF Keeps, Memory, Points, Idle, Sound, InHand, Matched, Charging

(* A retry of the fee forgets everything but its attempts.                 *)
LEMMA FeeMemory ==
  ASSUME NEW p \in Points, NEW n \in 0..MaxRetries
  PROVE  /\ [Idle EXCEPT !.pc = p, !.left = n] \in Memory
         /\ [Idle EXCEPT !.pc = p, !.left = n].pc = p
         /\ [Idle EXCEPT !.pc = p, !.left = n].left = n
<1>1. Idle \in Memory
  BY IdleKeeps DEF Keeps
<1> QED  BY <1>1 DEF Memory

(* Every step of a delivery leaves it with a sound memory.                 *)
LEMMA StepKeeps ==
  ASSUME Inv, NEW a \in Actors, Deliver(a) \/ TakeIssuanceFee(a)
  PROVE  \E m : Keeps(m) /\ at' = [at EXCEPT ![a] = m]
<1> DEFINE Goal == \E m : Keeps(m) /\ at' = [at EXCEPT ![a] = m]
<1> SUFFICES Goal
  OBVIOUS
<1>0. at \in [Actors -> Memory] /\ at[a] \in Memory /\ Sound(at[a])
      /\ balance \in Int /\ userBalance \in Int
  BY DEF Inv, TypeOK, PlaceInv
<1> USE CardFundingAssumption
<1>1. ASSUME NEW c \in Collaterals, Receive(a, c) PROVE Goal
  <2> DEFINE m == [Idle EXCEPT !.pc = "lookup", !.id = c]
  <2>1. at' = [at EXCEPT ![a] = m] /\ received[c] # 0
    BY <1>1 DEF Receive
  <2>3. Idle \in Memory
    BY IdleKeeps DEF Keeps
  <2>4. m \in Memory /\ m.pc = "lookup" /\ m.id = c
    BY <1>0, <2>3 DEF Memory, Points
  <2> HIDE DEF m
  <2>5. Keeps(m)
    BY <2>4, <2>1 DEF Keeps, Sound, InHand, Matched, Charging
  <2> QED  BY <2>1, <2>5
<1>2. ASSUME Lookup(a) PROVE Goal
  <2> DEFINE f == order[Max(Pending)]
             m == [at[a] EXCEPT !.pc = "lock", !.for = f]
  <2>1. at' = [at EXCEPT ![a] = Idle] \/ (Pending # {} /\ at' = [at EXCEPT ![a] = m])
    BY <1>2 DEF Lookup
  <2> HIDE DEF f
  <2>2. ASSUME Pending # {} PROVE Keeps(m)
    <3>1. f \in Fundings
      BY <2>2, LatestPending DEF f, Inv
    <3> QED  BY <1>0, <1>2, <3>1 DEF Lookup, Keeps, Memory, Points, Sound, InHand,
         Matched, Charging
  <2> HIDE DEF m
  <2> QED  BY <2>1, <2>2, IdleKeeps
<1>3. ASSUME TakeLock(a) PROVE Goal
  <2> DEFINE m == [at[a] EXCEPT !.pc = "readUser"]
  <2>1. at' = [at EXCEPT ![a] = m]
    BY <1>0, <1>3 DEF TakeLock, Goto
  <2>2. Keeps(m)
    BY <1>0, <1>3 DEF TakeLock, Keeps, Memory, Points, Idle, Sound, InHand, Matched,
         Charging
  <2> HIDE DEF m
  <2> QED  BY <2>1, <2>2
<1>4. ASSUME ReadUser(a) PROVE Goal
  <2> DEFINE m == [at[a] EXCEPT !.pc = "readCard", !.userBalance = userBalance]
  <2>1. at' = [at EXCEPT ![a] = m]
    BY <1>0, <1>4 DEF ReadUser
  <2>2. Keeps(m)
    BY <1>0, <1>4 DEF ReadUser, Keeps, Memory, Points, Idle, Sound, InHand, Matched,
         Charging
  <2> HIDE DEF m
  <2> QED  BY <2>1, <2>2
<1>5. ASSUME ReadCard(a) PROVE Goal
  <2> DEFINE m == [at[a] EXCEPT !.pc = "credit", !.balance = balance]
  <2>1. at' = [at EXCEPT ![a] = m]
    BY <1>0, <1>5 DEF ReadCard
  <2>2. Keeps(m)
    BY <1>0, <1>5 DEF ReadCard, Keeps, Memory, Points, Idle, Sound, InHand, Matched,
         Charging
  <2> HIDE DEF m
  <2> QED  BY <2>1, <2>2
<1>6. ASSUME Credit(a) PROVE Goal
  <2> DEFINE m == [Idle EXCEPT !.pc = "checkFee", !.for = at[a].for]
  <2>1. at' = [at EXCEPT ![a] = m]
    BY <1>0, <1>6 DEF Credit
  <2>3. Idle \in Memory
    BY IdleKeeps DEF Keeps
  <2>4. m \in Memory /\ m.pc = "checkFee" /\ m.for = at[a].for
    BY <1>0, <2>3 DEF Memory, Points
  <2> HIDE DEF m
  <2>5. Keeps(m)
    BY <2>4, <1>0, <1>6 DEF Credit, Keeps, Sound, InHand, Matched, Charging
  <2> QED  BY <2>1, <2>5
<1>7. ASSUME Drop(a) PROVE Goal
  BY <1>7, IdleKeeps DEF Drop, Leaves
<1>8. ASSUME CheckFee(a) PROVE Goal
  <2> DEFINE m == [at[a] EXCEPT !.pc = "previous"]
  <2>1. at' = [at EXCEPT ![a] = Idle] \/ at' = [at EXCEPT ![a] = m]
    BY <1>0, <1>8 DEF CheckFee, Goto, Leaves
  <2>2. Keeps(m)
    BY <1>0, <1>8 DEF CheckFee, Keeps, Memory, Points, Idle, Sound, InHand, Matched,
         Charging
  <2> HIDE DEF m
  <2> QED  BY <2>1, <2>2, IdleKeeps
<1>9. ASSUME CheckPrevious(a) PROVE Goal
  <2> DEFINE m == [Idle EXCEPT !.pc = "feeLock", !.left = MaxRetries]
  <2>1. at' = [at EXCEPT ![a] = Idle] \/ at' = [at EXCEPT ![a] = m]
    BY <1>0, <1>9 DEF CheckPrevious
  <2>4. m \in Memory /\ m.pc = "feeLock" /\ m.left = MaxRetries
    <3>1. MaxRetries \in 0..MaxRetries /\ "feeLock" \in Points
      BY DEF Points
    <3> QED  BY <3>1, FeeMemory
  <2> HIDE DEF m
  <2>5. Keeps(m)
    BY <2>4, <1>0, <1>9 DEF CheckPrevious, Keeps, Sound, InHand, Matched, Charging
  <2> QED  BY <2>1, <2>5, IdleKeeps
<1>10. ASSUME TakeFeeLock(a) PROVE Goal
  <2> DEFINE m == [at[a] EXCEPT !.pc = "feeCard"]
  <2>1. at' = [at EXCEPT ![a] = m]
    BY <1>0, <1>10 DEF TakeFeeLock, Goto
  <2>2. Keeps(m)
    BY <1>0, <1>10 DEF TakeFeeLock, Keeps, Memory, Points, Idle, Sound, InHand, Matched,
         Charging
  <2> HIDE DEF m
  <2> QED  BY <2>1, <2>2
<1>11. ASSUME FeeReadCard(a) PROVE Goal
  <2> DEFINE m == [at[a] EXCEPT !.pc = "feeUser", !.balance = balance]
  <2>1. at' = [at EXCEPT ![a] = Idle] \/ at' = [at EXCEPT ![a] = m]
    BY <1>0, <1>11 DEF FeeReadCard, Leaves
  <2>2. Keeps(m)
    BY <1>0, <1>11 DEF FeeReadCard, Keeps, Memory, Points, Idle, Sound, InHand, Matched,
         Charging
  <2> HIDE DEF m
  <2> QED  BY <2>1, <2>2, IdleKeeps
<1>12. ASSUME FeeReadUser(a) PROVE Goal
  <2> DEFINE m == [at[a] EXCEPT !.pc = "fee", !.userBalance = userBalance]
  <2>1. at' = [at EXCEPT ![a] = m]
    BY <1>0, <1>12 DEF FeeReadUser
  <2>2. Keeps(m)
    BY <1>0, <1>12 DEF FeeReadUser, Keeps, Memory, Points, Idle, Sound, InHand, Matched,
         Charging
  <2> HIDE DEF m
  <2> QED  BY <2>1, <2>2
<1>13. ASSUME ChargeFee(a) PROVE Goal
  BY <1>13, IdleKeeps DEF ChargeFee, Leaves
<1>14. ASSUME FeeThrows(a) PROVE Goal
  <2> DEFINE p == IF at[a].left > 1 THEN "feeLock" ELSE "feeFailed"
             m == [Idle EXCEPT !.pc = p, !.left = at[a].left - 1]
  <2>1. at' = [at EXCEPT ![a] = m]
    BY <1>0, <1>14 DEF FeeThrows
  <2>2. at[a].left \in 1..MaxRetries
    BY <1>0, <1>14 DEF FeeThrows, Sound, Charging, Memory
  <2>3. p \in Points /\ at[a].left - 1 \in 0..MaxRetries
    BY <2>2 DEF Points
  <2>4. m \in Memory /\ m.pc \in {"feeLock", "feeFailed"} /\ (m.pc = "feeLock" => m.left > 0)
    <3>1. p \in {"feeLock", "feeFailed"} /\ (p = "feeLock" => at[a].left - 1 > 0)
      BY <2>2
    <3> HIDE DEF p
    <3> QED  BY <2>3, <3>1, FeeMemory
  <2> HIDE DEF m
  <2>5. Keeps(m)
    BY <2>4, <1>0, <1>14 DEF FeeThrows, Keeps, Sound, InHand, Matched, Charging
  <2> QED  BY <2>1, <2>5
<1>15. ASSUME FeeFailed(a) PROVE Goal
  BY <1>15, IdleKeeps DEF FeeFailed, Leaves
<1>16. ASSUME PostFundingFails(a) PROVE Goal
  BY <1>16, IdleKeeps DEF PostFundingFails, Leaves
<1> QED
  BY <1>1, <1>2, <1>3, <1>4, <1>5, <1>6, <1>7, <1>8, <1>9, <1>10, <1>11, <1>12, <1>13,
       <1>14, <1>15, <1>16 DEF Deliver, TakeIssuanceFee

(* So what the deliveries remember keeps its type and stays sound.         *)
LEMMA MemoryStep ==
  ASSUME Inv, Next
  PROVE  at' \in [Actors -> Memory] /\ \A a \in Actors : Sound(at'[a])
<1>0. at \in [Actors -> Memory] /\ \A a \in Actors : Sound(at[a])
  BY DEF Inv, TypeOK, PlaceInv
<1>1. ASSUME NEW a \in Actors, Deliver(a) \/ TakeIssuanceFee(a)
      PROVE  at' \in [Actors -> Memory] /\ \A b \in Actors : Sound(at'[b])
  <2>1. PICK m : Keeps(m) /\ at' = [at EXCEPT ![a] = m]
    BY <1>1, StepKeeps
  <2> QED  BY <1>0, <2>1 DEF Keeps
<1>2. ASSUME NEW f \in Fundings, FundCard(f) \/ RunJob(f) \/ JobFails(f) PROVE at' = at
  BY <1>2 DEF FundCard, RunJob, JobFails
<1>3. ASSUME LeaseEnds PROVE at' = at
  BY <1>3 DEF LeaseEnds
<1> QED
  BY <1>0, <1>1, <1>2, <1>3 DEF Next

(* What was received stays.                                                *)
LEMMA ReceivedStays ==
  ASSUME Inv, Next
  PROVE  \A c \in Collaterals : received[c] # 0 => received'[c] = received[c]
<1> USE DEF Inv, TypeOK, requests
<1>1. ASSUME NEW f \in Fundings, RunJob(f)
      PROVE  \A c \in Collaterals : received[c] # 0 => received'[c] = received[c]
  BY <1>1 DEF RunJob, Transfer, OnceInv
<1>2. ASSUME NEW f \in Fundings, FundCard(f) \/ JobFails(f) PROVE received' = received
  BY <1>2 DEF FundCard, JobFails
<1>3. ASSUME NEW a \in Actors, Deliver(a) \/ TakeIssuanceFee(a)
      PROVE  received' = received
  BY <1>3 DEF Deliver, TakeIssuanceFee, Receive, Lookup, TakeLock, ReadUser, ReadCard,
       Credit, Drop, CheckFee, CheckPrevious, TakeFeeLock, FeeReadCard, FeeReadUser,
       ChargeFee, FeeThrows, FeeFailed, PostFundingFails
<1>4. ASSUME LeaseEnds PROVE received' = received
  BY <1>4 DEF LeaseEnds
<1> QED
  BY <1>1, <1>2, <1>3, <1>4 DEF Next

-----------------------------------------------------------------------------
(* One lemma per part of the invariant.                                    *)

(* Every variable keeps its type.                                          *)
LEMMA TypesStep ==
  ASSUME Inv, Next
  PROVE  TypeOK'
<1> USE MemoryStep DEF Inv, TypeOK
<1>1. ASSUME NEW f \in Fundings, FundCard(f) PROVE TypeOK'
  <2>1. PICK n \in Amounts : row' = [row EXCEPT ![f] = [status |-> "PENDING", amount |-> n]]
    BY <1>1 DEF FundCard
  <2>2. [status |-> "PENDING", amount |-> n] \in Row
    BY DEF Row
  <2>3. /\ [pc |-> "ready", left |-> MaxAttempts] \in JobState
        /\ [pc |-> "threw", left |-> 1] \in JobState
    BY CardFundingAssumption DEF JobState
  <2>4. row' \in [Fundings -> Row]
    BY <2>1, <2>2
  <2>5. job' \in [Fundings -> JobState]
    BY <1>1, <2>3 DEF FundCard
  <2>6. order' \in Seq(Fundings)
    <3>1. order \in Seq(Fundings) /\ order' = Append(order, f)
      BY <1>1 DEF FundCard
    <3> HIDE DEF TypeOK
    <3> QED  BY <3>1
  <2> QED  BY <1>1, <2>4, <2>5, <2>6 DEF FundCard, money, locks, history
<1>2. ASSUME NEW f \in Fundings, RunJob(f) PROVE TypeOK'
  <2>1. [job[f] EXCEPT !.pc = "done"] \in JobState /\ [job[f] EXCEPT !.pc = "threw"] \in JobState
    BY DEF JobState
  <2>2. job' \in [Fundings -> JobState]
    BY <1>2, <2>1 DEF RunJob
  <2>3. row[f].amount \in Amounts \cup {0}
    BY DEF Row
  <2>4. /\ received' \in [Collaterals -> Amounts \cup {0}]
        /\ owner' \in [Collaterals -> Fundings \cup {None}]
    BY <1>2, <2>3 DEF RunJob, Transfer
  <2> QED  BY <1>2, <2>2, <2>4 DEF RunJob, money, locks, history
<1>3. ASSUME NEW f \in Fundings, JobFails(f) PROVE TypeOK'
  <2>1. job[f].left - 1 \in 0..MaxAttempts
    BY <1>3, CardFundingAssumption DEF JobFails, PlaceInv, JobState
  <2>2. [pc |-> IF job[f].left > 1 THEN "ready" ELSE "done", left |-> job[f].left - 1] \in JobState
    BY <2>1 DEF JobState
  <2>3. [row[f] EXCEPT !.status = "DECLINED"] \in Row
    BY DEF Row
  <2>4. job' \in [Fundings -> JobState] /\ row' \in [Fundings -> Row]
    BY <1>3, <2>2, <2>3 DEF JobFails
  <2> QED  BY <1>3, <2>4 DEF JobFails, money, locks, history
<1>4. ASSUME NEW a \in Actors, NEW c \in Collaterals, Receive(a, c) PROVE TypeOK'
  BY <1>4 DEF Receive, Idle, requests, money, locks, history
<1>5. ASSUME NEW a \in Actors, Lookup(a) PROVE TypeOK'
  BY <1>5 DEF Lookup, Idle, requests, money, locks, history
<1>6. ASSUME NEW a \in Actors, TakeLock(a) PROVE TypeOK'
  BY <1>6 DEF TakeLock, Goto, requests, money, locks, history
<1>7. ASSUME NEW a \in Actors, ReadUser(a) PROVE TypeOK'
  BY <1>7 DEF ReadUser, requests, money, locks, history
<1>8. ASSUME NEW a \in Actors, ReadCard(a) PROVE TypeOK'
  BY <1>8 DEF ReadCard, requests, money, locks, history
<1>9. ASSUME NEW a \in Actors, Credit(a) PROVE TypeOK'
  <2> DEFINE c == at[a].id
             f == at[a].for
  <2>1. Sound(at[a]) /\ at[a].pc = "credit" /\ at[a] \in Memory
    BY <1>9 DEF Credit, PlaceInv
  <2>2. c \in Collaterals /\ f \in Fundings /\ at[a].balance \in Int /\ at[a].userBalance \in Int
    BY <2>1 DEF Sound, InHand, Matched, Memory
  <2>3. received[c] \in Int /\ credits[c] + 1 \in Nat
    BY <2>2, CardFundingAssumption
  <2>4. [row[f] EXCEPT !.status = "SUCCESSFUL"] \in Row
    <3> HIDE DEF c, f
    <3>1. row[f] \in Row
      BY <2>2
    <3> QED  BY <3>1 DEF Row
  <2>5. /\ row' = [row EXCEPT ![f] = [row[f] EXCEPT !.status = "SUCCESSFUL"]]
        /\ balance' = at[a].balance + received[c]
        /\ userBalance' = at[a].userBalance + received[c]
        /\ raced' \in BOOLEAN
        /\ main' = main \cup {c}
        /\ credits' = [credits EXCEPT ![c] = credits[c] + 1]
        /\ lock' \in [Collaterals -> Actors \cup {None}]
        /\ UNCHANGED <<order, job, received, owner, feeStatus, feeLock, faults, feesTaken>>
    BY <1>9 DEF Credit, Moves, Unlocks, Stale
  <2> HIDE DEF c, f
  <2>6. row' \in [Fundings -> Row] /\ main' \subseteq Collaterals /\ credits' \in [Collaterals -> Nat]
    BY <2>2, <2>3, <2>4, <2>5
  <2>7. balance' \in Int /\ userBalance' \in Int
    BY <2>2, <2>3, <2>5
  <2> QED
    BY <2>5, <2>6, <2>7
<1>10. ASSUME NEW a \in Actors, Drop(a) PROVE TypeOK'
  BY <1>10 DEF Drop, Leaves, Unlocks, Idle, requests, money, locks, history
<1>11. ASSUME NEW a \in Actors, CheckFee(a) PROVE TypeOK'
  BY <1>11 DEF CheckFee, Goto, Leaves, Idle, requests, money, locks, history
<1>12. ASSUME NEW a \in Actors, CheckPrevious(a) PROVE TypeOK'
  BY <1>12 DEF CheckPrevious, Idle, requests, money, locks, history
<1>13. ASSUME NEW a \in Actors, TakeFeeLock(a) PROVE TypeOK'
  BY <1>13 DEF TakeFeeLock, Goto, requests, money, locks, history
<1>14. ASSUME NEW a \in Actors, FeeReadCard(a) PROVE TypeOK'
  BY <1>14, CardFundingAssumption DEF FeeReadCard, Leaves, FeeUnlocks, StillDue, Idle,
       requests, money, locks, history
<1>15. ASSUME NEW a \in Actors, FeeReadUser(a) PROVE TypeOK'
  BY <1>15 DEF FeeReadUser, requests, money, locks, history
<1>16. ASSUME NEW a \in Actors, ChargeFee(a) PROVE TypeOK'
  BY <1>16, CardFundingAssumption DEF ChargeFee, Moves, FeeUnlocks, Leaves, Idle,
       requests, money, locks, history
<1>17. ASSUME NEW a \in Actors, FeeThrows(a) PROVE TypeOK'
  BY <1>17 DEF FeeThrows, FeeUnlocks, Idle, requests, money, locks, history
<1>18. ASSUME NEW a \in Actors, FeeFailed(a) PROVE TypeOK'
  BY <1>18 DEF FeeFailed, Leaves, Idle, requests, money, locks, history
<1>19. ASSUME NEW a \in Actors, PostFundingFails(a) PROVE TypeOK'
  BY <1>19, CardFundingAssumption DEF PostFundingFails, Leaves, Idle, requests, money,
       locks, history
<1>20. ASSUME LeaseEnds PROVE TypeOK'
  <2>1. faults' \in 0..MaxFaults
    BY <1>20, CardFundingAssumption DEF LeaseEnds
  <2>2. lock' \in [Collaterals -> Actors \cup {None}] /\ feeLock' \in Actors \cup {None}
    BY <1>20 DEF LeaseEnds
  <2> QED  BY <1>20, <2>1, <2>2 DEF LeaseEnds, requests, money, history
<1> QED
  BY <1>1, <1>2, <1>3, <1>4, <1>5, <1>6, <1>7, <1>8, <1>9, <1>10, <1>11, <1>12, <1>13,
     <1>14, <1>15, <1>16, <1>17, <1>18, <1>19, <1>20
     DEF Next, Deliver, TakeIssuanceFee

(* Every step keeps the deliveries and the jobs sound.                     *)
LEMMA PlaceStep ==
  ASSUME Inv, Next
  PROVE  PlaceInv'
<1>1. \A a \in Actors : Sound(at[a])'
  <2>1. \A a \in Actors : Sound(at'[a])
    BY MemoryStep
  <2> QED  BY <2>1, ReceivedStays DEF Sound
<1>2. \A f \in Fundings : job'[f].pc \in {"ready", "threw"} => job'[f].left > 0
  <2> DEFINE Goal == \A f \in Fundings : job'[f].pc \in {"ready", "threw"} => job'[f].left > 0
  <2>0. /\ job \in [Fundings -> JobState]
        /\ \A f \in Fundings : job[f].pc \in {"ready", "threw"} => job[f].left > 0
    BY DEF Inv, TypeOK, PlaceInv
  <2>1. ASSUME NEW f \in Fundings, FundCard(f) PROVE Goal
    BY <2>0, <2>1, CardFundingAssumption DEF FundCard
  <2>2. ASSUME NEW f \in Fundings, RunJob(f) PROVE Goal
    BY <2>0, <2>2 DEF RunJob, JobState
  <2>3. ASSUME NEW f \in Fundings, JobFails(f) PROVE Goal
    BY <2>0, <2>3 DEF JobFails, JobState
  <2>4. ASSUME job' = job PROVE Goal
    BY <2>0, <2>4
  <2>5. ASSUME NEW a \in Actors, Deliver(a) \/ TakeIssuanceFee(a) PROVE job' = job
    BY <2>5 DEF Deliver, Receive, Lookup, TakeLock, ReadUser, ReadCard, Credit, Drop,
         TakeIssuanceFee, CheckFee, CheckPrevious, TakeFeeLock, FeeReadCard, FeeReadUser,
         ChargeFee, FeeThrows, FeeFailed, PostFundingFails, requests
  <2>6. LeaseEnds => job' = job
    BY DEF LeaseEnds, requests
  <2> QED  BY <2>1, <2>2, <2>3, <2>4, <2>5, <2>6 DEF Next
<1> QED  BY <1>1, <1>2 DEF PlaceInv

(* Every step keeps the credits once per collateral: only Credit adds one, *)
(* and IsNew refuses a collateral that has its row.                        *)
LEMMA OnceStep ==
  ASSUME Inv, Next
  PROVE  OnceInv'
<1> USE DEF Inv, TypeOK, OnceInv
<1>1. ASSUME NEW f \in Fundings, FundCard(f) PROVE OnceInv'
  BY <1>1 DEF FundCard, requests, money, locks, history
<1>2. ASSUME NEW f \in Fundings, RunJob(f) PROVE OnceInv'
  <2>1. f # None
    BY CardFundingAssumption
  <2> QED  BY <1>2, <2>1 DEF RunJob, Transfer, money, history
<1>3. ASSUME NEW f \in Fundings, JobFails(f) PROVE OnceInv'
  BY <1>3 DEF JobFails, requests, money, locks, history
<1>4. ASSUME NEW a \in Actors, NEW c \in Collaterals, Receive(a, c) PROVE OnceInv'
  BY <1>4 DEF Receive, Idle, requests, money, locks, history
<1>5. ASSUME NEW a \in Actors, Lookup(a) PROVE OnceInv'
  BY <1>5 DEF Lookup, Idle, requests, money, locks, history
<1>6. ASSUME NEW a \in Actors, TakeLock(a) PROVE OnceInv'
  BY <1>6 DEF TakeLock, Goto, requests, money, locks, history
<1>7. ASSUME NEW a \in Actors, ReadUser(a) PROVE OnceInv'
  BY <1>7 DEF ReadUser, requests, money, locks, history
<1>8. ASSUME NEW a \in Actors, ReadCard(a) PROVE OnceInv'
  BY <1>8 DEF ReadCard, requests, money, locks, history
<1>9. ASSUME NEW a \in Actors, Credit(a) PROVE OnceInv'
  <2> DEFINE c == at[a].id
  <2>1. Sound(at[a]) /\ at[a].pc = "credit"
    BY <1>9 DEF Credit, PlaceInv
  <2>2. c \in Collaterals /\ received[c] # 0
    BY <2>1 DEF Sound, InHand
  <2>3. /\ main' = main \cup {c} /\ c \notin main
        /\ credits' = [credits EXCEPT ![c] = credits[c] + 1]
        /\ UNCHANGED <<received, owner>>
    BY <1>9 DEF Credit, IsNew
  <2>4. IsFiniteSet(main')
    BY <2>3, FS_AddElement
  <2> HIDE DEF c
  <2> QED  BY <2>2, <2>3, <2>4
<1>10. ASSUME NEW a \in Actors, Drop(a) PROVE OnceInv'
  BY <1>10 DEF Drop, Leaves, Unlocks, Idle, requests, money, locks, history
<1>11. ASSUME NEW a \in Actors, CheckFee(a) PROVE OnceInv'
  BY <1>11 DEF CheckFee, Goto, Leaves, Idle, requests, money, locks, history
<1>12. ASSUME NEW a \in Actors, CheckPrevious(a) PROVE OnceInv'
  BY <1>12 DEF CheckPrevious, Idle, requests, money, locks, history
<1>13. ASSUME NEW a \in Actors, TakeFeeLock(a) PROVE OnceInv'
  BY <1>13 DEF TakeFeeLock, Goto, requests, money, locks, history
<1>14. ASSUME NEW a \in Actors, FeeReadCard(a) PROVE OnceInv'
  BY <1>14 DEF FeeReadCard, Leaves, FeeUnlocks, StillDue, Idle, requests, money, locks,
       history
<1>15. ASSUME NEW a \in Actors, FeeReadUser(a) PROVE OnceInv'
  BY <1>15 DEF FeeReadUser, requests, money, locks, history
<1>16. ASSUME NEW a \in Actors, ChargeFee(a) PROVE OnceInv'
  BY <1>16 DEF ChargeFee, Moves, FeeUnlocks, Leaves, Idle, requests, money, locks, history
<1>17. ASSUME NEW a \in Actors, FeeThrows(a) PROVE OnceInv'
  BY <1>17 DEF FeeThrows, FeeUnlocks, Idle, requests, money, locks, history
<1>18. ASSUME NEW a \in Actors, FeeFailed(a) PROVE OnceInv'
  BY <1>18 DEF FeeFailed, Leaves, Idle, requests, money, locks, history
<1>19. ASSUME NEW a \in Actors, PostFundingFails(a) PROVE OnceInv'
  BY <1>19 DEF PostFundingFails, Leaves, Idle, requests, money, locks, history
<1>20. ASSUME LeaseEnds PROVE OnceInv'
  BY <1>20 DEF LeaseEnds, requests, money, locks, history
<1> QED
  BY <1>1, <1>2, <1>3, <1>4, <1>5, <1>6, <1>7, <1>8, <1>9, <1>10, <1>11, <1>12, <1>13,
     <1>14, <1>15, <1>16, <1>17, <1>18, <1>19, <1>20
     DEF Next, Deliver, TakeIssuanceFee

(* Every step keeps the fee at most once while no fault occurs: the        *)
(* status is read again under the fee lock.                                *)
LEMMA FeeStep ==
  ASSUME Inv, Next
  PROVE  FeeInv'
<1> USE CardFundingAssumption DEF Inv, TypeOK, Memory, FeeInv, Locked
<1>1. ASSUME NEW f \in Fundings, FundCard(f) PROVE FeeInv'
  BY <1>1 DEF FundCard, requests, money, locks, history
<1>2. ASSUME NEW f \in Fundings, RunJob(f) PROVE FeeInv'
  BY <1>2 DEF RunJob, Transfer, requests, money, locks, history
<1>3. ASSUME NEW f \in Fundings, JobFails(f) PROVE FeeInv'
  BY <1>3 DEF JobFails, requests, money, locks, history
<1>4. ASSUME NEW a \in Actors, NEW c \in Collaterals, Receive(a, c) PROVE FeeInv'
  BY <1>4 DEF Receive, Idle, requests, money, locks, history
<1>5. ASSUME NEW a \in Actors, Lookup(a) PROVE FeeInv'
  BY <1>5 DEF Lookup, Idle, requests, money, locks, history
<1>6. ASSUME NEW a \in Actors, TakeLock(a) PROVE FeeInv'
  BY <1>6 DEF TakeLock, Goto, requests, money, locks, history
<1>7. ASSUME NEW a \in Actors, ReadUser(a) PROVE FeeInv'
  BY <1>7 DEF ReadUser, requests, money, locks, history
<1>8. ASSUME NEW a \in Actors, ReadCard(a) PROVE FeeInv'
  BY <1>8 DEF ReadCard, requests, money, locks, history
<1>9. ASSUME NEW a \in Actors, Credit(a) PROVE FeeInv'
  BY <1>9 DEF Credit, Moves, IsNew, Unlocks, Idle, requests, money, locks, history
<1>10. ASSUME NEW a \in Actors, Drop(a) PROVE FeeInv'
  BY <1>10 DEF Drop, Leaves, Unlocks, Idle, requests, money, locks, history
<1>11. ASSUME NEW a \in Actors, CheckFee(a) PROVE FeeInv'
  <2>1. CASE Goto(a, "previous")
    BY <1>11, <2>1 DEF CheckFee, Goto, money, locks, history
  <2>2. CASE Leaves(a)
    BY <1>11, <2>2 DEF CheckFee, Leaves, Idle, money, locks, history
  <2> QED  BY <1>11, <2>1, <2>2 DEF CheckFee
<1>12. ASSUME NEW a \in Actors, CheckPrevious(a) PROVE FeeInv'
  BY <1>12 DEF CheckPrevious, Idle, requests, money, locks, history
<1>13. ASSUME NEW a \in Actors, TakeFeeLock(a) PROVE FeeInv'
  BY <1>13 DEF TakeFeeLock, Goto, requests, money, locks, history
<1>14. ASSUME NEW a \in Actors, FeeReadCard(a) PROVE FeeInv'
  <2>1. CASE StillDue /\ at' = [at EXCEPT ![a].pc = "feeUser", ![a].balance = balance] /\ UNCHANGED feeLock
    BY <1>14, <2>1 DEF FeeReadCard, StillDue, money, history
  <2>2. CASE Leaves(a) /\ FeeUnlocks(a)
    BY <1>14, <2>2 DEF FeeReadCard, Leaves, FeeUnlocks, Idle, money, history
  <2> QED  BY <1>14, <2>1, <2>2 DEF FeeReadCard
<1>15. ASSUME NEW a \in Actors, FeeReadUser(a) PROVE FeeInv'
  BY <1>15 DEF FeeReadUser, requests, money, locks, history
<1>16. ASSUME NEW a \in Actors, ChargeFee(a) PROVE FeeInv'
  BY <1>16 DEF ChargeFee, Moves, FeeUnlocks, Leaves, Idle, requests, money, locks, history
<1>17. ASSUME NEW a \in Actors, FeeThrows(a) PROVE FeeInv'
  BY <1>17 DEF FeeThrows, FeeUnlocks, Idle, requests, money, locks, history
<1>18. ASSUME NEW a \in Actors, FeeFailed(a) PROVE FeeInv'
  BY <1>18 DEF FeeFailed, Leaves, Idle, requests, money, locks, history
<1>19. ASSUME NEW a \in Actors, PostFundingFails(a) PROVE FeeInv'
  BY <1>19 DEF PostFundingFails, Leaves, Idle, requests, money, locks, history
<1>20. ASSUME LeaseEnds PROVE FeeInv'
  BY <1>20 DEF LeaseEnds, requests, money, locks, history
<1> QED
  BY <1>1, <1>2, <1>3, <1>4, <1>5, <1>6, <1>7, <1>8, <1>9, <1>10, <1>11, <1>12, <1>13,
     <1>14, <1>15, <1>16, <1>17, <1>18, <1>19, <1>20
     DEF Next, Deliver, TakeIssuanceFee

(* Who is about to take the fee after the first credit.                    *)
FirstFee(b) ==
    /\ at[b].pc \in OnFee
    /\ at[b].pc \in {"checkFee", "previous"} => PreviousDeposits(at[b].for) = {}

(* A delivery that is about to take the fee goes on to take it, or settles *)
(* it; no step of another delivery stops it.                               *)
LEMMA FeeGoesOn ==
  ASSUME Inv, Next, NEW b \in Actors, FirstFee(b), main' = main, faults' = faults,
         feeStatus' = "PENDING"
  PROVE  FirstFee(b)'
<1>0. at \in [Actors -> Memory] /\ row \in [Fundings -> Row]
  BY DEF Inv, TypeOK
<1> USE <1>0 DEF FirstFee, OnFee, Charging, PreviousDeposits, Memory, Row
<1>1. ASSUME NEW f \in Fundings, FundCard(f) PROVE FirstFee(b)'
  BY <1>1 DEF FundCard, requests, money, locks, history
<1>2. ASSUME NEW f \in Fundings, RunJob(f) PROVE FirstFee(b)'
  BY <1>2 DEF RunJob, Transfer, requests, money, locks, history
<1>3. ASSUME NEW f \in Fundings, JobFails(f) PROVE FirstFee(b)'
  BY <1>3 DEF JobFails, requests, money, locks, history
<1>4. ASSUME NEW a \in Actors, NEW c \in Collaterals, Receive(a, c) PROVE FirstFee(b)'
  BY <1>4 DEF Receive, Idle, requests, money, locks, history
<1>5. ASSUME NEW a \in Actors, Lookup(a) PROVE FirstFee(b)'
  BY <1>5 DEF Lookup, Idle, requests, money, locks, history
<1>6. ASSUME NEW a \in Actors, TakeLock(a) PROVE FirstFee(b)'
  BY <1>6 DEF TakeLock, Goto, requests, money, locks, history
<1>7. ASSUME NEW a \in Actors, ReadUser(a) PROVE FirstFee(b)'
  BY <1>7 DEF ReadUser, requests, money, locks, history
<1>8. ASSUME NEW a \in Actors, ReadCard(a) PROVE FirstFee(b)'
  BY <1>8 DEF ReadCard, requests, money, locks, history
<1>9. ASSUME NEW a \in Actors, Credit(a) PROVE FirstFee(b)'
  BY <1>9 DEF Credit, Moves, IsNew, Unlocks, Idle, requests, money, locks, history
<1>10. ASSUME NEW a \in Actors, Drop(a) PROVE FirstFee(b)'
  BY <1>10 DEF Drop, Leaves, Unlocks, Idle, requests, money, locks, history
<1>11. ASSUME NEW a \in Actors, CheckFee(a) PROVE FirstFee(b)'
  BY <1>11 DEF CheckFee, Goto, Leaves, Idle, requests, money, locks, history
<1>12. ASSUME NEW a \in Actors, CheckPrevious(a) PROVE FirstFee(b)'
  BY <1>12 DEF CheckPrevious, Idle, requests, money, locks, history
<1>13. ASSUME NEW a \in Actors, TakeFeeLock(a) PROVE FirstFee(b)'
  BY <1>13 DEF TakeFeeLock, Goto, requests, money, locks, history
<1>14. ASSUME NEW a \in Actors, FeeReadCard(a) PROVE FirstFee(b)'
  BY <1>14 DEF FeeReadCard, Leaves, FeeUnlocks, StillDue, Idle, requests, money, locks,
       history
<1>15. ASSUME NEW a \in Actors, FeeReadUser(a) PROVE FirstFee(b)'
  BY <1>15 DEF FeeReadUser, requests, money, locks, history
<1>16. ASSUME NEW a \in Actors, ChargeFee(a) PROVE FirstFee(b)'
  BY <1>16 DEF ChargeFee, Moves, FeeUnlocks, Leaves, Idle, requests, money, locks, history
<1>17. ASSUME NEW a \in Actors, FeeThrows(a) PROVE FirstFee(b)'
  BY <1>17 DEF FeeThrows, FeeUnlocks, Idle, requests, money, locks, history
<1>18. ASSUME NEW a \in Actors, FeeFailed(a) PROVE FirstFee(b)'
  BY <1>18 DEF FeeFailed, Leaves, Idle, requests, money, locks, history
<1>19. ASSUME NEW a \in Actors, PostFundingFails(a) PROVE FirstFee(b)'
  BY <1>19 DEF PostFundingFails, Leaves, Idle, requests, money, locks, history
<1>20. ASSUME LeaseEnds PROVE FirstFee(b)'
  BY <1>20 DEF LeaseEnds, requests, money, locks, history
<1> QED
  BY <1>1, <1>2, <1>3, <1>4, <1>5, <1>6, <1>7, <1>8, <1>9, <1>10, <1>11, <1>12, <1>13,
     <1>14, <1>15, <1>16, <1>17, <1>18, <1>19, <1>20
     DEF Next, Deliver, TakeIssuanceFee

(* What a credit does, in terms of the collateral and the deposit.         *)
LEMMA CreditDoes ==
  ASSUME Inv, NEW a \in Actors, Credit(a)
  PROVE  /\ at[a].id \in Collaterals /\ at[a].id \notin main
         /\ main' = main \cup {at[a].id}
         /\ received' = received
         /\ received[at[a].id] # 0
         /\ at'[a].pc = "checkFee" /\ at'[a].for = at[a].for
         /\ at[a].for \in Fundings
         /\ \A f \in Fundings : f # at[a].for => row'[f] = row[f]
<1>1. Sound(at[a]) /\ at[a].pc = "credit" /\ at \in [Actors -> Memory] /\ row \in [Fundings -> Row]
  BY DEF Credit, Inv, PlaceInv, TypeOK
<1>2. at[a].id \in Collaterals /\ received[at[a].id] # 0 /\ at[a].for \in Fundings
  BY <1>1 DEF Sound, InHand, Matched
<1>3. at[a].id \notin main /\ main' = main \cup {at[a].id} /\ received' = received
  BY DEF Credit, IsNew
<1>4. at'[a].pc = "checkFee" /\ at'[a].for = at[a].for
  BY <1>1 DEF Credit, Idle
<1>5. \A f \in Fundings : f # at[a].for => row'[f] = row[f]
  BY <1>1 DEF Credit
<1> QED  BY <1>1, <1>2, <1>3, <1>4, <1>5

(* Steps other than a credit leave main alone and make no deposit          *)
(* SUCCESSFUL.                                                             *)
LEMMA OnlyCredits ==
  ASSUME Inv, Next, \A a \in Actors : ~Credit(a)
  PROVE  main' = main /\ \A f \in Fundings : row'[f].status = "SUCCESSFUL" => row[f].status = "SUCCESSFUL"
<1> DEFINE Goal == main' = main /\ \A f \in Fundings : row'[f].status = "SUCCESSFUL" => row[f].status = "SUCCESSFUL"
<1>0. row \in [Fundings -> Row]
  BY DEF Inv, TypeOK
<1>1. ASSUME NEW f \in Fundings, FundCard(f) \/ RunJob(f) \/ JobFails(f) PROVE Goal
  BY <1>0, <1>1 DEF FundCard, RunJob, JobFails, money, Row
<1>2. ASSUME NEW a \in Actors, Deliver(a) \/ TakeIssuanceFee(a) PROVE Goal
  BY <1>2 DEF Deliver, Receive, Lookup, TakeLock, ReadUser, ReadCard, Drop,
     TakeIssuanceFee, CheckFee, CheckPrevious, TakeFeeLock, FeeReadCard, FeeReadUser,
     ChargeFee, FeeThrows, FeeFailed, PostFundingFails, requests, money
<1>3. LeaseEnds => Goal
  BY DEF LeaseEnds, requests, money
<1> QED  BY <1>1, <1>2, <1>3 DEF Next

(* Faults are only used up.                                                *)
LEMMA FaultsFall == ASSUME Inv, Next PROVE faults' <= faults
<1>0. faults \in Nat
  BY CardFundingAssumption DEF Inv, TypeOK
<1>1. ASSUME NEW f \in Fundings, FundCard(f) \/ RunJob(f) \/ JobFails(f) PROVE faults' = faults
  BY <1>1 DEF FundCard, RunJob, JobFails, locks
<1>2. ASSUME NEW a \in Actors, Deliver(a) \/ TakeIssuanceFee(a) PROVE faults' <= faults
  <2>1. faults' = faults \/ faults' = faults - 1
    BY <1>2 DEF Deliver, Receive, Lookup, TakeLock, ReadUser, ReadCard, Credit, Drop,
       TakeIssuanceFee, CheckFee, CheckPrevious, TakeFeeLock, FeeReadCard, FeeReadUser,
       ChargeFee, FeeThrows, FeeFailed, PostFundingFails, locks
  <2> QED  BY <1>0, <2>1
<1>3. LeaseEnds => faults' <= faults
  BY <1>0 DEF LeaseEnds
<1> QED  BY <1>0, <1>1, <1>2, <1>3 DEF Next

(* Every step keeps somebody for the fee of the first credit.              *)
LEMMA FirstStep ==
  ASSUME Inv, Next
  PROVE  FirstInv'
<1>0. FirstInv /\ IsFiniteSet(main) /\ faults \in Int /\ faults <= MaxFaults
  BY CardFundingAssumption DEF Inv, TypeOK, OnceInv
<1>1. ASSUME NEW a \in Actors, Credit(a) PROVE FirstInv'
  <2>1. main' # {} /\ Cardinality(main') = Cardinality(main) + 1 /\ Cardinality(main) \in Nat
    BY <1>0, <1>1, CreditDoes, FS_AddElement, FS_CardinalityType
  <2>2. ASSUME Cardinality(main') = 1 PROVE FirstFee(a)'
    <3>1. main = {}
      BY <1>0, <2>1, <2>2, FS_EmptySet
    <3>2. \A f \in Fundings : row[f].status # "SUCCESSFUL"
      BY <1>0, <3>1 DEF FirstInv
    <3> QED  BY <1>1, <3>2, CreditDoes DEF FirstFee, OnFee, PreviousDeposits
  <2> QED  BY <2>1, <2>2 DEF FirstInv, FirstFee
<1>2. ASSUME \A a \in Actors : ~Credit(a) PROVE FirstInv'
  <2>1. main' = main /\ \A f \in Fundings : row'[f].status = "SUCCESSFUL" => row[f].status = "SUCCESSFUL"
    BY <1>2, OnlyCredits
  <2>2. main' = {} => \A f \in Fundings : row'[f].status # "SUCCESSFUL"
    BY <1>0, <2>1 DEF FirstInv
  <2>3. ASSUME faults' = MaxFaults, Cardinality(main') = 1, feeStatus' = "PENDING"
        PROVE  \E b \in Actors : FirstFee(b)'
    <3>1. faults' = faults
      <4>1. faults' <= faults
        BY FaultsFall
      <4>2. MaxFaults \in Nat
        BY CardFundingAssumption
      <4> QED  BY <1>0, <2>3, <4>1, <4>2
    <3>2. feeStatus = "PENDING"
      <4>1. feeStatus' = feeStatus \/ feeStatus' \in {"COMPLETED", "FAILED"}
        BY DEF Next, FundCard, RunJob, JobFails, Deliver, Receive, Lookup, TakeLock,
             ReadUser,
           ReadCard, Credit, Drop, TakeIssuanceFee, CheckFee, CheckPrevious, TakeFeeLock,
           FeeReadCard, FeeReadUser, ChargeFee, FeeThrows, FeeFailed, PostFundingFails,
           LeaseEnds, money
      <4> QED  BY <2>3, <4>1
    <3>3. PICK b \in Actors : FirstFee(b)
      BY <1>0, <2>1, <2>3, <3>1, <3>2 DEF FirstInv, FirstFee
    <3> QED  BY <2>1, <2>3, <3>1, <3>3, FeeGoesOn
  <2> QED  BY <2>2, <2>3 DEF FirstInv, FirstFee
<1> QED  BY <1>1, <1>2

(* Every step keeps the books: a credit adds its collateral to the sum, a  *)
(* fee takes the fee, and both write what they read unless they raced.     *)
LEMMA BooksStep ==
  ASSUME Inv, Next
  PROVE  FundingBooks'
<1> DEFINE Same == UNCHANGED <<balance, userBalance, feesTaken, raced>>
<1>0. /\ IsFiniteSet(main) /\ \A c \in main : received[c] # 0
      /\ main \subseteq Collaterals
      /\ \A c \in Collaterals : received[c] \in Int
      /\ feesTaken \in Nat /\ balance \in Int /\ userBalance \in Int /\ IssuanceFee \in Nat
      /\ raced \in BOOLEAN
  <2>1. TypeOK /\ OnceInv
    BY DEF Inv
  <2>2. IsFiniteSet(main) /\ main \subseteq Collaterals /\ \A c \in main : received[c] # 0
    BY <2>1 DEF TypeOK, OnceInv
  <2>3. \A c \in Collaterals : received[c] \in Int
    <3>1. received \in [Collaterals -> Amounts \cup {0}]
      BY <2>1 DEF TypeOK
    <3>2. Amounts \cup {0} \subseteq Int
      BY CardFundingAssumption
    <3> QED  BY <3>1, <3>2
  <2> QED  BY <2>1, <2>2, <2>3, CardFundingAssumption DEF TypeOK
<1>1. ~raced => balance = Total(received, main) - IssuanceFee * feesTaken /\ userBalance = balance
  BY DEF Inv, FundingBooks, Total
<1>2. SUFFICES ~raced' => balance' = Total(received', main') - IssuanceFee * feesTaken' /\ userBalance' = balance'
  BY DEF FundingBooks, Total, MapThenSumSet, MapThenFoldSet
<1>3. ASSUME main' = main PROVE Total(received', main') = Total(received, main)
  <2>1. \A c \in main : received[c] = received'[c]
    BY <1>0, ReceivedStays
  <2>2. Total(received, main) = Total(received', main)
    BY <1>0, <2>1, TotalSame
  <2> QED  BY <1>3, <2>2
<1>4. ASSUME NEW a \in Actors, Credit(a)
      PROVE  ~raced' => balance' = Total(received', main') - IssuanceFee * feesTaken' /\ userBalance' = balance'
  <2> DEFINE c == at[a].id
  <2>1. c \in Collaterals /\ c \notin main /\ main' = main \cup {c} /\ received' = received
    BY <1>4, CreditDoes
  <2>2. raced' = (raced \/ Stale(a)) /\ feesTaken' = feesTaken
        /\ balance' = at[a].balance + received[c] /\ userBalance' = at[a].userBalance + received[c]
    BY <1>4 DEF Credit, Moves
  <2>3. Total(received, main \cup {c}) = Total(received, main) + received[c] /\ Total(received, main) \in Int
    <3>1. \A x \in main \cup {c} : received[x] \in Int
      BY <1>0, <2>1
    <3> QED  BY <1>0, <2>1, <3>1, TotalAdd
  <2>4. received[c] \in Int
    BY <1>0, <2>1
  <2> HIDE DEF c
  <2> SUFFICES ASSUME ~raced'
               PROVE  balance' = Total(received', main') - IssuanceFee * feesTaken' /\ userBalance' = balance'
    OBVIOUS
  <2>5. ~raced /\ at[a].balance = balance /\ at[a].userBalance = userBalance
    BY <2>2 DEF Stale
  <2>6. Total(received', main') = Total(received, main) + received[c]
    BY <2>1, <2>3
  <2>7. IssuanceFee * feesTaken \in Int
    BY <1>0
  <2> QED  BY <1>0, <1>1, <2>2, <2>3, <2>4, <2>5, <2>6, <2>7
<1>5. ASSUME NEW a \in Actors, ChargeFee(a)
      PROVE  ~raced' => balance' = Total(received', main') - IssuanceFee * feesTaken' /\ userBalance' = balance'
  <2>1. raced' = (raced \/ Stale(a)) /\ feesTaken' = feesTaken + 1 /\ main' = main
        /\ balance' = at[a].balance + -IssuanceFee /\ userBalance' = at[a].userBalance + -IssuanceFee
    BY <1>5 DEF ChargeFee, Moves
  <2>2. IssuanceFee * (feesTaken + 1) = IssuanceFee * feesTaken + IssuanceFee /\ IssuanceFee * feesTaken \in Int
    BY <1>0
  <2>3. Total(received', main') = Total(received, main)
    BY <1>3, <2>1
  <2> SUFFICES ASSUME ~raced'
               PROVE  balance' = Total(received', main') - IssuanceFee * feesTaken' /\ userBalance' = balance'
    OBVIOUS
  <2>4. ~raced /\ at[a].balance = balance /\ at[a].userBalance = userBalance
    BY <2>1 DEF Stale
  <2>5. balance' = balance - IssuanceFee /\ userBalance' = balance'
    BY <1>0, <1>1, <2>1, <2>4
  <2>6. Total(received, main) \in Int
    BY <1>0, TotalInt
  <2> QED  BY <1>0, <1>1, <2>1, <2>2, <2>3, <2>4, <2>5, <2>6
<1>6. ASSUME \A a \in Actors : ~Credit(a) /\ ~ChargeFee(a) PROVE Same
  <2>1. ASSUME NEW f \in Fundings, FundCard(f) \/ RunJob(f) \/ JobFails(f) PROVE Same
    BY <2>1 DEF FundCard, RunJob, JobFails, money, history
  <2>2. ASSUME NEW a \in Actors, Deliver(a) \/ TakeIssuanceFee(a) PROVE Same
    BY <1>6, <2>2 DEF Deliver, Receive, Lookup, TakeLock, ReadUser, ReadCard, Drop,
       TakeIssuanceFee, CheckFee, CheckPrevious, TakeFeeLock, FeeReadCard, FeeReadUser,
       FeeThrows, FeeFailed, PostFundingFails, money, history
  <2>3. LeaseEnds => Same
    BY DEF LeaseEnds, money, history
  <2> QED  BY <2>1, <2>2, <2>3 DEF Next
<1>7. ASSUME \A a \in Actors : ~Credit(a) /\ ~ChargeFee(a)
      PROVE  ~raced' => balance' = Total(received', main') - IssuanceFee * feesTaken' /\ userBalance' = balance'
  <2>1. Same /\ Total(received', main') = Total(received, main)
    BY <1>3, <1>6, <1>7, OnlyCredits
  <2> QED  BY <1>1, <2>1
<1> QED  BY <1>4, <1>5, <1>7

(* The initial states satisfy the invariant.                               *)
LEMMA InitInv == Init => Inv
<1> SUFFICES ASSUME Init PROVE Inv
  OBVIOUS
<1> USE CardFundingAssumption DEF Init
<1>1. TypeOK
  <2>1. Idle \in Memory
    BY IdleKeeps DEF Keeps
  <2>2. [status |-> "none", amount |-> 0] \in Row /\ [pc |-> "none", left |-> 0] \in JobState
    BY DEF Row, JobState
  <2>3. order \in Seq(Fundings)
    OBVIOUS
  <2>4. row \in [Fundings -> Row] /\ job \in [Fundings -> JobState] /\ at \in [Actors -> Memory]
    BY <2>1, <2>2
  <2>5. /\ received \in [Collaterals -> Amounts \cup {0}]
        /\ owner \in [Collaterals -> Fundings \cup {None}]
        /\ lock \in [Collaterals -> Actors \cup {None}]
        /\ credits \in [Collaterals -> Nat]
    OBVIOUS
  <2>6. /\ main \subseteq Collaterals /\ feeLock \in Actors \cup {None}
        /\ balance \in Int /\ userBalance \in Int /\ feesTaken \in Nat
        /\ feeStatus \in {"PENDING", "COMPLETED", "FAILED"}
    OBVIOUS
  <2>7. raced \in BOOLEAN
    BY Zenon
  <2>8. faults \in 0..MaxFaults
    OBVIOUS
  <2> HIDE DEF Init
  <2> QED  BY <2>3, <2>4, <2>5, <2>6, <2>7, <2>8 DEF TypeOK
<1>2. PlaceInv
  <2>1. Sound(Idle)
    BY IdleKeeps DEF Keeps
  <2> QED  BY <2>1 DEF PlaceInv
<1>3. OnceInv
  BY FS_EmptySet DEF OnceInv
<1>4. FundingBooks
  <2>1. Total(received, {}) = 0
    BY TotalEmpty
  <2> QED  BY <2>1 DEF FundingBooks, Total
<1>5. FeeInv
  BY DEF FeeInv, Locked, Idle
<1>6. FirstInv
  <2>1. Cardinality(main) = 0
    BY FS_EmptySet
  <2> QED  BY <2>1 DEF FirstInv
<1> QED  BY <1>1, <1>2, <1>3, <1>4, <1>5, <1>6 DEF Inv

(* The invariant holds in every reachable state.                           *)
THEOREM Invariance == Spec => []Inv
<1>1. Inv /\ [Next]_vars => Inv'
  <2> SUFFICES ASSUME Inv, [Next]_vars PROVE Inv'
    OBVIOUS
  <2>1. CASE Next
    BY <2>1, TypesStep, PlaceStep, OnceStep, BooksStep, FeeStep, FirstStep DEF Inv
  <2>2. CASE UNCHANGED vars
    <3> USE <2>2 DEF vars, requests, money, locks, history
    <3>1. TypeOK' /\ OnceInv' /\ FundingBooks' /\ FeeInv' /\ FirstInv'
      <4> USE DEF Inv
      <4>1. TypeOK'  BY DEF TypeOK
      <4>2. OnceInv'  BY DEF OnceInv
      <4>3. FundingBooks'
        <5>1. ~raced => balance = Total(received, main) - IssuanceFee * feesTaken /\ userBalance = balance
          BY DEF FundingBooks, Total
        <5>2. received' = received /\ main' = main /\ raced' = raced /\ balance' = balance
              /\ userBalance' = userBalance /\ feesTaken' = feesTaken
          OBVIOUS
        <5>3. ~raced' => balance' = Total(received', main') - IssuanceFee * feesTaken' /\ userBalance' = balance'
          BY <5>1, <5>2
        <5> QED  BY <5>3 DEF FundingBooks, Total, MapThenSumSet, MapThenFoldSet
      <4>4. FeeInv'  BY DEF FeeInv
      <4>5. FirstInv'  BY DEF FirstInv, PreviousDeposits
      <4> QED  BY <4>1, <4>2, <4>3, <4>4, <4>5
    <3>2. PlaceInv'
      BY DEF Inv, PlaceInv, Sound
    <3> QED  BY <3>1, <3>2 DEF Inv
  <2> QED  BY <2>1, <2>2
<1> QED  BY InitInv, <1>1, PTL DEF Spec

(* Every variable of the funding keeps its type.                           *)
THEOREM TypeCorrect == Spec => []TypeOK
<1>1. Inv => TypeOK
  BY DEF Inv
<1> QED  BY <1>1, Invariance, PTL

(* However often Rain's webhook for one transfer is delivered, the card is *)
(* credited for it once (the unique reference of transactions).            *)
THEOREM CreditCorrect == Spec => []CreditedOnce
<1>1. Inv => CreditedOnce
  BY DEF Inv, OnceInv, CreditedOnce
<1> QED  BY <1>1, Invariance, PTL

(* Both balances are what was matched less the fee, unless a commit rested *)
(* on a stale balance (updateBalancesWithinTransaction).                   *)
THEOREM BooksCorrect == Spec => []FundingBooks
<1>1. Inv => FundingBooks
  BY DEF Inv
<1> QED  BY <1>1, Invariance, PTL

(* Without faults the issuance fee is taken at most once, and after the    *)
(* first funding it was taken or given up                                  *)
(* (checkAndChargeIssuanceFeeOnFirstFunding).                              *)
THEOREM FeeCorrect == Spec => []IssuanceFeeSettled
<1>1. Inv => IssuanceFeeSettled
  BY DEF Inv, FeeInv, FirstInv, IssuanceFeeSettled, OnFee, Charging
<1> QED  BY <1>1, Invariance, PTL
=============================================================================
