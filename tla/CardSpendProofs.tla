--------------------------- MODULE CardSpendProofs ---------------------------
(***************************************************************************)
(* Proofs about CardSpend, for any payments, actors, amounts and           *)
(* disturbances.  None of them rests on the lock of the transaction.  A    *)
(* commit writes one row, and unless it rests on a stale read it moves     *)
(* both balances by what it makes of that row.  The two records of a       *)
(* payment are written by one commit, from an event whose statuses         *)
(* correspond.  A debit other than a fee leaves no less than nothing, and  *)
(* a stale balance is never below what fees had made of it.  Every writer  *)
(* of the card's status decides on a flag that fits it, from the flag it   *)
(* has read.                                                               *)
(***************************************************************************)
EXTENDS CardSpend, SequenceTheorems, FiniteSetTheorems, WellFoundedInduction, TLAPS

(* The places of an event's handler, and of a decision on the status.      *)
Handling == {"findMain", "lock", "readCard", "readUser", "decline", "commit"}
Deciding == {"user", "userWrite", "support", "supportWrite", "eventWrite"}

(* The row of cards.                                                       *)
Card == [status : CardStatus, frozen : BOOLEAN, declines : Nat]

(* What the fees can have made of a balance.                               *)
Floor == -Fee * fees

(* A sound memory.  Of an event under way: the event, and a row that is    *)
(* there, which the updates need ...                                       *)
Knows(m) ==
    m.pc \in Handling =>
        /\ m.ev \in Events
        /\ m.row \in 0..Len(rows[m.ev.tx])
        /\ m.seenRow = NoRow <=> m.row = 0
        /\ m.ev.kind \in {"grown", "reversed"} => m.row # 0

(* ... of the balances: none below what fees had made of it ...            *)
Afloat(m) == m.balance >= Floor /\ m.userBalance >= Floor

(* ... and of a new status: one with a flag that fits it.                  *)
Decided(m) ==
    m.pc \in Deciding =>
        /\ m.want \in CardState
        /\ Together(m.want)
        /\ m.pc = "eventWrite" => m.was \in CardState

(* Everybody's memory of events is sound.                                  *)
MemoryInv == \A a \in Actors : Knows(at[a])

(* The two records come into being together and agree.                     *)
RecordsInv ==
    /\ \A t \in Spends : main[t] = NoRow <=> rows[t] = <<>>
    /\ RowsAgree

(* No balance, and none that somebody remembers, is below the floor.       *)
FloorInv ==
    /\ balance >= Floor
    /\ userBalance >= Floor
    /\ \A a \in Actors : Afloat(at[a])

(* The flag fits the status, also in what somebody will write.             *)
FrozenInv ==
    /\ ~mixed => Together(card)
    /\ \A a \in Actors : Decided(at[a])

(* Finitely many rows stand, and the balances are what they leave.         *)
BooksInv == IsFiniteSet(DOMAIN Stands) /\ Books

(* The inductive invariant.                                                *)
Inv == TypeOK /\ MemoryInv /\ RecordsInv /\ FloorInv /\ FrozenInv /\ BooksInv

-----------------------------------------------------------------------------
(* Sums over finite sets, as in CardFundingProofs: induction is by a least *)
(* counterexample.                                                         *)

(* Every non-empty set of natural numbers has a least member.              *)
LEMMA Least ==
  ASSUME NEW T \in SUBSET Nat, T # {}
  PROVE  \E n \in T : \A m \in T : n <= m
<1>1. PICK n \in T : \A m \in T : ~ (<<m, n>> \in OpToRel(<, Nat))
  BY WFMin, NatLessThanWellFounded
<1>2. \A m \in Nat : m < n => <<m, n>> \in OpToRel(<, Nat)
  BY DEF OpToRel
<1>3. \A m \in T : ~ (m < n)
  BY <1>1, <1>2, Zenon
<1>4. \A m \in T : n <= m
  BY <1>3
<1> QED  BY <1>4

(* The member of a set that a fold takes next.                             *)
Some(s) == CHOOSE x \in s : TRUE

(* g adds up r over every subset of S, one chosen member at a time.        *)
AddsUp(g, r, S) ==
    g = [s \in SUBSET S |-> IF s = {} THEN 0 ELSE r[Some(s)] + g[s \ {Some(s)}]]

(* What r adds up to over S, as Books writes it.                           *)
Total(r, S) == MapThenSumSet(LAMBDA x : r[x], S)

(* A subset without one of its members is smaller by one.                  *)
LEMMA SmallerWithout ==
  ASSUME NEW S, IsFiniteSet(S), NEW s \in SUBSET S, NEW x \in s
  PROVE  /\ IsFiniteSet(s) /\ Cardinality(s) \in Nat \ {0}
         /\ s \ {x} \in SUBSET S
         /\ Cardinality(s \ {x}) = Cardinality(s) - 1
<1>1. IsFiniteSet(s)
  BY FS_Subset
<1>2. /\ Cardinality(s) \in Nat
      /\ Cardinality(s \ {x}) = Cardinality(s) - 1
      /\ Cardinality(s \ {x}) \in Nat
  BY <1>1, FS_RemoveElement, FS_CardinalityType, FS_Subset
<1> QED  BY <1>1, <1>2

(* The recursion that defines the sum has a solution on every finite set:  *)
(* the least size for which it had none would extend the one below it.     *)
LEMMA SumExists ==
  ASSUME NEW S, IsFiniteSet(S), NEW r
  PROVE  \E g : AddsUp(g, r, S)
<1> DEFINE Sub(n) == {s \in SUBSET S : Cardinality(s) <= n}
           Upto(g, n) == g = [s \in Sub(n) |-> IF s = {} THEN 0 ELSE r[Some(s)] + g[s \ {Some(s)}]]
           Missing == {n \in Nat : ~ \E g : Upto(g, n)}
<1>0. \A s \in SUBSET S : s # {} =>
          Some(s) \in s /\ s \ {Some(s)} \in SUBSET S
            /\ Cardinality(s \ {Some(s)}) = Cardinality(s) - 1 /\ Cardinality(s) \in Nat \ {0}
  <2> TAKE s \in SUBSET S
  <2> HAVE s # {}
  <2>1. Some(s) \in s
    BY DEF Some
  <2> QED  BY <2>1, SmallerWithout
<1>. HIDE DEF Sub
<1>01. \A n \in Nat : Sub(n) \subseteq SUBSET S /\ \A s \in Sub(n) : Cardinality(s) <= n
  BY DEF Sub
<1>02. \A s \in SUBSET S : Cardinality(s) \in Nat
  BY FS_Subset, FS_CardinalityType
<1>03. \A n \in Nat, s \in SUBSET S : Cardinality(s) <= n => s \in Sub(n)
  BY DEF Sub
<1>1. \E g : Upto(g, 0)
  <2>1. \A s \in Sub(0) : s = {}
    <3> TAKE s \in Sub(0)
    <3>1. s \in SUBSET S /\ Cardinality(s) <= 0
      BY <1>01
    <3>2. s # {} => Cardinality(s) \in Nat \ {0}
      BY <1>0, <3>1
    <3> QED  BY <3>1, <3>2
  <2>2. Upto([s \in Sub(0) |-> 0], 0)
    BY <2>1
  <2> QED  BY <2>2
<1>2. ASSUME NEW n \in Nat, NEW g, Upto(g, n)
      PROVE  \E h : Upto(h, n + 1)
  <2> DEFINE h == [s \in Sub(n + 1) |-> IF s = {} THEN 0 ELSE r[Some(s)] + g[s \ {Some(s)}]]
  <2>1. \A s \in Sub(n) : s \in Sub(n + 1) /\ h[s] = g[s]
    <3> TAKE s \in Sub(n)
    <3>1. s \in Sub(n + 1)
      BY <1>01, <1>02, <1>03
    <3>2. g[s] = IF s = {} THEN 0 ELSE r[Some(s)] + g[s \ {Some(s)}]
      BY <1>2
    <3> QED  BY <3>1, <3>2
  <2>2. \A s \in Sub(n + 1) : s # {} => s \ {Some(s)} \in Sub(n)
    BY <1>0, <1>01, <1>03
  <2>3. \A s \in Sub(n + 1) : h[s] = IF s = {} THEN 0 ELSE r[Some(s)] + h[s \ {Some(s)}]
    BY <2>1, <2>2
  <2>4. Upto(h, n + 1)
    <3> HIDE DEF h
    <3>1. h = [s \in Sub(n + 1) |-> h[s]]
      BY DEF h
    <3> QED  BY <2>3, <3>1
  <2> QED  BY <2>4
<1> HIDE DEF Upto
<1>3. Missing = {}
  <2> SUFFICES ASSUME Missing # {} PROVE FALSE
    OBVIOUS
  <2>1. PICK n \in Missing : \A m \in Missing : n <= m
    BY Least
  <2>2. n # 0
    BY <1>1
  <2>3. n - 1 \in Nat /\ n - 1 \notin Missing
    BY <2>1, <2>2
  <2>4. PICK g : Upto(g, n - 1)
    BY <2>3
  <2>5. \E h : Upto(h, (n - 1) + 1)
    BY <1>2, <2>3, <2>4
  <2> QED  BY <2>5
<1>4. Cardinality(S) \in Nat /\ Sub(Cardinality(S)) = SUBSET S
  BY FS_Subset, FS_CardinalityType DEF Sub
<1>5. PICK g : Upto(g, Cardinality(S))
  BY <1>3, <1>4
<1>6. AddsUp(g, r, S)
  BY <1>4, <1>5 DEF AddsUp, Upto
<1> QED  BY <1>6

(* Two solutions agree wherever what they add up agrees: on a smallest     *)
(* set where they differ, they would differ on a smaller one already.      *)
LEMMA SumUnique ==
  ASSUME NEW S, IsFiniteSet(S), NEW U \in SUBSET S, NEW r, NEW q,
         \A x \in U : r[x] = q[x],
         NEW g, AddsUp(g, r, S), NEW h, AddsUp(h, q, U)
  PROVE  \A s \in SUBSET U : g[s] = h[s]
<1> DEFINE Differs == {n \in Nat : \E s \in SUBSET U : Cardinality(s) = n /\ g[s] # h[s]}
<1>1. \A s \in SUBSET U : Cardinality(s) \in Nat
  BY FS_Subset, FS_CardinalityType
<1>2. SUFFICES ASSUME Differs # {} PROVE FALSE
  BY <1>1
<1>3. PICK n \in Differs : \A m \in Differs : n <= m
  BY <1>2, Least
<1>4. PICK s \in SUBSET U : Cardinality(s) = n /\ g[s] # h[s]
  BY <1>3
<1>5. /\ g[s] = IF s = {} THEN 0 ELSE r[Some(s)] + g[s \ {Some(s)}]
      /\ h[s] = IF s = {} THEN 0 ELSE q[Some(s)] + h[s \ {Some(s)}]
  BY DEF AddsUp
<1>6. s # {} /\ Some(s) \in s
  BY <1>4, <1>5 DEF Some
<1>7. s \ {Some(s)} \in SUBSET U /\ Cardinality(s \ {Some(s)}) = n - 1
  BY <1>4, <1>6, SmallerWithout
<1>8. g[s \ {Some(s)}] = h[s \ {Some(s)}]
  BY <1>1, <1>3, <1>7
<1> QED  BY <1>4, <1>5, <1>6, <1>8

(* The sum does not depend on the order in which members are taken: any    *)
(* member can be split off.                                                *)
LEMMA SumRemove ==
  ASSUME NEW S, IsFiniteSet(S), NEW r, \A x \in S : r[x] \in Int,
         NEW g, AddsUp(g, r, S)
  PROVE  \A s \in SUBSET S : g[s] \in Int /\ \A c \in s : g[s] = r[c] + g[s \ {c}]
<1> DEFINE Fine(s) == g[s] \in Int /\ \A c \in s : g[s] = r[c] + g[s \ {c}]
           Bad == {n \in Nat : \E s \in SUBSET S : Cardinality(s) = n /\ ~Fine(s)}
<1> SUFFICES \A s \in SUBSET S : Fine(s)
  OBVIOUS
<1>1. \A s \in SUBSET S : Cardinality(s) \in Nat
  BY FS_Subset, FS_CardinalityType
<1>2. \A s \in SUBSET S : g[s] = IF s = {} THEN 0 ELSE r[Some(s)] + g[s \ {Some(s)}]
  BY DEF AddsUp
<1>3. ASSUME NEW n \in Nat, NEW s \in SUBSET S, Cardinality(s) = n,
             \A t \in SUBSET S : Cardinality(t) < n => Fine(t)
      PROVE  Fine(s)
  <2>1. CASE s = {}
    <3>1. g[s] = 0
      BY <1>2, <2>1
    <3> QED  BY <2>1, <3>1
  <2>2. CASE s # {}
    <3> DEFINE x == Some(s)
    <3>1. x \in s
      BY <2>2 DEF Some
    <3>2. g[s] = r[x] + g[s \ {x}]
      BY <1>2, <2>2
    <3> HIDE DEF x
    <3>3. ASSUME NEW c \in s
          PROVE  s \ {c} \in SUBSET S /\ Fine(s \ {c}) /\ r[c] \in Int
      <4> HIDE DEF Fine
      <4>1. s \ {c} \in SUBSET S /\ Cardinality(s \ {c}) < n
        BY <1>3, SmallerWithout
      <4> QED  BY <1>3, <4>1
    <3>4. g[s] \in Int
      BY <3>1, <3>2, <3>3
    <3>5. ASSUME NEW c \in s, c # x
          PROVE  g[s] = r[c] + g[s \ {c}]
      <4> DEFINE t == (s \ {x}) \ {c}
      <4>1. t = (s \ {c}) \ {x} /\ c \in s \ {x} /\ x \in s \ {c}
        BY <3>1, <3>5
      <4>2. g[s \ {x}] = r[c] + g[t]
        BY <3>1, <3>3, <4>1
      <4>3. g[s \ {c}] = r[x] + g[t]
        BY <3>3, <4>1
      <4>4. g[t] \in Int
        <5> HIDE DEF Fine
        <5>1. s \ {x} \in SUBSET S /\ Cardinality(s \ {x}) = n - 1
          BY <1>3, <3>1, SmallerWithout
        <5>2. t \in SUBSET S /\ Cardinality(t) = n - 2
          BY <4>1, <5>1, SmallerWithout
        <5>3. Fine(t)
          BY <1>3, <5>2
        <5> QED  BY <5>3 DEF Fine
      <4> HIDE DEF t
      <4> QED  BY <3>1, <3>2, <3>3, <4>2, <4>3, <4>4
    <3> QED  BY <3>2, <3>4, <3>5
  <2> QED  BY <2>1, <2>2
<1> HIDE DEF Fine
<1>4. Bad = {}
  <2> SUFFICES ASSUME Bad # {} PROVE FALSE
    OBVIOUS
  <2>1. PICK n \in Bad : \A m \in Bad : n <= m
    BY Least
  <2>2. PICK s \in SUBSET S : Cardinality(s) = n /\ ~Fine(s)
    BY <2>1
  <2>3. \A t \in SUBSET S : Cardinality(t) < n => Fine(t)
    BY <1>1, <2>1
  <2> QED  BY <1>3, <2>2, <2>3
<1> QED  BY <1>1, <1>4

(* The library's fold is such a solution.                                  *)
LEMMA TotalAdds ==
  ASSUME NEW S, IsFiniteSet(S), NEW r
  PROVE  \E g : AddsUp(g, r, S) /\ Total(r, S) = g[S]
<1>1. Total(r, S) = (CHOOSE g : AddsUp(g, r, S))[S]
  BY DEF Total, MapThenSumSet, MapThenFoldSet, AddsUp, Some
<1> QED  BY <1>1, SumExists

(* Adding one member adds its value.                                       *)
LEMMA TotalAdd ==
  ASSUME NEW S, IsFiniteSet(S), NEW r, NEW c, c \notin S,
         \A x \in S \cup {c} : r[x] \in Int
  PROVE  /\ Total(r, S) \in Int
         /\ Total(r, S \cup {c}) = Total(r, S) + r[c]
<1> DEFINE W == S \cup {c}
<1>0. IsFiniteSet(W) /\ S \in SUBSET W /\ W \ {c} = S
  BY FS_AddElement
<1>1. PICK g : AddsUp(g, r, W) /\ Total(r, W) = g[W]
  BY <1>0, TotalAdds
<1>2. PICK h : AddsUp(h, r, S) /\ Total(r, S) = h[S]
  BY TotalAdds
<1> HIDE DEF W
<1>3. g[S] = h[S]
  BY <1>0, <1>1, <1>2, SumUnique
<1>4. g[W] = r[c] + g[S] /\ g[S] \in Int
  <2>1. c \in W /\ W \in SUBSET W /\ \A x \in W : r[x] \in Int
    BY DEF W
  <2>2. \A s \in SUBSET W : g[s] \in Int /\ \A d \in s : g[s] = r[d] + g[s \ {d}]
    BY <1>0, <1>1, <2>1, SumRemove
  <2> QED  BY <1>0, <2>1, <2>2
<1> QED  BY <1>1, <1>2, <1>3, <1>4 DEF W

(* Only the values of the members count.                                   *)
LEMMA TotalSame ==
  ASSUME NEW S, IsFiniteSet(S), NEW r, NEW q, \A x \in S : r[x] = q[x]
  PROVE  Total(r, S) = Total(q, S)
<1>1. PICK g : AddsUp(g, r, S) /\ Total(r, S) = g[S]
  BY TotalAdds
<1>2. PICK h : AddsUp(h, q, S) /\ Total(q, S) = h[S]
  BY TotalAdds
<1>3. S \in SUBSET S
  OBVIOUS
<1>4. \A s \in SUBSET S : g[s] = h[s]
  BY <1>1, <1>2, <1>3, SumUnique
<1> QED  BY <1>1, <1>2, <1>3, <1>4

(* A sum of integers is an integer.                                        *)
LEMMA TotalInt ==
  ASSUME NEW S, IsFiniteSet(S), NEW r, \A x \in S : r[x] \in Int
  PROVE  Total(r, S) \in Int
<1>1. PICK g : AddsUp(g, r, S) /\ Total(r, S) = g[S]
  BY TotalAdds
<1>2. S \in SUBSET S
  OBVIOUS
<1> QED  BY <1>1, <1>2, SumRemove

(* Nothing adds up to zero.                                                *)
LEMMA TotalEmpty == ASSUME NEW r PROVE Total(r, {}) = 0
<1>1. PICK g : AddsUp(g, r, {}) /\ Total(r, {}) = g[{}]
  BY TotalAdds, FS_EmptySet
<1> QED  BY <1>1 DEF AddsUp

-----------------------------------------------------------------------------
(* The books.                                                              *)

(* Stands as a function of the rows, to speak of it before and after.      *)
StandsOf(rs) ==
    [p \in {q \in UNION {{t} \X DOMAIN rs[t] : t \in Spends} :
                 rs[q[1]][q[2]].status # "DECLINED"} |-> rs[p[1]][p[2]].amount]

(* What row i of payment t contributes.                                    *)
Worth(rs, t, i) ==
    IF i \in 1..Len(rs[t]) /\ rs[t][i].status # "DECLINED" THEN rs[t][i].amount ELSE 0

(* The money tied up in the rows.                                          *)
Spent(rs) == Total(StandsOf(rs), DOMAIN StandsOf(rs))

(* Which rows stand, and for how much.                                     *)
LEMMA StandsFacts ==
  ASSUME NEW rs \in [Spends -> Seq(Row)]
  PROVE  LET D == DOMAIN StandsOf(rs) IN
         /\ D \subseteq Spends \X Nat
         /\ \A t \in Spends, i \in Nat :
               <<t, i>> \in D <=> i \in 1..Len(rs[t]) /\ rs[t][i].status # "DECLINED"
         /\ \A t \in Spends, i \in Nat : <<t, i>> \in D => StandsOf(rs)[<<t, i>>] = Worth(rs, t, i)
         /\ \A t \in Spends, i \in Nat : Worth(rs, t, i) \in Nat
         /\ \A p \in D : StandsOf(rs)[p] \in Int
<1> DEFINE D == DOMAIN StandsOf(rs)
           U == UNION {{t} \X DOMAIN rs[t] : t \in Spends}
<1>1. \A t \in Spends : DOMAIN rs[t] = 1..Len(rs[t]) /\ Len(rs[t]) \in Nat
                        /\ \A i \in 1..Len(rs[t]) : rs[t][i] \in Row
  BY LenProperties, ElementOfSeq
<1>2. U \subseteq Spends \X Nat
  BY <1>1
<1>3. \A t \in Spends, i \in Nat : <<t, i>> \in U <=> i \in 1..Len(rs[t])
  BY <1>1
<1>4. D = {q \in U : rs[q[1]][q[2]].status # "DECLINED"}
  BY DEF StandsOf
<1>5. \A p \in D : StandsOf(rs)[p] = rs[p[1]][p[2]].amount
  BY DEF StandsOf
<1> HIDE DEF D, U
<1>6. D \subseteq Spends \X Nat
  BY <1>2, <1>4
<1>7. \A t \in Spends, i \in Nat :
         <<t, i>> \in D <=> i \in 1..Len(rs[t]) /\ rs[t][i].status # "DECLINED"
  BY <1>3, <1>4
<1>8. \A t \in Spends, i \in Nat : <<t, i>> \in D => StandsOf(rs)[<<t, i>>] = Worth(rs, t, i)
  BY <1>5, <1>7 DEF Worth
<1>9. \A t \in Spends, i \in Nat : Worth(rs, t, i) \in Nat
  BY <1>1 DEF Worth, Row
<1>10. \A p \in D : StandsOf(rs)[p] \in Int
  <2> TAKE p \in D
  <2>1. PICK t \in Spends, i \in Nat : p = <<t, i>>
    BY <1>6
  <2>2. StandsOf(rs)[<<t, i>>] \in Nat
    BY <1>8, <1>9, <2>1
  <2> QED  BY <2>1, <2>2
<1> QED  BY <1>6, <1>7, <1>8, <1>9, <1>10 DEF D

(* With one row aside, what is left of the sum.                            *)
LEMMA SpentAside ==
  ASSUME NEW rs \in [Spends -> Seq(Row)], NEW t \in Spends, NEW i \in Nat,
         IsFiniteSet(DOMAIN StandsOf(rs) \ {<<t, i>>})
  PROVE  LET D == DOMAIN StandsOf(rs) \ {<<t, i>>} IN
         /\ IsFiniteSet(DOMAIN StandsOf(rs))
         /\ Total(StandsOf(rs), D) \in Int
         /\ Spent(rs) = Total(StandsOf(rs), D) + Worth(rs, t, i)
<1> DEFINE f == StandsOf(rs)
           p == <<t, i>>
           D == DOMAIN f \ {p}
<1>1. \A x \in DOMAIN f : f[x] \in Int
  BY StandsFacts
<1>2. p \in DOMAIN f => f[p] = Worth(rs, t, i)
  BY StandsFacts
<1>3. p \notin DOMAIN f => Worth(rs, t, i) = 0
  BY StandsFacts DEF Worth
<1>4. IsFiniteSet(D)
  OBVIOUS
<1>5. Spent(rs) = Total(f, DOMAIN f)
  BY DEF Spent
<1>6. Worth(rs, t, i) \in Int
  BY StandsFacts
<1> HIDE DEF f, p
<1>7. Total(f, D) \in Int
  BY <1>1, <1>4, TotalInt
<1>8. CASE p \in DOMAIN f
  <2>1. DOMAIN f = D \cup {p} /\ p \notin D
    BY <1>8
  <2> HIDE DEF D
  <2>2. IsFiniteSet(D \cup {p})
    BY <1>4, FS_AddElement
  <2>3. \A x \in D \cup {p} : f[x] \in Int
    BY <1>1, <2>1
  <2>4. Total(f, D \cup {p}) = Total(f, D) + f[p]
    BY <1>4, <2>1, <2>3, TotalAdd
  <2>5. Spent(rs) = Total(f, D) + Worth(rs, t, i)
    BY <1>2, <1>5, <1>8, <2>1, <2>4
  <2> QED  BY <1>7, <2>1, <2>2, <2>5 DEF f, D, p
<1>9. CASE p \notin DOMAIN f
  <2>1. D = DOMAIN f
    BY <1>9
  <2> HIDE DEF D
  <2>2. Spent(rs) = Total(f, D) + Worth(rs, t, i)
    BY <1>3, <1>5, <1>7, <1>9, <2>1
  <2> QED  BY <1>4, <1>7, <2>1, <2>2 DEF f, D, p
<1> QED  BY <1>8, <1>9

(* A commit that touches one row moves the sum by what it makes of it.     *)
LEMMA SpentMoves ==
  ASSUME NEW rs \in [Spends -> Seq(Row)], NEW qs \in [Spends -> Seq(Row)],
         NEW t \in Spends, NEW i \in Nat, IsFiniteSet(DOMAIN StandsOf(rs)),
         \A u \in Spends, j \in Nat : <<u, j>> # <<t, i>> =>
             /\ j \in 1..Len(rs[u]) <=> j \in 1..Len(qs[u])
             /\ j \in 1..Len(rs[u]) => rs[u][j] = qs[u][j]
  PROVE  /\ IsFiniteSet(DOMAIN StandsOf(qs))
         /\ Spent(rs) \in Int /\ Worth(rs, t, i) \in Nat /\ Worth(qs, t, i) \in Nat
         /\ Spent(qs) = Spent(rs) - Worth(rs, t, i) + Worth(qs, t, i)
<1> DEFINE f == StandsOf(rs)
           g == StandsOf(qs)
           p == <<t, i>>
           D == DOMAIN f \ {p}
<1>1. D = DOMAIN g \ {p}
  <2>1. DOMAIN f \subseteq Spends \X Nat /\ DOMAIN g \subseteq Spends \X Nat
    BY StandsFacts
  <2>2. \A u \in Spends, j \in Nat :
           <<u, j>> # p => (<<u, j>> \in DOMAIN f <=> <<u, j>> \in DOMAIN g)
    <3>1. \A u \in Spends, j \in Nat :
            <<u, j>> \in DOMAIN f <=> j \in 1..Len(rs[u]) /\ rs[u][j].status # "DECLINED"
      BY StandsFacts
    <3>2. \A u \in Spends, j \in Nat :
            <<u, j>> \in DOMAIN g <=> j \in 1..Len(qs[u]) /\ qs[u][j].status # "DECLINED"
      BY StandsFacts
    <3> HIDE DEF f, g
    <3>3. ASSUME NEW u \in Spends, NEW j \in Nat, <<u, j>> # p
          PROVE  <<u, j>> \in DOMAIN f <=> <<u, j>> \in DOMAIN g
      <4>1. /\ j \in 1..Len(rs[u]) <=> j \in 1..Len(qs[u])
            /\ j \in 1..Len(rs[u]) => rs[u][j] = qs[u][j]
        BY <3>3
      <4> QED  BY <3>1, <3>2, <4>1
    <3> QED  BY <3>3
  <2> DEFINE F == DOMAIN f
             G == DOMAIN g
  <2> HIDE DEF f, g, p
  <2>3. ASSUME NEW x \in Spends \X Nat, x # p PROVE x \in F <=> x \in G
    <3>1. PICK u \in Spends, j \in Nat : x = <<u, j>>
      OBVIOUS
    <3> QED  BY <2>2, <2>3, <3>1
  <2>4. F \subseteq Spends \X Nat /\ G \subseteq Spends \X Nat
    BY <2>1
  <2> HIDE DEF F, G
  <2>5. F \ {p} = G \ {p}
    BY <2>3, <2>4
  <2> QED  BY <2>5 DEF F, G
<1>2. \A x \in D : f[x] = g[x]
  <2> TAKE x \in D
  <2>1. PICK u \in Spends, j \in Nat : x = <<u, j>>
    BY StandsFacts
  <2>2. x \in DOMAIN f /\ x \in DOMAIN g /\ x # p
    BY <1>1
  <2>3. f[x] = Worth(rs, u, j) /\ g[x] = Worth(qs, u, j)
    BY <2>1, <2>2, StandsFacts
  <2>4. Worth(rs, u, j) = Worth(qs, u, j)
    BY <2>1, <2>2 DEF Worth
  <2> QED  BY <2>3, <2>4
<1>3. IsFiniteSet(D)
  BY FS_Subset
<1>4. Total(f, D) \in Int /\ Spent(rs) = Total(f, D) + Worth(rs, t, i)
  BY <1>3, SpentAside
<1>5. /\ IsFiniteSet(DOMAIN g)
      /\ Spent(qs) = Total(g, D) + Worth(qs, t, i)
  BY <1>1, <1>3, SpentAside
<1>6. Worth(rs, t, i) \in Nat /\ Worth(qs, t, i) \in Nat
  BY StandsFacts
<1> HIDE DEF f, g, D
<1>7. Total(f, D) = Total(g, D)
  BY <1>2, <1>3, TotalSame
<1> QED  BY <1>4, <1>5, <1>6, <1>7 DEF g

(* The balances are the funds less the fees and what the rows tie up.      *)
Booked == balance = Start - Fee * fees - Spent(rows) /\ userBalance = balance

(* What Books says, in these terms.                                        *)
LEMMA BooksBooked ==
  /\ IsFiniteSet(DOMAIN Stands) <=> IsFiniteSet(DOMAIN StandsOf(rows))
  /\ Books <=> (~upset => Booked)
BY DEF Books, Booked, Stands, StandsOf, Spent, Total

(* Only row i of payment t changes, from what it was worth to what r is.   *)
OneRow(t, i, r) ==
    /\ \A u \in Spends, j \in Nat : <<u, j>> # <<t, i>> =>
          /\ j \in 1..Len(rows[u]) <=> j \in 1..Len(rows'[u])
          /\ j \in 1..Len(rows[u]) => rows[u][j] = rows'[u][j]
    /\ Worth(rows', t, i) = IF r.status # "DECLINED" THEN r.amount ELSE 0

(* A rewritten row ...                                                     *)
LEMMA RewrittenAlone ==
  ASSUME TypeOK, NEW t \in Spends, NEW i \in 1..Len(rows[t]), NEW r \in Row,
         rows' = [rows EXCEPT ![t] = [@ EXCEPT ![i] = r]]
  PROVE  /\ i \in Nat /\ rows' \in [Spends -> Seq(Row)] /\ OneRow(t, i, r)
         /\ Worth(rows, t, i) = IF rows[t][i].status # "DECLINED" THEN rows[t][i].amount ELSE 0
<1> DEFINE s == rows[t]
           z == [s EXCEPT ![i] = r]
<1>1. s \in Seq(Row) /\ rows \in [Spends -> Seq(Row)]
  BY DEF TypeOK
<1>2. rows'[t] = z /\ \A u \in Spends : u # t => rows'[u] = rows[u]
  BY <1>1
<1> HIDE DEF s
<1>3. z \in Seq(Row) /\ Len(z) = Len(s) /\ Len(s) \in Nat
      /\ \A j \in 1..Len(s) : z[j] = IF j = i THEN r ELSE s[j]
  BY <1>1, ExceptSeq, LenProperties DEF s
<1> HIDE DEF z
<1>4. i \in Nat /\ i \in 1..Len(s)
  BY <1>3 DEF s
<1>5. ASSUME NEW u \in Spends, NEW j \in Nat, <<u, j>> # <<t, i>>
      PROVE  /\ j \in 1..Len(rows[u]) <=> j \in 1..Len(rows'[u])
             /\ j \in 1..Len(rows[u]) => rows[u][j] = rows'[u][j]
  BY <1>2, <1>3, <1>5 DEF s
<1>6. Worth(rows', t, i) = IF r.status # "DECLINED" THEN r.amount ELSE 0
  BY <1>2, <1>3, <1>4 DEF Worth
<1>7. Worth(rows, t, i) = IF rows[t][i].status # "DECLINED" THEN rows[t][i].amount ELSE 0
  BY DEF Worth
<1> QED  BY <1>1, <1>2, <1>3, <1>4, <1>5, <1>6, <1>7 DEF OneRow

(* ... and an added one leave the others alone.                            *)
LEMMA AddedAlone ==
  ASSUME TypeOK, NEW t \in Spends, NEW r \in Row, Adds(t, r)
  PROVE  LET i == Len(rows[t]) + 1 IN
         /\ i \in Nat /\ rows' \in [Spends -> Seq(Row)] /\ OneRow(t, i, r)
         /\ Worth(rows, t, i) = 0
<1> DEFINE s == rows[t]
           z == Append(s, r)
           i == Len(s) + 1
<1>1. s \in Seq(Row) /\ rows \in [Spends -> Seq(Row)]
  BY DEF TypeOK
<1>2. rows'[t] = z /\ (\A u \in Spends : u # t => rows'[u] = rows[u])
      /\ rows' = [rows EXCEPT ![t] = z]
  BY <1>1 DEF Adds
<1> HIDE DEF s
<1>3. z \in Seq(Row) /\ Len(z) = Len(s) + 1 /\ Len(s) \in Nat /\ z[Len(s) + 1] = r
      /\ \A j \in 1..Len(s) : z[j] = s[j]
  BY <1>1, AppendProperties, LenProperties
<1> HIDE DEF z
<1>4. i \in Nat /\ i \notin 1..Len(s) /\ i \in 1..Len(z)
  BY <1>3
<1>5. ASSUME NEW u \in Spends, NEW j \in Nat, <<u, j>> # <<t, i>>
      PROVE  /\ j \in 1..Len(rows[u]) <=> j \in 1..Len(rows'[u])
             /\ j \in 1..Len(rows[u]) => rows[u][j] = rows'[u][j]
  <2>1. CASE u = t
    <3>1. j # i /\ rows[u] = s /\ rows'[u] = z
      BY <1>2, <1>5, <2>1 DEF s
    <3> QED  BY <1>3, <3>1
  <2>2. CASE u # t
    BY <1>2, <2>2
  <2> QED  BY <2>1, <2>2
<1>6. Worth(rows', t, i) = IF r.status # "DECLINED" THEN r.amount ELSE 0
  BY <1>2, <1>3, <1>4 DEF Worth
<1>7. Worth(rows, t, i) = 0
  BY <1>4 DEF Worth, s
<1>8. rows' \in [Spends -> Seq(Row)]
  BY <1>1, <1>2, <1>3
<1> QED  BY <1>4, <1>5, <1>6, <1>7, <1>8 DEF OneRow, s

(* A commit moves the sum by what it makes of one row.                     *)
LEMMA SpentMovesBy ==
  ASSUME TypeOK, IsFiniteSet(DOMAIN StandsOf(rows)), rows' \in [Spends -> Seq(Row)],
         NEW t \in Spends, NEW i \in Nat, NEW r \in Row, OneRow(t, i, r)
  PROVE  /\ IsFiniteSet(DOMAIN StandsOf(rows'))
         /\ Spent(rows) \in Int
         /\ Spent(rows') = Spent(rows) - Worth(rows, t, i)
                             + IF r.status # "DECLINED" THEN r.amount ELSE 0
<1> DEFINE rs == rows
           qs == rows'
<1>1. rs \in [Spends -> Seq(Row)] /\ qs \in [Spends -> Seq(Row)]
  BY DEF TypeOK
<1>2. \A u \in Spends, j \in Nat : <<u, j>> # <<t, i>> =>
             /\ j \in 1..Len(rs[u]) <=> j \in 1..Len(qs[u])
             /\ j \in 1..Len(rs[u]) => rs[u][j] = qs[u][j]
  BY DEF OneRow
<1>3. /\ IsFiniteSet(DOMAIN StandsOf(qs))
      /\ Spent(rs) \in Int /\ Worth(rs, t, i) \in Nat /\ Worth(qs, t, i) \in Nat
      /\ Spent(qs) = Spent(rs) - Worth(rs, t, i) + Worth(qs, t, i)
  BY <1>1, <1>2, SpentMoves
<1> QED  BY <1>3 DEF OneRow

(* The arithmetic of a commit: the balances move against the sum and fees. *)
LEMMA BooksMove ==
  ASSUME TypeOK, NEW a \in Actors, NEW n \in Int, NEW d \in 0..1,
         Booked, ~StaleBalance(a), Moves(a, -n - Fee * d), fees' = fees + d,
         Spent(rows) \in Int, Spent(rows') = Spent(rows) + n
  PROVE  balance' = Start - Fee * fees' - Spent(rows') /\ userBalance' = balance'
<1>1. /\ fees \in Nat /\ Fee \in Int /\ Start \in Int
      /\ balance \in Int /\ userBalance \in Int
  BY CardSpendAssumption DEF TypeOK
<1>2. balance' = balance + (-n - Fee * d) /\ userBalance' = userBalance + (-n - Fee * d)
  BY DEF Moves, StaleBalance
<1>3. Fee * (fees + d) = Fee * fees + Fee * d
  BY <1>1
<1>4. Fee * fees \in Int /\ Fee * d \in Int
  BY <1>1
<1>5. balance = Start - Fee * fees - Spent(rows) /\ userBalance = balance
  BY DEF Booked
<1>6. Fee * fees' = Fee * fees + Fee * d
  BY <1>3
<1> QED  BY <1>1, <1>2, <1>4, <1>5, <1>6

-----------------------------------------------------------------------------
(* The handlers.                                                           *)

USE DEF books, records, rain

(* Nothing has happened, so every part holds.                              *)
LEMMA InitInv == ASSUME Init PROVE Inv
<1> USE CardSpendAssumption DEF Init
<1>1. Idle \in Memory
  BY DEF Idle, Memory, Points, NoRow, Main
<1>2. card \in [status : CardStatus, frozen : BOOLEAN, declines : Nat]
  BY DEF CardStatus
<1>3. upset \in BOOLEAN /\ mixed \in BOOLEAN
  OBVIOUS
<1>4. TypeOK
  BY <1>1, <1>2, <1>3 DEF TypeOK, Main
<1>5. MemoryInv /\ FrozenInv
  BY DEF MemoryInv, Knows, FrozenInv, Together, Decided, Idle, Handling, Deciding
<1>6. RecordsInv
  BY DEF RecordsInv, RowsAgree
<1>7. FloorInv
  BY DEF FloorInv, Afloat, Floor, Idle
<1>8. BooksInv
  <2>1. DOMAIN StandsOf(rows) = {}
    BY DEF StandsOf
  <2>2. StandsOf(rows) = [p \in {} |-> StandsOf(rows)[p]] /\ Spent(rows) = 0
    BY <2>1, TotalEmpty DEF Spent, StandsOf
  <2>3. Booked
    BY <2>2 DEF Booked
  <2> QED  BY <2>1, <2>3, FS_EmptySet, BooksBooked DEF BooksInv
<1> QED
  BY <1>4, <1>5, <1>6, <1>7, <1>8 DEF Inv

(* Records of one payment that tell the same story.                        *)
Agree(r, m) ==
    <<r.status, m.status>> \in
        {<<"PENDING", "PENDING">>, <<"SUCCESSFUL", "COMPLETED">>, <<"DECLINED", "FAILED">>}

(* What a commit does to the records of payment t.                         *)
Recorded(t) ==
    /\ rows' \in [Spends -> Seq(Row)] /\ main' \in [Spends -> Main]
    /\ \A u \in Spends \ {t} : rows'[u] = rows[u] /\ main'[u] = main[u]
    /\ main'[t] # NoRow /\ Len(rows'[t]) > 0 /\ Len(rows'[t]) >= Len(rows[t])
    /\ Len(rows'[t]) = 1 => Agree(rows'[t][1], main'[t])

(* A row is rewritten ...                                                  *)
LEMMA RowRewritten ==
  ASSUME TypeOK, NEW t \in Spends, NEW i \in 1..Len(rows[t]), NEW r \in Row,
         NEW m \in [status : MainStatus, amount : Nat], Agree(r, m),
         rows' = [rows EXCEPT ![t] = [@ EXCEPT ![i] = r]],
         main' = [main EXCEPT ![t] = m]
  PROVE  Recorded(t)
<1> DEFINE s == rows[t]
<1>1. s \in Seq(Row)
  BY DEF TypeOK
<1> HIDE DEF s
<1>2. /\ [s EXCEPT ![i] = r] \in Seq(Row)
      /\ Len([s EXCEPT ![i] = r]) = Len(s)
      /\ [s EXCEPT ![i] = r][i] = r
      /\ Len(s) \in Nat
  BY <1>1, ExceptSeq, LenProperties DEF s
<1>3. rows'[t] = [s EXCEPT ![i] = r] /\ main'[t] = m /\ m # NoRow
  BY DEF TypeOK, s, NoRow, MainStatus
<1>4. rows' \in [Spends -> Seq(Row)] /\ \A u \in Spends \ {t} : rows'[u] = rows[u]
  BY <1>2, <1>3 DEF TypeOK
<1>5. main' \in [Spends -> Main] /\ \A u \in Spends \ {t} : main'[u] = main[u]
  BY DEF TypeOK, Main
<1>6. Len(rows'[t]) > 0 /\ Len(rows'[t]) >= Len(rows[t])
  BY <1>2, <1>3 DEF s
<1>7. Len(rows'[t]) = 1 => Agree(rows'[t][1], main'[t])
  BY <1>2, <1>3 DEF s
<1> QED
  BY <1>3, <1>4, <1>5, <1>6, <1>7 DEF Recorded

(* ... or added, the first of its payment or one more.                     *)
LEMMA RowAdded ==
  ASSUME TypeOK, NEW t \in Spends, NEW r \in Row,
         NEW m \in [status : MainStatus, amount : Nat], Agree(r, m),
         Adds(t, r), main' = [main EXCEPT ![t] = m]
  PROVE  Recorded(t)
<1> DEFINE s == rows[t]
<1>1. s \in Seq(Row)
  BY DEF TypeOK
<1> HIDE DEF s
<1>2. /\ Append(s, r) \in Seq(Row)
      /\ Len(Append(s, r)) = Len(s) + 1
      /\ Append(s, r)[Len(s) + 1] = r
      /\ Len(s) \in Nat
  BY <1>1, AppendProperties, LenProperties
<1>3. rows'[t] = Append(s, r) /\ main'[t] = m /\ m # NoRow
  BY DEF TypeOK, s, NoRow, MainStatus, Adds
<1> QED
  BY <1>2, <1>3 DEF TypeOK, s, Recorded, Main, Adds

(* Which of the four handlers commits, with what in memory.                *)
LEMMA CommitCases ==
  ASSUME TypeOK, MemoryInv, NEW a \in Actors, Commit(a)
  PROVE  LET e == at[a].ev IN
         /\ e \in Events /\ e.tx \in Spends /\ e.kind \in Kinds /\ e.amount \in Nat
         /\ \/ e.kind \in {"authorized", "declined"} /\ Created(a)
            \/ e.kind \in {"grown", "reversed"} /\ at[a].row \in 1..Len(rows[e.tx]) /\ Updated(a)
            \/ /\ e.kind = "completed" /\ at[a].row \in 1..Len(rows[e.tx]) /\ StatusOnly(a)
               /\ at[a].seenRow.status = "PENDING"
            \/ e.kind = "completed" /\ Completed(a)
<1> USE CardSpendAssumption
<1> DEFINE e == at[a].ev
<1>1. /\ e \in Events
      /\ at[a].row \in 0..Len(rows[e.tx])
      /\ at[a].seenRow = NoRow <=> at[a].row = 0
      /\ e.kind \in {"grown", "reversed"} => at[a].row # 0
  BY DEF Commit, MemoryInv, Knows, Handling
<1>2. e.tx \in Spends /\ e.kind \in Kinds /\ e.amount \in Nat
  BY <1>1 DEF Events
<1>3. Len(rows[e.tx]) \in Nat
  BY <1>2, LenProperties DEF TypeOK
<1>4. JustStatus(e, at[a].seenRow, at[a].seenMain) =>
        e.kind = "completed" /\ at[a].row # 0 /\ at[a].seenRow.status = "PENDING"
  BY <1>1 DEF JustStatus, NoRow
<1>5. Writes(a)
  BY DEF Commit
<1> QED
  BY <1>1, <1>2, <1>3, <1>4, <1>5 DEF Writes, Kinds

(* Each handler writes both records, from one event.                       *)
LEMMA CommitRecords ==
  ASSUME TypeOK, MemoryInv, NEW a \in Actors, Commit(a)
  PROVE  at[a].ev.tx \in Spends /\ Recorded(at[a].ev.tx)
<1> DEFINE e == at[a].ev
<1> DEFINE t == e.tx
<1> DEFINE i == at[a].row
<1>1. e \in Events /\ t \in Spends /\ e.kind \in Kinds /\ e.amount \in Nat
  BY CommitCases
<1>2. CASE e.kind \in {"authorized", "declined"} /\ Created(a)
  <2> DEFINE r == [status |-> MappedStatus(e), amount |-> e.amount]
  <2>1. r \in Row /\ MainOf(e) \in [status : MainStatus, amount : Nat] /\ Agree(r, MainOf(e))
    BY <1>1, <1>2
       DEF MappedStatus, MainOf, IsFailed, IsPending, Row, RowStatus, MainStatus, Agree
  <2>2. Adds(t, r) /\ main' = [main EXCEPT ![t] = MainOf(e)]
    BY <1>2 DEF Created
  <2> HIDE DEF r, t
  <2> QED
    BY <1>1, <2>1, <2>2, RowAdded DEF t
<1>3. CASE e.kind \in {"grown", "reversed"} /\ i \in 1..Len(rows[t]) /\ Updated(a)
  <2> DEFINE r == [status |-> IF IsFailed(e) THEN "DECLINED" ELSE "SUCCESSFUL",
                   amount |-> e.amount]
             m == [status |-> IF IsFailed(e) THEN "FAILED" ELSE "COMPLETED",
                   amount |-> IF IsFailed(e) THEN 0 ELSE e.amount]
  <2>1. r \in Row /\ m \in [status : MainStatus, amount : Nat] /\ Agree(r, m)
    BY <1>1 DEF Row, RowStatus, MainStatus, Agree
  <2>2. rows' = [rows EXCEPT ![t] = [@ EXCEPT ![i] = r]] /\ main' = [main EXCEPT ![t] = m]
    BY <1>3 DEF Updated
  <2> HIDE DEF r, m, t, i
  <2> QED
    BY <1>1, <1>3, <2>1, <2>2, RowRewritten DEF t
<1>4. CASE i \in 1..Len(rows[t]) /\ StatusOnly(a)
  <2> DEFINE r == [rows[t][i] EXCEPT !.status = "SUCCESSFUL"]
             m == [main[t] EXCEPT !.status = "COMPLETED"]
  <2>1. rows[t][i] \in Row /\ main[t] \in Main
    BY <1>1, <1>4, ElementOfSeq DEF TypeOK
  <2>2. r \in Row /\ m \in [status : MainStatus, amount : Nat] /\ Agree(r, m)
    BY <2>1 DEF Row, RowStatus, Main, NoRow, MainStatus, Agree
  <2>3. rows' = [rows EXCEPT ![t] = [@ EXCEPT ![i] = r]] /\ main' = [main EXCEPT ![t] = m]
    BY <1>1, <1>4 DEF StatusOnly, TypeOK
  <2> HIDE DEF r, m, t, i
  <2> QED
    BY <1>1, <1>4, <2>2, <2>3, RowRewritten DEF t
<1>5. CASE e.kind = "completed" /\ Completed(a)
  <2> DEFINE r == [status |-> "SUCCESSFUL", amount |-> e.amount]
  <2>1. r \in Row /\ MainOf(e) \in [status : MainStatus, amount : Nat] /\ Agree(r, MainOf(e))
    BY <1>1, <1>5 DEF MainOf, IsFailed, IsPending, Row, RowStatus, MainStatus, Agree
  <2>2. Adds(t, r) /\ main' = [main EXCEPT ![t] = MainOf(e)]
    BY <1>5 DEF Completed
  <2> HIDE DEF r, t
  <2> QED
    BY <1>1, <2>1, <2>2, RowAdded DEF t
<1> QED
  BY <1>1, <1>2, <1>3, <1>4, <1>5, CommitCases

(* Fees only lower the floor, each by its amount.                          *)
LEMMA FloorFacts ==
  ASSUME fees \in Nat
  PROVE  /\ Floor \in Int /\ Floor <= 0
         /\ fees' = fees + 1 => Floor' = Floor - Fee
         /\ fees' = fees => Floor' = Floor
<1> DEFINE f == fees
<1>1. Fee * f \in Nat /\ -Fee * f = -(Fee * f)
  BY CardSpendAssumption
<1>2. -Fee * (f + 1) = -Fee * f - Fee
  BY CardSpendAssumption
<1> QED
  BY <1>1, <1>2, CardSpendAssumption DEF Floor

(* What a commit does to the money and to the card.                        *)
LEMMA CommitBooks ==
  ASSUME TypeOK, MemoryInv, FloorInv, NEW a \in Actors, Commit(a)
  PROVE  /\ balance' \in Int /\ userBalance' \in Int /\ fees' \in Nat
         /\ card' \in Card
         /\ Floor' <= Floor /\ balance' >= Floor' /\ userBalance' >= Floor'
         /\ Together(card) => Together(card')
<1> DEFINE e == at[a].ev
           n == at[a].count + 1
           kept == balance' >= Floor' /\ userBalance' >= Floor' /\ Floor' <= Floor
           typed == balance' \in Int /\ userBalance' \in Int /\ fees' \in Nat
           together == card' \in Card /\ (Together(card) => Together(card'))
<1>1. e.kind \in Kinds /\ e.amount \in Nat
  BY CommitCases
<1>2. /\ at[a] \in Memory /\ fees \in Nat /\ card \in Card
  BY DEF TypeOK, Card
<1>3. /\ at[a].balance \in Int /\ at[a].userBalance \in Int
      /\ at[a].seenRow \in Row \cup {NoRow} /\ n \in Nat
  BY <1>2 DEF Memory
<1>4. at[a].balance >= Floor /\ at[a].userBalance >= Floor
  BY DEF FloorInv, Afloat
<1>5. Floor \in Int /\ Floor <= 0 /\ (fees' = fees => Floor' = Floor)
      /\ (fees' = fees + 1 => Floor' = Floor - Fee)
  BY <1>2, FloorFacts
<1>6. ASSUME Covers(a, e.amount), Moves(a, -e.amount), fees' = fees PROVE kept /\ typed
  BY <1>1, <1>2, <1>3, <1>5, <1>6 DEF Covers, Moves
<1>7. ASSUME UNCHANGED card PROVE together
  BY <1>2, <1>7 DEF Together
<1>8. CASE e.kind = "authorized" /\ Created(a)
  <2>1. Covers(a, e.amount) /\ Moves(a, -e.amount) /\ fees' = fees
        /\ card' = [card EXCEPT !.declines = 0]
    BY <1>8 DEF Created
  <2>2. together
    BY <1>2, <2>1 DEF Card, Together
  <2> QED
    BY <1>6, <2>1, <2>2
<1>9. CASE e.kind = "declined" /\ Created(a) /\ rowOwner = a
  <2>1. fees' = fees + 1 /\ Moves(a, -Fee)
    BY <1>9 DEF Created
  <2>2. card' = IF n < MaxDeclines THEN [card EXCEPT !.declines = n]
                ELSE [status |-> "BLOCKED", frozen |-> TRUE, declines |-> n]
    BY <1>9 DEF Created
  <2> HIDE DEF n
  <2>3. ASSUME n < MaxDeclines PROVE together
    BY <1>2, <1>3, <2>2, <2>3 DEF Card, Together
  <2>4. ASSUME ~(n < MaxDeclines) PROVE together
    <3>1. card' = [status |-> "BLOCKED", frozen |-> TRUE, declines |-> n]
      BY <2>2, <2>4
    <3> QED
      BY <1>3, <3>1 DEF Card, CardStatus, Together
  <2>5. kept /\ typed
    BY <1>2, <1>3, <1>4, <1>5, <2>1, CardSpendAssumption DEF Moves
  <2> QED
    BY <2>3, <2>4, <2>5
<1>10. CASE e.kind = "declined" /\ Created(a) /\ rowOwner # a
  <2>1. UNCHANGED <<books, card>>
    BY <1>10 DEF Created
  <2> QED
    BY <1>5, <1>7, <2>1 DEF TypeOK, FloorInv
<1>11. CASE e.kind \in {"grown", "reversed"} /\ Updated(a)
  <2>1. CreditBack(at[a].seenRow) \in Nat
    BY <1>3 DEF CreditBack, Row, NoRow
  <2>2. UNCHANGED <<card, fees>>
    BY <1>11 DEF Updated
  <2>3. CASE Moves(a, CreditBack(at[a].seenRow))
    BY <1>2, <1>3, <1>4, <1>5, <1>7, <2>1, <2>2, <2>3 DEF Moves
  <2>4. CASE Covers(a, e.amount) /\ Moves(a, -e.amount)
    BY <1>6, <1>7, <2>2, <2>4
  <2> QED
    BY <1>11, <2>3, <2>4 DEF Updated
<1>12. CASE StatusOnly(a)
  BY <1>5, <1>7, <1>12 DEF StatusOnly, TypeOK, FloorInv
<1>13. CASE Completed(a)
  BY <1>6, <1>7, <1>13 DEF Completed
<1> QED
  BY <1>8, <1>9, <1>10, <1>11, <1>12, <1>13, CommitCases

(* Counting down what may still come.                                      *)
LEMMA LeftCounted ==
  ASSUME left \in 0..MaxDisturbances, Disturbs
  PROVE  left' \in 0..MaxDisturbances
BY CardSpendAssumption DEF Disturbs

(* A memory of its type that is sound in every respect.                    *)
Good(m) == m \in Memory /\ Knows(m) /\ Afloat(m) /\ Decided(m)

(* An actor at rest has one ...                                            *)
LEMMA IdleGood == ASSUME fees \in Nat PROVE Good(Idle)
<1>1. Idle \in Memory
  BY DEF Idle, Memory, Points, NoRow, Main
<1>2. Knows(Idle) /\ Decided(Idle)
  BY DEF Idle, Knows, Decided, Handling, Deciding
<1>3. Afloat(Idle)
  BY FloorFacts DEF Idle, Afloat
<1> QED
  BY <1>1, <1>2, <1>3 DEF Good

(* ... and, by the invariant, so has everybody.                            *)
LEMMA AllGood == ASSUME Inv, NEW a \in Actors PROVE Good(at[a])
BY DEF Inv, TypeOK, MemoryInv, FloorInv, FrozenInv, Good

(* Going on with what one knows.                                           *)
LEMMA GotoGood ==
  ASSUME Inv, NEW a \in Actors, NEW p \in Points, Goto(a, p),
         \/ at[a].pc \in Handling /\ p \in Handling
         \/ at[a].pc \in Deciding /\ p \in Deciding \ {"eventWrite"}
  PROVE  \E m : Good(m) /\ at' = [at EXCEPT ![a] = m]
<1> DEFINE m == [at[a] EXCEPT !.pc = p]
<1>1. Good(at[a]) /\ at \in [Actors -> Memory]
  BY AllGood DEF Inv, TypeOK
<1>2. m \in Memory
  BY <1>1 DEF Good, Memory
<1>3. /\ m.pc = p /\ m.ev = at[a].ev /\ m.row = at[a].row /\ m.seenRow = at[a].seenRow
      /\ m.balance = at[a].balance /\ m.userBalance = at[a].userBalance
      /\ m.want = at[a].want
  BY <1>1 DEF Good, Memory
<1>4. at' = [at EXCEPT ![a] = m]
  BY <1>1 DEF Goto
<1> HIDE DEF m
<1>5. Knows(m) /\ Afloat(m) /\ Decided(m)
  BY <1>1, <1>3 DEF Good, Knows, Afloat, Decided, Handling, Deciding
<1> QED
  BY <1>2, <1>4, <1>5 DEF Good

(* Deciding on a status and a flag that fits it.                           *)
LEMMA DecideGood ==
  ASSUME Inv, NEW a \in Actors, NEW p \in Deciding, NEW w \in CardState, Together(w),
         NEW x \in CardState \cup {None}, p = "eventWrite" => x \in CardState,
         at' = [at EXCEPT ![a] = [at[a] EXCEPT !.pc = p, !.was = x, !.want = w]]
  PROVE  \E m : Good(m) /\ at' = [at EXCEPT ![a] = m]
<1> DEFINE m == [at[a] EXCEPT !.pc = p, !.was = x, !.want = w]
<1>1. Good(at[a]) /\ at \in [Actors -> Memory]
  BY AllGood DEF Inv, TypeOK
<1>2. m \in Memory
  BY <1>1 DEF Good, Memory, Deciding, Points
<1>3. /\ m.pc = p /\ m.was = x /\ m.want = w
      /\ m.balance = at[a].balance /\ m.userBalance = at[a].userBalance
  BY <1>1 DEF Good, Memory
<1>4. at' = [at EXCEPT ![a] = m]
  OBVIOUS
<1> HIDE DEF m
<1>5. Knows(m) /\ Afloat(m) /\ Decided(m)
  BY <1>1, <1>3 DEF Good, Knows, Afloat, Decided, Handling, Deciding
<1> QED
  BY <1>2, <1>4, <1>5 DEF Good

(* A request leaves an actor with one.                                     *)
LEMMA AsksGood ==
  ASSUME Inv, NEW a \in Actors, NEW p \in {"user", "support"},
         NEW w \in CardState, Together(w), Asks(a, p, w)
  PROVE  \E m : Good(m) /\ at' = [at EXCEPT ![a] = m]
<1> DEFINE x == at[a].was
<1>1. at[a] \in Memory
  BY DEF Inv, TypeOK
<1>2. x \in CardState \cup {None} /\ p \in Deciding /\ p # "eventWrite"
  BY <1>1 DEF Memory, Deciding
<1>3. at' = [at EXCEPT ![a] = [at[a] EXCEPT !.pc = p, !.was = x, !.want = w]]
  BY <1>1 DEF Asks, Memory
<1> HIDE DEF x
<1> QED
  BY <1>2, <1>3, DecideGood

(* Reading the balances.                                                   *)
LEMMA ReadGood ==
  ASSUME Inv, NEW a \in Actors, at[a].pc \in Handling,
         NEW b \in Int, b >= Floor, NEW u \in Int, u >= Floor,
         NEW n \in Nat, NEW p \in Handling,
         at' = [at EXCEPT ![a] = [at[a] EXCEPT !.balance = b, !.userBalance = u,
                                               !.count = n, !.pc = p]]
  PROVE  \E m : Good(m) /\ at' = [at EXCEPT ![a] = m]
<1> DEFINE m == [at[a] EXCEPT !.balance = b, !.userBalance = u, !.count = n, !.pc = p]
<1>1. Good(at[a])
  BY AllGood
<1>2. m \in Memory
  BY <1>1 DEF Good, Memory, Handling, Points
<1>3. /\ m.pc = p /\ m.ev = at[a].ev /\ m.row = at[a].row /\ m.seenRow = at[a].seenRow
      /\ m.balance = b /\ m.userBalance = u
  BY <1>1 DEF Good, Memory
<1> HIDE DEF m
<1>4. Knows(m) /\ Afloat(m) /\ Decided(m)
  BY <1>1, <1>3 DEF Good, Knows, Afloat, Decided, Handling, Deciding
<1> QED
  BY <1>2, <1>4 DEF Good, m

(* Every step of an actor leaves it with a sound memory.                   *)
LEMMA StepGood ==
  ASSUME Inv, NEW a \in Actors, Handle(a) \/ ChangeStatus(a)
  PROVE  \E m : Good(m) /\ at' = [at EXCEPT ![a] = m]
<1> DEFINE Goal == \E m : Good(m) /\ at' = [at EXCEPT ![a] = m]
<1> SUFFICES Goal
  OBVIOUS
<1> USE DEF Inv
<1>0. fees \in Nat /\ at[a] \in Memory /\ Good(at[a]) /\ Good(Idle) /\ at \in [Actors -> Memory]
  BY AllGood, IdleGood DEF TypeOK
<1>1. ASSUME NEW e \in sent, FindRow(a, e) PROVE Goal
  <2>1. PICK i \in 0..Len(rows[e.tx]) :
          /\ i = 0 <=> rows[e.tx] = <<>>
          /\ e.kind \in {"grown", "reversed"} => i # 0
          /\ at' = [at EXCEPT ![a] = [Idle EXCEPT !.pc = "findMain", !.ev = e, !.row = i,
                        !.seenRow = IF i = 0 THEN NoRow ELSE rows[e.tx][i]]]
    BY <1>1 DEF FindRow
  <2> DEFINE r == IF i = 0 THEN NoRow ELSE rows[e.tx][i]
             m == [Idle EXCEPT !.pc = "findMain", !.ev = e, !.row = i, !.seenRow = r]
  <2>2. e \in Events /\ rows[e.tx] \in Seq(Row)
    BY DEF TypeOK, Events
  <2>3. r \in Row \cup {NoRow} /\ i \in Nat /\ (r = NoRow <=> i = 0)
    <3>1. Len(rows[e.tx]) \in Nat
      BY <2>2, LenProperties
    <3>2. i # 0 => rows[e.tx][i] \in Row
      BY <2>1, <2>2, <3>1, ElementOfSeq
    <3>3. NoRow \notin Row
      BY DEF NoRow, Row, RowStatus
    <3> QED
      BY <2>1, <3>1, <3>2, <3>3
  <2>4. at' = [at EXCEPT ![a] = m]
    BY <2>1
  <2> HIDE DEF r
  <2>5. m \in Memory
    BY <1>0, <2>2, <2>3 DEF Good, Memory, Points
  <2>6. /\ m.pc = "findMain" /\ m.ev = e /\ m.row = i /\ m.seenRow = r
        /\ m.balance = Idle.balance /\ m.userBalance = Idle.userBalance
    BY DEF Idle
  <2> HIDE DEF m
  <2>7. Knows(m) /\ Decided(m)
    BY <2>1, <2>2, <2>3, <2>6 DEF Knows, Decided, Handling, Deciding
  <2>8. Afloat(m)
    BY <1>0, <2>6 DEF Good, Afloat
  <2> QED
    BY <2>4, <2>5, <2>7, <2>8 DEF Good
<1>2. ASSUME FindMain(a) PROVE Goal
  <2>1. main[at[a].ev.tx] \in Main /\ NoRow \in Main /\ at[a].pc = "findMain"
    BY <1>0, <1>2 DEF TypeOK, FindMain, Good, Knows, Handling, Events, Main
  <2>2. PICK n \in Main : at' = [at EXCEPT ![a] = Idle]
                          \/ at' = [at EXCEPT ![a] = [at[a] EXCEPT !.pc = "lock", !.seenMain = n]]
    BY <1>2, <2>1 DEF FindMain
  <2> DEFINE m == [at[a] EXCEPT !.pc = "lock", !.seenMain = n]
  <2>3. m \in Memory
    BY <1>0 DEF Memory, Points
  <2>4. /\ m.pc = "lock" /\ m.ev = at[a].ev /\ m.row = at[a].row /\ m.seenRow = at[a].seenRow
        /\ m.balance = at[a].balance /\ m.userBalance = at[a].userBalance
    BY <1>0 DEF Memory
  <2>5. at' = [at EXCEPT ![a] = Idle] \/ at' = [at EXCEPT ![a] = m]
    BY <2>2
  <2> HIDE DEF m
  <2>6. Knows(m) /\ Afloat(m) /\ Decided(m)
    BY <1>0, <2>1, <2>4 DEF Good, Knows, Afloat, Decided, Handling, Deciding
  <2> QED
    BY <1>0, <2>3, <2>5, <2>6 DEF Good
<1>3. ASSUME TakeLock(a) PROVE Goal
  <2>1. at[a].pc \in Handling
    BY <1>3 DEF TakeLock, Handling
  <2>2. Goto(a, "commit") \/ Goto(a, "readCard")
    BY <1>3 DEF TakeLock
  <2> QED
    BY <2>1, <2>2, GotoGood DEF Handling, Points
<1>4. ASSUME at' = [at EXCEPT ![a] = Idle] PROVE Goal
  BY <1>0, <1>4
<1>5. ASSUME ReadCard(a) PROVE Goal
  <2> DEFINE n == IF at[a].ev.kind = "declined" THEN card.declines ELSE 0
             p == IF at[a].ev.kind = "declined" /\ card.status = "BLOCKED"
                  THEN "commit" ELSE "readUser"
             u == at[a].userBalance
  <2>1. /\ n \in Nat /\ p \in Handling /\ balance \in Int /\ balance >= Floor
        /\ u \in Int /\ u >= Floor /\ at[a].pc \in Handling
    BY <1>0, <1>5 DEF ReadCard, TypeOK, Memory, Handling, FloorInv, Good, Afloat
  <2>2. at' = [at EXCEPT ![a].balance = balance, ![a].count = n, ![a].pc = p]
    BY <1>5 DEF ReadCard
  <2> HIDE DEF n, p
  <2>3. at' = [at EXCEPT ![a] = [at[a] EXCEPT !.balance = balance, !.userBalance = u,
                                              !.count = n, !.pc = p]]
    BY <1>0, <2>2 DEF Memory
  <2> HIDE DEF u
  <2> QED
    BY <2>1, <2>3, ReadGood
<1>6. ASSUME ReadUser(a) PROVE Goal
  <2> DEFINE n == at[a].count
             p == IF at[a].ev.kind = "declined" THEN "decline" ELSE "commit"
             b == at[a].balance
  <2>1. /\ n \in Nat /\ p \in Handling /\ userBalance \in Int /\ userBalance >= Floor
        /\ b \in Int /\ b >= Floor /\ at[a].pc \in Handling
    BY <1>0, <1>6 DEF ReadUser, TypeOK, Memory, Handling, FloorInv, Good, Afloat
  <2>2. at' = [at EXCEPT ![a].userBalance = userBalance, ![a].pc = p]
    BY <1>6 DEF ReadUser
  <2> HIDE DEF p
  <2>3. at' = [at EXCEPT ![a] = [at[a] EXCEPT !.balance = b, !.userBalance = userBalance,
                                              !.count = n, !.pc = p]]
    BY <1>0, <2>2 DEF Memory
  <2> HIDE DEF n, b
  <2> QED
    BY <2>1, <2>3, ReadGood
<1>7. ASSUME Decline(a) PROVE Goal
  BY <1>7, GotoGood DEF Decline, Handling, Points
<1>8. ASSUME NEW yes \in BOOLEAN, UserAsks(a, yes) PROVE Goal
  <2> DEFINE w == [status |-> IF yes THEN "INACTIVE" ELSE "ACTIVE", frozen |-> yes]
  <2>1. w \in CardState /\ Together(w)
    BY DEF CardState, CardStatus, Together
  <2> QED
    BY <1>8, <2>1, AsksGood DEF UserAsks
<1>9. ASSUME NEW yes \in BOOLEAN, SupportAsks(a, yes) PROVE Goal
  <2> DEFINE w == [status |-> IF yes THEN "BLOCKED" ELSE "ACTIVE", frozen |-> yes]
  <2>1. w \in CardState /\ Together(w)
    BY DEF CardState, CardStatus, Together
  <2> QED
    BY <1>9, <2>1, AsksGood DEF SupportAsks
<1>13. ASSUME UserCancels(a) PROVE Goal
  <2> DEFINE w == [status |-> "CANCELED", frozen |-> TRUE]
  <2>1. w \in CardState /\ Together(w)
    BY DEF CardState, CardStatus, Together
  <2> QED
    BY <1>13, <2>1, AsksGood DEF UserCancels
<1>10. ASSUME TellRain(a) PROVE Goal
  <2>1. at[a].pc \in Deciding
    BY <1>10 DEF TellRain, Deciding
  <2>2. at' = [at EXCEPT ![a] = Idle] \/ Goto(a, "userWrite") \/ Goto(a, "supportWrite")
    BY <1>10 DEF TellRain
  <2> QED
    BY <1>4, <2>1, <2>2, GotoGood DEF Deciding, Points
<1>11. ASSUME NEW s \in reported, CardUpdated(a, s) PROVE Goal
  <2> DEFINE w == [status |-> MappedCardStatus(s), frozen |-> MappedFrozen(s)]
  <2>1. /\ MappedCardStatus(s) \in CardStatus /\ MappedFrozen(s) \in BOOLEAN
        /\ MappedCardStatus(s) = "ACTIVE" => ~MappedFrozen(s)
        /\ MappedCardStatus(s) = "BLOCKED" => MappedFrozen(s)
    BY DEF TypeOK, MappedCardStatus, MappedFrozen, CardStatus
  <2>2. w \in CardState /\ Together(w) /\ Now \in CardState
    BY <2>1 DEF CardState, Together, TypeOK, Now
  <2>3. at' = [at EXCEPT ![a] = [at[a] EXCEPT !.pc = "eventWrite", !.was = Now, !.want = w]]
    BY <1>0, <1>11 DEF CardUpdated, Memory
  <2> HIDE DEF w
  <2> QED
    BY <2>2, <2>3, DecideGood DEF Deciding
<1>12. ASSUME LockFails(a) \/ Commit(a) \/ Abort(a) \/ WriteStatus(a) \/ WriteEvent(a) PROVE Goal
  BY <1>4, <1>12 DEF LockFails, Commit, Abort, Ends, WriteStatus, WriteEvent
<1> HIDE DEF Goal
<1> QED
  BY <1>1, <1>2, <1>3, <1>5, <1>6, <1>7, <1>8, <1>9, <1>10, <1>11, <1>12,
     <1>13 DEF Handle, ChangeStatus

(* So what the actors remember keeps its type.                             *)
LEMMA MemoryTypes == ASSUME Inv, Next PROVE at' \in [Actors -> Memory]
<1>1. ASSUME NEW a \in Actors, Handle(a) \/ ChangeStatus(a) PROVE at' \in [Actors -> Memory]
  BY <1>1, StepGood DEF Good, Inv, TypeOK
<1>2. ASSUME NEW t \in Spends, Rain(t) \/ LeaseEnds(t) PROVE at' = at
  BY <1>2 DEF Rain, Says, LeaseEnds
<1>3. ASSUME NEW s \in Unasked, RainChanges(s) PROVE at' = at
  BY <1>3 DEF RainChanges
<1> QED
  BY <1>1, <1>2, <1>3 DEF Next, Inv, TypeOK

(* ... and so does everything else.                                        *)
LEMMA TypesStep ==
  ASSUME Inv, Next
  PROVE  TypeOK'
<1> USE MemoryTypes DEF TypeOK, Inv
<1>1. ASSUME NEW t \in Spends, Rain(t) PROVE TypeOK'
  <2>1. ASSUME NEW k \in Kinds, NEW n \in {0, Amount, Grown}, Says(t, k, n)
        PROVE  sent' \subseteq Events
    BY <2>1 DEF Says, Events
  <2>2. sent' \subseteq Events
    BY <1>1, <2>1 DEF Rain, Kinds
  <2> QED
    BY <1>1, <2>2 DEF Rain, Says
<1>2. ASSUME NEW t \in Spends, LeaseEnds(t) PROVE TypeOK'
  BY <1>2, LeftCounted DEF LeaseEnds
<1>3. ASSUME NEW a \in Actors, NEW e \in sent, FindRow(a, e) PROVE TypeOK'
  BY <1>3 DEF FindRow
<1>4. ASSUME NEW a \in Actors, FindMain(a) PROVE TypeOK'
  BY <1>4 DEF FindMain
<1>5. ASSUME NEW a \in Actors, TakeLock(a) PROVE TypeOK'
  BY <1>5 DEF TakeLock
<1>6. ASSUME NEW a \in Actors, LockFails(a) PROVE TypeOK'
  BY <1>6 DEF LockFails
<1>7. ASSUME NEW a \in Actors, ReadCard(a) PROVE TypeOK'
  BY <1>7 DEF ReadCard
<1>8. ASSUME NEW a \in Actors, ReadUser(a) PROVE TypeOK'
  BY <1>8 DEF ReadUser
<1>9. ASSUME NEW a \in Actors, Decline(a) PROVE TypeOK'
  BY <1>9 DEF Decline, RainStatus
<1>10. ASSUME NEW a \in Actors, Commit(a) PROVE TypeOK'
  <2>1. upset' \in BOOLEAN
    BY <1>10, CommitCases DEF Created, Updated, StatusOnly, Completed
  <2>2. /\ lock' \in [Spends -> Actors \cup {None}] /\ rowOwner' \in Actors \cup {None}
        /\ UNCHANGED <<sent, reported, left>>
    BY <1>10 DEF Commit, Ends
  <2>3. rows' \in [Spends -> Seq(Row)] /\ main' \in [Spends -> Main]
    BY <1>10, CommitRecords DEF Recorded
  <2> QED
    BY <1>10, <2>1, <2>2, <2>3, CommitBooks DEF Card, Commit
<1>11. ASSUME NEW a \in Actors, Abort(a) PROVE TypeOK'
  BY <1>11 DEF Abort, Ends
<1>12. ASSUME NEW a \in Actors, NEW yes \in BOOLEAN, UserAsks(a, yes) PROVE TypeOK'
  BY <1>12, LeftCounted DEF UserAsks, Asks
<1>13. ASSUME NEW a \in Actors, NEW yes \in BOOLEAN, SupportAsks(a, yes) PROVE TypeOK'
  BY <1>13, LeftCounted DEF SupportAsks, Asks
<1>14. ASSUME NEW a \in Actors, TellRain(a) PROVE TypeOK'
  <2>1. ToldRain(at[a].want) \in RainStatus
    BY DEF ToldRain, RainStatus
  <2> QED
    BY <1>14, <2>1 DEF TellRain
<1>15. ASSUME NEW a \in Actors, WriteStatus(a) PROVE TypeOK'
  <2>1. card' \in Card
    BY <1>15 DEF WriteStatus, FrozenInv, Decided, Deciding, CardState, Card
  <2> QED
    BY <1>15, <2>1 DEF WriteStatus, Card
<1>16. ASSUME NEW a \in Actors, NEW s \in reported, CardUpdated(a, s) PROVE TypeOK'
  BY <1>16 DEF CardUpdated
<1>17. ASSUME NEW a \in Actors, UserCancels(a) PROVE TypeOK'
  BY <1>17, LeftCounted DEF UserCancels, Asks
<1>18. ASSUME NEW a \in Actors, WriteEvent(a) PROVE TypeOK'
  <2>1. mixed' \in BOOLEAN
    BY <1>18 DEF WriteEvent
  <2>2. card' \in Card
    BY <1>18 DEF WriteEvent, FrozenInv, Decided, Deciding, CardState, Card
  <2> QED
    BY <1>18, <2>1, <2>2 DEF WriteEvent, Card
<1>19. ASSUME NEW s \in Unasked, RainChanges(s) PROVE TypeOK'
  BY <1>19, LeftCounted, CardSpendAssumption DEF RainChanges
<1> HIDE DEF TypeOK
<1> QED
  BY <1>1, <1>2, <1>3, <1>4, <1>5, <1>6, <1>7, <1>8, <1>9, <1>10, <1>11, <1>12, <1>13,
     <1>14, <1>15, <1>16, <1>17, <1>18, <1>19 DEF Next, Handle, ChangeStatus

(* What the steps other than a commit leave alone.                         *)
LEMMA Frame ==
  ASSUME Next
  PROVE  \/ \E a \in Actors : Commit(a)
         \/ UNCHANGED <<balance, userBalance, fees, rows, main, upset>>
<1> DEFINE Same == UNCHANGED <<balance, userBalance, fees, rows, main, upset>>
<1>1. ASSUME NEW t \in Spends, Rain(t) \/ LeaseEnds(t) PROVE Same
  BY <1>1 DEF Rain, Says, LeaseEnds
<1>2. ASSUME NEW a \in Actors, Handle(a), ~Commit(a) PROVE Same
  BY <1>2 DEF Handle, FindRow, FindMain, TakeLock, LockFails, ReadCard, ReadUser, Decline, Abort
<1>3. ASSUME NEW a \in Actors, ChangeStatus(a) PROVE Same
  BY <1>3 DEF ChangeStatus, UserAsks, UserCancels, SupportAsks, Asks, TellRain, WriteStatus,
              CardUpdated, WriteEvent
<1>4. ASSUME NEW s \in Unasked, RainChanges(s) PROVE Same
  BY <1>4 DEF RainChanges
<1> QED
  BY <1>1, <1>2, <1>3, <1>4 DEF Next

(* Every memory after a step was sound before it: the actor's new one, and *)
(* the others', which have not changed.                                    *)
LEMMA GoodAfter == ASSUME Inv, Next PROVE \A b \in Actors : Good(at'[b])
<1>1. ASSUME NEW a \in Actors, Handle(a) \/ ChangeStatus(a)
      PROVE  \A b \in Actors : Good(at'[b])
  <2>1. PICK m : Good(m) /\ at' = [at EXCEPT ![a] = m]
    BY <1>1, StepGood
  <2> QED
    BY <2>1, AllGood DEF Inv, TypeOK
<1>2. ASSUME NEW t \in Spends, Rain(t) \/ LeaseEnds(t) PROVE at' = at
  BY <1>2 DEF Rain, Says, LeaseEnds
<1>3. ASSUME NEW s \in Unasked, RainChanges(s) PROVE at' = at
  BY <1>3 DEF RainChanges
<1> QED
  BY <1>1, <1>2, <1>3, AllGood DEF Next

(* It stays sound: rows are only added, ...                                *)
LEMMA MemoryStep == ASSUME Inv, Next PROVE MemoryInv'
<1>1. \A t \in Spends : Len(rows[t]) \in Nat /\ Len(rows'[t]) \in Nat
                        /\ Len(rows'[t]) >= Len(rows[t])
  <2>1. \A t \in Spends : rows[t] \in Seq(Row) /\ rows'[t] \in Seq(Row)
    BY TypesStep DEF Inv, TypeOK
  <2>2. \A t \in Spends : Len(rows[t]) \in Nat /\ Len(rows'[t]) \in Nat
    BY <2>1, LenProperties
  <2>3. ASSUME NEW a \in Actors, Commit(a)
        PROVE  \A t \in Spends : Len(rows'[t]) >= Len(rows[t])
    <3>1. Recorded(at[a].ev.tx)
      BY <2>3, CommitRecords DEF Inv
    <3> QED
      BY <2>2, <3>1 DEF Recorded
  <2> QED
    BY <2>2, <2>3, Frame
<1> SUFFICES ASSUME NEW b \in Actors PROVE Knows(at[b])'
  BY DEF MemoryInv
<1>2. Knows(at'[b])
  BY GoodAfter DEF Good
<1> DEFINE m == at'[b]
<1> HIDE DEF m
<1>3. m.pc \in Handling => m.ev.tx \in Spends
  BY <1>2 DEF Knows, Events, m
<1>4. m.pc \in Handling => m.row \in 0..Len(rows'[m.ev.tx])
  BY <1>1, <1>2, <1>3 DEF Knows, m
<1> QED
  BY <1>2, <1>4 DEF Knows, m

(* ... the records are written together, ...                               *)
LEMMA RecordsStep == ASSUME Inv, Next PROVE RecordsInv'
<1>1. CASE UNCHANGED <<rows, main>>
  BY <1>1 DEF Inv, RecordsInv, RowsAgree
<1>2. ASSUME NEW a \in Actors, Commit(a) PROVE RecordsInv'
  <2> DEFINE t == at[a].ev.tx
  <2>1. t \in Spends /\ Recorded(t)
    BY <1>2, CommitRecords DEF Inv
  <2> HIDE DEF t
  <2>2. rows'[t] # <<>>
    BY <2>1 DEF Recorded
  <2>3. \A u \in Spends : main'[u] = NoRow <=> rows'[u] = <<>>
    BY <2>1, <2>2 DEF Recorded, Inv, RecordsInv
  <2>4. \A u \in Spends : Len(rows'[u]) = 1 => Agree(rows'[u][1], main'[u])
    BY <2>1 DEF Recorded, Inv, RecordsInv, RowsAgree, Agree
  <2> QED
    BY <2>3, <2>4 DEF RecordsInv, RowsAgree, Agree
<1> QED
  BY <1>1, <1>2, Frame

(* ... the floor only sinks, below every balance ...                       *)
LEMMA FloorStep == ASSUME Inv, Next PROVE FloorInv'
<1>1. fees \in Nat /\ Floor \in Int /\ (fees' = fees => Floor' = Floor)
  BY FloorFacts DEF Inv, TypeOK
<1>2. /\ balance' >= Floor' /\ userBalance' >= Floor'
      /\ Floor' \in Int /\ Floor' <= Floor
  <2>1. CASE UNCHANGED <<balance, userBalance, fees>>
    BY <1>1, <2>1 DEF Inv, FloorInv
  <2>2. ASSUME NEW a \in Actors, Commit(a)
        PROVE  /\ balance' >= Floor' /\ userBalance' >= Floor' /\ Floor' <= Floor
               /\ fees' \in Nat
    BY <2>2, CommitBooks DEF Inv
  <2>3. fees' \in Nat => Floor' \in Int
    BY CardSpendAssumption DEF Floor
  <2> QED
    BY <2>1, <2>2, <2>3, Frame
<1>3. \A b \in Actors : Afloat(at[b])'
  <2> SUFFICES ASSUME NEW b \in Actors
               PROVE  at'[b].balance >= Floor' /\ at'[b].userBalance >= Floor'
    BY DEF Afloat
  <2> DEFINE m == at'[b]
  <2>1. m \in Memory /\ m.balance >= Floor /\ m.userBalance >= Floor
    BY GoodAfter DEF Good, Afloat
  <2>2. m.balance \in Int /\ m.userBalance \in Int
    BY <2>1 DEF Memory
  <2> HIDE DEF m
  <2>3. m.balance >= Floor' /\ m.userBalance >= Floor'
    BY <1>1, <1>2, <2>1, <2>2
  <2> QED
    BY <2>3 DEF m
<1> QED
  BY <1>2, <1>3 DEF FloorInv

(* Unless it is upset, each handler keeps the books.                       *)
LEMMA CommitKeepsBooks ==
  ASSUME TypeOK, MemoryInv, BooksInv, NEW a \in Actors, Commit(a)
  PROVE  /\ IsFiniteSet(DOMAIN StandsOf(rows'))
         /\ ~upset' => balance' = Start - Fee * fees' - Spent(rows') /\ userBalance' = balance'
<1> DEFINE e == at[a].ev
           t == e.tx
           i == at[a].row
           Finite == IsFiniteSet(DOMAIN StandsOf(rows'))
           Kept == balance' = Start - Fee * fees' - Spent(rows') /\ userBalance' = balance'
<1>0. IsFiniteSet(DOMAIN StandsOf(rows)) /\ (~upset => Booked)
  BY BooksBooked DEF BooksInv
<1>1. e \in Events /\ t \in Spends /\ e.kind \in Kinds /\ e.amount \in Nat
  BY CommitCases
<1>2. Fee \in Int /\ Fee * 0 = 0 /\ Fee * 1 = Fee /\ fees \in Nat
  BY CardSpendAssumption DEF TypeOK
<1>3. ASSUME NEW r \in Row, Adds(t, r)
      PROVE  /\ Finite /\ Spent(rows) \in Int
             /\ Spent(rows') = Spent(rows) + IF r.status # "DECLINED" THEN r.amount ELSE 0
  <2> DEFINE k == Len(rows[t]) + 1
  <2>1. /\ k \in Nat /\ rows' \in [Spends -> Seq(Row)] /\ OneRow(t, k, r)
        /\ Worth(rows, t, k) = 0
    BY <1>1, <1>3, AddedAlone
  <2> HIDE DEF k, t
  <2>2. /\ Finite /\ Spent(rows) \in Int
        /\ Spent(rows') = Spent(rows) - 0 + IF r.status # "DECLINED" THEN r.amount ELSE 0
    BY <1>0, <1>1, <2>1, SpentMovesBy
  <2> QED  BY <2>2 DEF Row
<1>4. ASSUME NEW r \in Row, i \in 1..Len(rows[t]),
             rows' = [rows EXCEPT ![t] = [@ EXCEPT ![i] = r]]
      PROVE  /\ Finite /\ Spent(rows) \in Int
             /\ Spent(rows') = Spent(rows)
                  - (IF rows[t][i].status # "DECLINED" THEN rows[t][i].amount ELSE 0)
                  + IF r.status # "DECLINED" THEN r.amount ELSE 0
  <2>1. /\ i \in Nat /\ rows' \in [Spends -> Seq(Row)] /\ OneRow(t, i, r)
        /\ Worth(rows, t, i) = IF rows[t][i].status # "DECLINED" THEN rows[t][i].amount ELSE 0
    BY <1>1, <1>4, RewrittenAlone
  <2> HIDE DEF i, t
  <2>2. /\ Finite /\ Spent(rows) \in Int
        /\ Spent(rows') = Spent(rows) - Worth(rows, t, i)
                            + IF r.status # "DECLINED" THEN r.amount ELSE 0
    BY <1>0, <1>1, <2>1, SpentMovesBy
  <2> QED  BY <2>1, <2>2
<1>5. ASSUME i \in 1..Len(rows[t]), ~StaleRow(a)
      PROVE  at[a].seenRow = rows[t][i]
  BY <1>5 DEF StaleRow
<1>6. ASSUME NEW n \in Int, Spent(rows') = Spent(rows) + n, Spent(rows) \in Int,
             Moves(a, -n), fees' = fees, ~upset, ~StaleBalance(a)
      PROVE  Kept
  <2>1. -n = -n - Fee * 0 /\ fees' = fees + 0 /\ 0 \in 0..1
    BY <1>2, <1>6
  <2>2. Moves(a, -n - Fee * 0)
    BY <1>6, <2>1
  <2> QED  BY <1>0, <1>6, <2>1, <2>2, BooksMove
<1>7. CASE e.kind = "authorized" /\ Created(a)
  <2> DEFINE r == [status |-> MappedStatus(e), amount |-> e.amount]
  <2>1. r \in Row /\ r.status # "DECLINED" /\ r.amount = e.amount
    BY <1>1, <1>7 DEF MappedStatus, IsFailed, IsPending, Row, RowStatus
  <2>2. /\ Adds(t, r) /\ Moves(a, -e.amount) /\ fees' = fees
        /\ upset' = (upset \/ StaleBalance(a))
    BY <1>7 DEF Created
  <2> HIDE DEF r
  <2>3. Finite /\ Spent(rows) \in Int /\ Spent(rows') = Spent(rows) + e.amount
    BY <1>3, <2>1, <2>2
  <2> DEFINE n == e.amount
  <2>4. n \in Int /\ Moves(a, -n) /\ Spent(rows') = Spent(rows) + n
    BY <1>1, <2>2, <2>3
  <2> HIDE DEF n
  <2>5. ASSUME ~upset' PROVE Kept
    <3>1. ~upset /\ ~StaleBalance(a)
      BY <2>2, <2>5
    <3> QED  BY <1>6, <2>2, <2>3, <2>4, <3>1
  <2> QED  BY <2>3, <2>5
<1>8. CASE e.kind = "declined" /\ Created(a)
  <2> DEFINE r == [status |-> MappedStatus(e), amount |-> e.amount]
  <2>1. r \in Row /\ r.status = "DECLINED"
    BY <1>1, <1>8 DEF MappedStatus, IsFailed, IsPending, Row, RowStatus
  <2>2. Adds(t, r)
    BY <1>8 DEF Created
  <2> HIDE DEF r
  <2>3. Finite /\ Spent(rows) \in Int /\ Spent(rows') = Spent(rows) + 0
    BY <1>3, <2>1, <2>2
  <2>4. ASSUME rowOwner = a, ~upset' PROVE Kept
    <3>1. Moves(a, -Fee) /\ fees' = fees + 1 /\ upset' = (upset \/ StaleBalance(a))
      BY <1>8, <2>4 DEF Created
    <3>2. -0 - Fee * 1 = -Fee /\ 0 \in Int /\ 1 \in 0..1
      BY <1>2
    <3>3. Moves(a, -0 - Fee * 1)
      BY <3>1, <3>2
    <3>4. Booked /\ ~StaleBalance(a)
      BY <1>0, <2>4, <3>1
    <3> QED  BY <2>3, <3>1, <3>2, <3>3, <3>4, BooksMove
  <2>5. ASSUME rowOwner # a, ~upset' PROVE Kept
    <3>1. UNCHANGED <<balance, userBalance, fees, upset>>
      BY <1>8, <2>5 DEF Created
    <3>2. Booked /\ Spent(rows') = Spent(rows)
      BY <1>0, <2>3, <2>5, <3>1
    <3> QED  BY <3>1, <3>2 DEF Booked
  <2> QED  BY <2>3, <2>4, <2>5
<1>9. CASE e.kind \in {"grown", "reversed"} /\ i \in 1..Len(rows[t]) /\ Updated(a)
  <2> DEFINE r == [status |-> IF IsFailed(e) THEN "DECLINED" ELSE "SUCCESSFUL",
                   amount |-> e.amount]
             o == rows[t][i]
             w == IF o.status # "DECLINED" THEN o.amount ELSE 0
  <2>1. r \in Row /\ (IsFailed(e) => r.status = "DECLINED")
    BY <1>1 DEF Row, RowStatus
  <2>2. rows' = [rows EXCEPT ![t] = [@ EXCEPT ![i] = r]] /\ i \in 1..Len(rows[t])
    BY <1>9 DEF Updated
  <2> HIDE DEF r
  <2>3. /\ Finite /\ Spent(rows) \in Int
        /\ Spent(rows') = Spent(rows) - w + IF r.status # "DECLINED" THEN r.amount ELSE 0
    BY <1>4, <2>1, <2>2
  <2>4. ASSUME ~upset' PROVE Kept
    <3>1. IsFailed(e) /\ ~upset /\ ~StaleBalance(a) /\ ~StaleRow(a)
      BY <1>9, <2>4 DEF Updated
    <3>2. Moves(a, CreditBack(at[a].seenRow)) /\ fees' = fees
      BY <1>9, <3>1 DEF Updated
    <3>3. at[a].seenRow = o
      BY <1>5, <2>2, <3>1
    <3>4. o \in Row
      BY <1>1, <2>2, ElementOfSeq DEF TypeOK
    <3> HIDE DEF o
    <3>5. w \in Nat /\ CreditBack(o) = w
      BY <3>4 DEF CreditBack, Row
    <3> HIDE DEF w
    <3>6. -w \in Int /\ -(-w) = w /\ Spent(rows') = Spent(rows) + (-w)
      BY <2>1, <2>3, <3>1, <3>5
    <3>7. Moves(a, -(-w))
      BY <3>2, <3>3, <3>5, <3>6
    <3> QED  BY <1>6, <2>3, <3>1, <3>2, <3>6, <3>7
  <2> QED  BY <2>3, <2>4
<1>10. CASE /\ i \in 1..Len(rows[t]) /\ StatusOnly(a)
            /\ at[a].seenRow.status = "PENDING"
  <2> DEFINE o == rows[t][i]
             r == [o EXCEPT !.status = "SUCCESSFUL"]
  <2>1. o \in Row
    BY <1>1, <1>10, ElementOfSeq DEF TypeOK
  <2>2. rows' = [rows EXCEPT ![t] = [@ EXCEPT ![i] = r]]
    BY <1>1, <1>10 DEF StatusOnly, TypeOK
  <2>3. UNCHANGED <<balance, userBalance, fees>> /\ upset' = (upset \/ StaleRow(a))
    BY <1>10 DEF StatusOnly
  <2>4. ~StaleRow(a) => o.status = "PENDING"
    BY <1>5, <1>10
  <2>5. o.amount \in Nat
    BY <2>1 DEF Row
  <2> HIDE DEF o
  <2>6. r \in Row /\ r.status = "SUCCESSFUL" /\ r.amount = o.amount
    BY <2>1 DEF Row, RowStatus
  <2> HIDE DEF r
  <2>7. /\ Finite /\ Spent(rows) \in Int
        /\ Spent(rows') = Spent(rows) - (IF o.status # "DECLINED" THEN o.amount ELSE 0) + o.amount
    BY <1>4, <1>10, <2>2, <2>6 DEF o
  <2>8. ASSUME ~upset' PROVE Kept
    <3>1. Booked /\ o.status = "PENDING"
      BY <1>0, <2>3, <2>4, <2>8
    <3>2. Spent(rows') = Spent(rows)
      BY <2>5, <2>7, <3>1
    <3> QED  BY <2>3, <3>1, <3>2 DEF Booked
  <2> QED  BY <2>7, <2>8
<1>11. CASE e.kind = "completed" /\ Completed(a)
  <2> DEFINE r == [status |-> "SUCCESSFUL", amount |-> e.amount]
  <2>1. r \in Row /\ r.status # "DECLINED" /\ r.amount = e.amount
    BY <1>1 DEF Row, RowStatus
  <2>2. /\ Adds(t, r) /\ Moves(a, -e.amount) /\ fees' = fees
        /\ upset' = (upset \/ StaleBalance(a) \/ StaleRow(a))
    BY <1>11 DEF Completed
  <2> HIDE DEF r
  <2>3. Finite /\ Spent(rows) \in Int /\ Spent(rows') = Spent(rows) + e.amount
    BY <1>3, <2>1, <2>2
  <2> DEFINE n == e.amount
  <2>4. n \in Int /\ Moves(a, -n) /\ Spent(rows') = Spent(rows) + n
    BY <1>1, <2>2, <2>3
  <2> HIDE DEF n
  <2>5. ASSUME ~upset' PROVE Kept
    <3>1. ~upset /\ ~StaleBalance(a)
      BY <2>2, <2>5
    <3> QED  BY <1>6, <2>2, <2>3, <2>4, <3>1
  <2> QED  BY <2>3, <2>5
<1>12. \/ e.kind \in {"authorized", "declined"} /\ Created(a)
       \/ e.kind \in {"grown", "reversed"} /\ i \in 1..Len(rows[t]) /\ Updated(a)
       \/ i \in 1..Len(rows[t]) /\ StatusOnly(a) /\ at[a].seenRow.status = "PENDING"
       \/ e.kind = "completed" /\ Completed(a)
  BY CommitCases
<1> HIDE DEF e, t, i
<1> QED
  BY <1>7, <1>8, <1>9, <1>10, <1>11, <1>12

(* Nobody but a commit touches the rows, the balances, the fees or upset.  *)
LEMMA BooksStep == ASSUME Inv, Next PROVE BooksInv'
<1> SUFFICES /\ IsFiniteSet(DOMAIN StandsOf(rows'))
             /\ ~upset' => balance' = Start - Fee * fees' - Spent(rows') /\ userBalance' = balance'
  BY DEF BooksInv, Books, Stands, StandsOf, Spent, Total, MapThenSumSet, MapThenFoldSet
<1>1. ASSUME NEW a \in Actors, Commit(a)
      PROVE  /\ IsFiniteSet(DOMAIN StandsOf(rows'))
             /\ ~upset' => balance' = Start - Fee * fees' - Spent(rows') /\ userBalance' = balance'
  BY <1>1, CommitKeepsBooks DEF Inv
<1>2. CASE UNCHANGED <<balance, userBalance, fees, rows, main, upset>>
  <2>1. IsFiniteSet(DOMAIN StandsOf(rows)) /\ (~upset => Booked)
    BY BooksBooked DEF Inv, BooksInv
  <2>2. rows' = rows /\ Spent(rows') = Spent(rows)
    BY <1>2
  <2> QED  BY <1>2, <2>1, <2>2 DEF Booked
<1> QED  BY <1>1, <1>2, Frame

(* ... and the flag fits the status: a request writes what it decided, and *)
(* so does an event, unless it writes one column of a newer card.          *)
LEMMA FrozenStep == ASSUME Inv, Next PROVE FrozenInv'
<1> DEFINE Fits == /\ mixed => mixed'
                   /\ ~mixed' /\ Together(card) => Together(card')
<1>1. \A b \in Actors : Decided(at[b])'
  BY GoodAfter DEF Good, Decided
<1>2. ASSUME UNCHANGED <<card, mixed>> PROVE Fits
  BY <1>2 DEF Together
<1>3. ASSUME NEW a \in Actors, Commit(a) PROVE Fits
  <2>1. mixed' = mixed
    BY <1>3 DEF Commit
  <2>2. Together(card) => Together(card')
    BY <1>3, CommitBooks DEF Inv
  <2> QED
    BY <2>1, <2>2
<1>4. ASSUME NEW a \in Actors, WriteStatus(a) PROVE Fits
  <2>1. Together(at[a].want)
    BY <1>4 DEF WriteStatus, Inv, FrozenInv, Decided, Deciding
  <2>2. /\ card'.frozen = at[a].want.frozen /\ card'.status = at[a].want.status
        /\ mixed' = mixed
    BY <1>4 DEF WriteStatus, Inv, TypeOK
  <2> QED
    BY <2>1, <2>2 DEF Together
<1>5. ASSUME NEW a \in Actors, WriteEvent(a) PROVE Fits
  <2> DEFINE was == at[a].was
             want == at[a].want
  <2>1. was \in CardState /\ want \in CardState /\ Together(want)
    BY <1>5 DEF WriteEvent, Inv, FrozenInv, Decided, Deciding
  <2>2. /\ card'.status = IF want.status = was.status THEN card.status ELSE want.status
        /\ card'.frozen = IF want.frozen = was.frozen THEN card.frozen ELSE want.frozen
        /\ mixed' = (mixed \/ /\ Now # was
                              /\ want.status = was.status \/ want.frozen = was.frozen)
    BY <1>5 DEF WriteEvent, Inv, TypeOK
  <2> HIDE DEF was, want
  <2>3. ASSUME ~mixed' PROVE card'.status = want.status /\ card'.frozen = want.frozen
    <3>1. CASE Now = was
      <4>1. card.status = was.status /\ card.frozen = was.frozen
        BY <3>1 DEF Now
      <4> QED
        BY <2>2, <4>1
    <3>2. CASE want.status # was.status /\ want.frozen # was.frozen
      BY <2>2, <3>2
    <3> QED
      BY <2>2, <2>3, <3>1, <3>2
  <2> QED
    BY <2>1, <2>2, <2>3 DEF Together
<1>6. ASSUME NEW t \in Spends, Rain(t) \/ LeaseEnds(t) PROVE UNCHANGED <<card, mixed>>
  BY <1>6 DEF Rain, Says, LeaseEnds
<1>7. ASSUME NEW s \in Unasked, RainChanges(s) PROVE UNCHANGED <<card, mixed>>
  BY <1>7 DEF RainChanges
<1>8. ASSUME NEW a \in Actors, Handle(a), ~Commit(a) PROVE UNCHANGED <<card, mixed>>
  BY <1>8 DEF Handle, FindRow, FindMain, TakeLock, LockFails, ReadCard, ReadUser, Decline, Abort
<1>9. ASSUME NEW a \in Actors, ChangeStatus(a), ~WriteStatus(a), ~WriteEvent(a)
      PROVE  UNCHANGED <<card, mixed>>
  BY <1>9 DEF ChangeStatus, UserAsks, UserCancels, SupportAsks, Asks, TellRain, CardUpdated
<1>10. Fits
  BY <1>2, <1>3, <1>4, <1>5, <1>6, <1>7, <1>8, <1>9 DEF Next
<1> QED
  BY <1>1, <1>10 DEF FrozenInv, Inv

-----------------------------------------------------------------------------
(* The parts of the invariant, together, hold in every state the handlers  *)
(* of one card reach, whatever their locks do.                             *)
THEOREM Invariance == Spec => []Inv
<1>1. Init => Inv
  BY InitInv
<1>2. Inv /\ [Next]_vars => Inv'
  <2> SUFFICES ASSUME Inv, [Next]_vars PROVE Inv'
    OBVIOUS
  <2>1. CASE Next
    BY <2>1, TypesStep, MemoryStep, RecordsStep, FloorStep, BooksStep, FrozenStep DEF Inv
  <2>2. CASE UNCHANGED vars
    <3> USE <2>2 DEF vars, Inv
    <3>1. BooksInv'
      <4>1. IsFiniteSet(DOMAIN StandsOf(rows)) /\ (~upset => Booked)
        BY BooksBooked DEF BooksInv
      <4>2. /\ rows' = rows /\ Spent(rows') = Spent(rows)
            /\ UNCHANGED <<balance, userBalance, fees, upset>>
        OBVIOUS
      <4>3. /\ IsFiniteSet(DOMAIN StandsOf(rows'))
            /\ ~upset' => balance' = Start - Fee * fees' - Spent(rows') /\ userBalance' = balance'
        BY <4>1, <4>2 DEF Booked
      <4> QED
        BY <4>3 DEF BooksInv, Books, Stands, StandsOf, Spent, Total, MapThenSumSet, MapThenFoldSet
    <3>2. TypeOK' /\ MemoryInv' /\ RecordsInv' /\ FloorInv' /\ FrozenInv'
      BY DEF TypeOK, MemoryInv, Knows, RecordsInv, RowsAgree, FloorInv, Afloat, Floor,
             FrozenInv, Decided
    <3> QED
      BY <3>1, <3>2
  <2> QED
    BY <2>1, <2>2
<1> QED
  BY <1>1, <1>2, PTL DEF Spec

(* The card, its rows and what each handler remembers of them keep their   *)
(* types.                                                                  *)
THEOREM TypeCorrect == Spec => []TypeOK
<1>1. Inv => TypeOK
  BY DEF Inv
<1> QED
  BY <1>1, Invariance, PTL

(* The card_transactions row and the transactions row of one payment tell  *)
(* the same story, however deliveries of its events cross and however late *)
(* or often they come: each handler writes both in one database            *)
(* transaction.                                                            *)
THEOREM RecordsAgree == Spec => []RowsAgree
<1>1. Inv => RowsAgree
  BY DEF Inv, RecordsInv
<1> QED
  BY <1>1, Invariance, PTL

(* Repeated, late and reordered events of any number of payments keep the  *)
(* books: a balance is what was funded less the rows that stand and the    *)
(* fees, unless a commit rested on a stale read or debited a raise again.  *)
THEOREM BooksCorrect == Spec => []Books
<1>1. Inv => Books
  BY DEF Inv, BooksInv
<1> QED
  BY <1>1, Invariance, PTL

(* A card's and a card user's balance fall below zero by fees for declines *)
(* only, although handlers of different payments write absolute values     *)
(* from stale reads.                                                       *)
THEOREM FeesOnly == Spec => []OnlyFeesOverdraw
<1>1. Inv => OnlyFeesOverdraw
  BY DEF Inv, FloorInv, Floor, OnlyFeesOverdraw
<1> QED
  BY <1>1, Invariance, PTL

(* The user, the support desk, the block after declines and Rain's events  *)
(* of all five statuses write a card in any order, each from an earlier    *)
(* read.  An ACTIVE card is not frozen and a BLOCKED one is, unless an     *)
(* event wrote one of the two columns over a card changed since its read.  *)
THEOREM FrozenCorrect == Spec => []FreezeFollowsStatus
<1>1. Inv => FreezeFollowsStatus
  BY DEF Inv, FrozenInv, FreezeFollowsStatus
<1> QED
  BY <1>1, Invariance, PTL
=============================================================================
