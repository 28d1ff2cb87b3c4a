---------------------------- MODULE LedgerProofs ----------------------------
(***************************************************************************)
(* The store's accounting, for any tasks, budgets, amounts, costs, call    *)
(* limit and ledger range.                                                 *)
(***************************************************************************)
EXTENDS Ledger, SequenceTheorems, TLAPS, WellFoundedInduction

-----------------------------------------------------------------------------
(***************************************************************************)
(* Lemmas about Total.  The induction theorems of the library take an      *)
(* operator, so induction is done here over a set: a set of naturals that  *)
(* contains 0 and the successor of each of its members contains them all,  *)
(* because the ordering of the naturals is well founded.                   *)
(***************************************************************************)
\* Every non-empty set of naturals has a least member.
LEMMA LeastMember ==
    ASSUME NEW T, T \subseteq Nat, T # {}
    PROVE  \E x \in T : \A y \in T : x <= y
<1> DEFINE Less == OpToRel(<, Nat)
<1>1. IsWellFoundedOn(Less, Nat)
  BY NatLessThanWellFounded, Zenon
<1>2. \A x, y \in Nat : y < x => <<y, x>> \in Less
  BY DEF OpToRel
<1> HIDE DEF Less
<1>3. PICK x \in T : \A y \in T : ~(<<y, x>> \in Less)
  BY <1>1, WFMin, Zenon
<1>4. \A y \in T : ~(y < x)
  BY <1>2, <1>3, Zenon
<1>5. x \in Nat /\ \A y \in T : y \in Nat
  OBVIOUS
<1>6. \A y \in T : x <= y
  BY <1>4, <1>5, SMT
<1> QED
  BY <1>6, Zenon

\* Induction over the naturals, with a set in the place of a predicate.
LEMMA SetInduction ==
    ASSUME NEW S, 0 \in S, \A m \in Nat : m \in S => m + 1 \in S
    PROVE  \A m \in Nat : m \in S
<1> DEFINE Bad == Nat \ S
<1>1. SUFFICES ASSUME Bad # {} PROVE FALSE
  OBVIOUS
<1>2. Bad \subseteq Nat
  OBVIOUS
<1> HIDE DEF Bad
<1>3. PICK x \in Bad : \A y \in Bad : x <= y
  BY <1>1, <1>2, LeastMember, Zenon
<1> USE DEF Bad
<1>4. x \in Nat /\ x # 0
  OBVIOUS
<1>5. x - 1 \in Nat /\ x - 1 \notin Bad
  BY <1>3, <1>4
<1>6. (x - 1) + 1 \in S
  BY <1>5
<1> QED
  BY <1>4, <1>6

-----------------------------------------------------------------------------
\* g lists the partial sums f[1] + ... + f[i] for i up to n.
PartialSums(g, f, n) ==
    g = [i \in 0..n |-> IF i = 0 THEN 0 ELSE g[i - 1] + f[i]]

\* The recursive definition inside Total has a solution.
LEMMA PartialSumsExist ==
    ASSUME NEW f, NEW n \in Nat
    PROVE  \E g : PartialSums(g, f, n)
<1> DEFINE S == {m \in Nat : \E g : PartialSums(g, f, m)}
<1>1. 0 \in S
  <2>1. PartialSums([i \in 0..0 |-> 0], f, 0)
    BY DEF PartialSums
  <2> QED
    BY <2>1
<1>2. ASSUME NEW m \in Nat, m \in S
      PROVE  m + 1 \in S
  <2>1. PICK g : PartialSums(g, f, m)
    BY <1>2
  <2> DEFINE h == [i \in 0..(m + 1) |-> IF i = m + 1 THEN g[m] + f[m + 1] ELSE g[i]]
  <2>2. PartialSums(h, f, m + 1)
    BY <2>1 DEF PartialSums
  <2> QED
    BY <2>2
<1> HIDE DEF S
<1>3. n \in S
  BY <1>1, <1>2, SetInduction
<1> QED
  BY <1>3 DEF S

\* Total is the last partial sum.
LEMMA TotalIsPartialSum ==
    ASSUME NEW f, NEW n \in Nat
    PROVE  \E g : PartialSums(g, f, n) /\ Total(f, n) = g[n]
BY PartialSumsExist DEF PartialSums, Total

\* Partial sums of functions that agree up to m agree at m.
LEMMA PartialSumsAgree ==
    ASSUME NEW e, NEW f, NEW g, NEW h, NEW n \in Nat, NEW k \in Nat,
           PartialSums(g, e, n), PartialSums(h, f, k),
           NEW m \in Nat, m <= n, m <= k,
           \A i \in 1..m : e[i] = f[i]
    PROVE  g[m] = h[m]
<1> DEFINE S == {j \in Nat : j <= m => g[j] = h[j]}
<1>1. 0 \in S
  BY DEF PartialSums
<1>2. ASSUME NEW j \in Nat, j \in S
      PROVE  j + 1 \in S
  <2>1. CASE j + 1 <= m
    <3>1. j \in 0..n /\ j + 1 \in 0..n /\ j \in 0..k /\ j + 1 \in 0..k /\ j + 1 \in 1..m
      BY <2>1
    <3>2. (j + 1) - 1 = j /\ j + 1 # 0
      OBVIOUS
    <3>3. g[j + 1] = g[j] + e[j + 1] /\ h[j + 1] = h[j] + f[j + 1]
      BY <3>1, <3>2 DEF PartialSums
    <3> QED
      BY <1>2, <2>1, <3>1, <3>3
  <2> QED
    BY <2>1
<1> HIDE DEF S
<1>3. m \in S
  BY <1>1, <1>2, SetInduction
<1> QED
  BY <1>3 DEF S

-----------------------------------------------------------------------------
\* Total of nothing.
LEMMA TotalZero ==
    ASSUME NEW f
    PROVE  Total(f, 0) = 0
BY TotalIsPartialSum DEF PartialSums

\* Total satisfies the recurrence it is named for.
LEMMA TotalStep ==
    ASSUME NEW f, NEW n \in Nat
    PROVE  Total(f, n + 1) = Total(f, n) + f[n + 1]
<1>1. PICK g : PartialSums(g, f, n) /\ Total(f, n) = g[n]
  BY TotalIsPartialSum
<1>2. PICK h : PartialSums(h, f, n + 1) /\ Total(f, n + 1) = h[n + 1]
  BY TotalIsPartialSum
<1>3. g[n] = h[n]
  BY <1>1, <1>2, PartialSumsAgree
<1>4. h[n + 1] = h[n] + f[n + 1]
  <2>1. n + 1 \in 0..(n + 1) /\ (n + 1) - 1 = n /\ n + 1 # 0
    OBVIOUS
  <2> QED
    BY <1>2, <2>1 DEF PartialSums
<1> QED
  BY <1>1, <1>2, <1>3, <1>4

\* Functions that agree on 1..n have the same total.
LEMMA TotalSame ==
    ASSUME NEW e, NEW f, NEW n \in Nat, \A i \in 1..n : e[i] = f[i]
    PROVE  Total(e, n) = Total(f, n)
<1> DEFINE S == {j \in Nat : j <= n => Total(e, j) = Total(f, j)}
<1>1. 0 \in S
  BY TotalZero
<1>2. ASSUME NEW j \in Nat, j \in S
      PROVE  j + 1 \in S
  BY <1>2, TotalStep
<1> HIDE DEF S
<1>3. n \in S
  BY <1>1, <1>2, SetInduction
<1> QED
  BY <1>3 DEF S

\* A total of naturals is a natural.
LEMMA TotalType ==
    ASSUME NEW n \in Nat, NEW f, \A i \in 1..n : f[i] \in Nat
    PROVE  Total(f, n) \in Nat
<1> DEFINE S == {j \in Nat : j <= n => Total(f, j) \in Nat}
<1>1. 0 \in S
  BY TotalZero
<1>2. ASSUME NEW j \in Nat, j \in S
      PROVE  j + 1 \in S
  BY <1>2, TotalStep
<1> HIDE DEF S
<1>3. n \in S
  BY <1>1, <1>2, SetInduction
<1> QED
  BY <1>3 DEF S

\* A member is at most the total.
LEMMA TotalMember ==
    ASSUME NEW n \in Nat, NEW f, \A i \in 1..n : f[i] \in Nat, NEW k \in 1..n
    PROVE  f[k] <= Total(f, n)
<1> DEFINE S == {j \in Nat : j <= n /\ k <= j => f[k] <= Total(f, j)}
<1>1. 0 \in S
  OBVIOUS
<1>2. ASSUME NEW j \in Nat, j \in S
      PROVE  j + 1 \in S
  <2>1. CASE j + 1 <= n /\ k <= j + 1
    <3>1. Total(f, j + 1) = Total(f, j) + f[j + 1]
      BY TotalStep
    <3>2. Total(f, j) \in Nat
      BY <2>1, TotalType
    <3>3. f[j + 1] \in Nat /\ f[k] \in Nat
      BY <2>1
    <3>4. CASE k <= j
      BY <1>2, <2>1, <3>1, <3>2, <3>3, <3>4
    <3>5. CASE k = j + 1
      BY <2>1, <3>1, <3>2, <3>3, <3>5
    <3> QED
      BY <2>1, <3>4, <3>5
  <2> QED
    BY <2>1
<1> HIDE DEF S
<1>3. n \in S
  BY <1>1, <1>2, SetInduction
<1> QED
  BY <1>3 DEF S

\* Changing one member changes the total by as much.
LEMMA TotalUpdate ==
    ASSUME NEW n \in Nat, NEW e, NEW f,
           \A i \in 1..n : e[i] \in Nat /\ f[i] \in Nat,
           NEW k \in 1..n, \A i \in 1..n : i # k => e[i] = f[i]
    PROVE  Total(f, n) = Total(e, n) + f[k] - e[k]
<1> DEFINE S == {j \in Nat : k <= j /\ j <= n => Total(f, j) = Total(e, j) + f[k] - e[k]}
<1>1. 0 \in S
  OBVIOUS
<1>2. ASSUME NEW j \in Nat, j \in S
      PROVE  j + 1 \in S
  <2>1. CASE j + 1 <= n /\ k <= j + 1
    <3>1. Total(e, j + 1) = Total(e, j) + e[j + 1] /\ Total(f, j + 1) = Total(f, j) + f[j + 1]
      BY TotalStep
    <3>2. Total(e, j) \in Nat /\ Total(f, j) \in Nat
      BY <2>1, TotalType
    <3>3. /\ e[j + 1] \in Nat /\ f[j + 1] \in Nat
          /\ e[k] \in Nat /\ f[k] \in Nat
      BY <2>1
    <3>4. CASE k <= j
      BY <1>2, <2>1, <3>1, <3>2, <3>3, <3>4
    <3>5. CASE k = j + 1
      <4>1. Total(e, j) = Total(f, j)
        BY <2>1, <3>5, TotalSame
      <4> QED
        BY <2>1, <3>1, <3>2, <3>3, <3>5, <4>1
    <3> QED
      BY <2>1, <3>4, <3>5
  <2> QED
    BY <2>1
<1> HIDE DEF S
<1>3. n \in S
  BY <1>1, <1>2, SetInduction
<1> QED
  BY <1>3 DEF S

\* The total of a sum is the sum of the totals.
LEMMA TotalPlus ==
    ASSUME NEW n \in Nat, NEW d, NEW e, NEW f,
           \A i \in 1..n : d[i] \in Nat /\ e[i] \in Nat /\ f[i] = d[i] + e[i]
    PROVE  Total(f, n) = Total(d, n) + Total(e, n)
<1> DEFINE S == {j \in Nat : j <= n => Total(f, j) = Total(d, j) + Total(e, j)}
<1>1. 0 \in S
  BY TotalZero
<1>2. ASSUME NEW j \in Nat, j \in S
      PROVE  j + 1 \in S
  <2>1. CASE j + 1 <= n
    <3>1. /\ Total(d, j + 1) = Total(d, j) + d[j + 1]
          /\ Total(e, j + 1) = Total(e, j) + e[j + 1]
          /\ Total(f, j + 1) = Total(f, j) + f[j + 1]
      BY TotalStep
    <3>2. Total(d, j) \in Nat /\ Total(e, j) \in Nat
      BY <2>1, TotalType
    <3> QED
      BY <1>2, <2>1, <3>1, <3>2
  <2> QED
    BY <2>1
<1> HIDE DEF S
<1>3. n \in S
  BY <1>1, <1>2, SetInduction
<1> QED
  BY <1>3 DEF S

-----------------------------------------------------------------------------
(***************************************************************************)
(* The accounting.                                                         *)
(***************************************************************************)
\* The part of an attempt's bill that its reservation had set aside.
Committed(a)      == IF a.state = "settled" THEN Lesser(a.cost, a.amount) ELSE a.amount
TotalCommitted(s) == Total([i \in 1..Len(s) |-> Committed(s[i])], Len(s))

\* A settled attempt has a cost, the others have none.
CostsKnown ==
    \A t \in Tasks : \A i \in 1..Len(attempts[t]) :
        attempts[t][i].state = "settled" <=> attempts[t][i].cost # Unknown

\* Nothing belongs to a task that was not created.
RowFirst ==
    \A t \in Tasks : status[t] = "absent" =>
        total[t] = 0 /\ settled[t] = 0 /\ reserved[t] = 0 /\ attempts[t] = <<>>

\* What was ever set aside, less what was given back, fits in the budget.
CommittedInBudget ==
    \A t \in Tasks : TotalCommitted(attempts[t]) <= total[t]

IInv ==
    /\ TypeOK
    /\ CostsKnown
    /\ RowFirst
    /\ ColumnsMatch
    /\ CallLimit
    /\ CommittedInBudget

-----------------------------------------------------------------------------
\* Sequences of attempts whose costs are known exactly when settled.
Book == {s \in Seq(Attempt) : \A i \in 1..Len(s) :
            s[i].state = "settled" <=> s[i].cost # Unknown}

\* The contributions of an attempt are naturals, and what it commits plus
\* what it is billed in excess is what it holds or has paid.
LEMMA Contributions ==
    ASSUME NEW a \in Attempt, a.state = "settled" <=> a.cost # Unknown
    PROVE  /\ Held(a) \in Nat /\ Paid(a) \in Nat /\ Above(a) \in Nat /\ Committed(a) \in Nat
           /\ Held(a) + Paid(a) = Committed(a) + Above(a)
BY DEF Attempt, Unknown, Held, Paid, Above, Committed, Excess, Lesser

\* What a sequence of attempts holds and has paid is what it committed and
\* what it was billed in excess.
LEMMA Balance ==
    ASSUME NEW s \in Book
    PROVE  /\ TotalHeld(s) \in Nat /\ TotalPaid(s) \in Nat
           /\ TotalExcess(s) \in Nat /\ TotalCommitted(s) \in Nat
           /\ TotalHeld(s) + TotalPaid(s) = TotalCommitted(s) + TotalExcess(s)
<1> DEFINE n == Len(s)
           h == [i \in 1..n |-> Held(s[i])]
           p == [i \in 1..n |-> Paid(s[i])]
           x == [i \in 1..n |-> Above(s[i])]
           c == [i \in 1..n |-> Committed(s[i])]
           b == [i \in 1..n |-> Held(s[i]) + Paid(s[i])]
<1>1. n \in Nat /\ \A i \in 1..n : s[i] \in Attempt /\ (s[i].state = "settled" <=> s[i].cost # Unknown)
  BY DEF Book
<1>2. \A i \in 1..n : /\ Held(s[i]) \in Nat /\ Paid(s[i]) \in Nat
                      /\ Above(s[i]) \in Nat /\ Committed(s[i]) \in Nat
                      /\ Held(s[i]) + Paid(s[i]) = Committed(s[i]) + Above(s[i])
  BY <1>1, Contributions
<1>3. \A i \in 1..n : /\ h[i] \in Nat /\ p[i] \in Nat /\ x[i] \in Nat /\ c[i] \in Nat
                      /\ b[i] = h[i] + p[i] /\ b[i] = c[i] + x[i]
  BY <1>2
<1> HIDE DEF n, h, p, x, c, b
<1>4. Total(h, n) \in Nat /\ Total(p, n) \in Nat /\ Total(x, n) \in Nat /\ Total(c, n) \in Nat
  BY <1>1, <1>3, TotalType
<1>5. Total(b, n) = Total(h, n) + Total(p, n)
  <2>1. \A i \in 1..n : h[i] \in Nat /\ p[i] \in Nat /\ b[i] = h[i] + p[i]
    BY <1>3
  <2> QED
    BY <1>1, <2>1, TotalPlus
<1>6. Total(b, n) = Total(c, n) + Total(x, n)
  <2>1. \A i \in 1..n : c[i] \in Nat /\ x[i] \in Nat /\ b[i] = c[i] + x[i]
    BY <1>3
  <2> QED
    BY <1>1, <2>1, TotalPlus
<1> QED
  BY <1>4, <1>5, <1>6 DEF TotalHeld, TotalPaid, TotalExcess, TotalCommitted, n, h, p, x, c

\* A new attempt adds its amount to what is held and to what is committed.
LEMMA AppendTotals ==
    ASSUME NEW s \in Book, NEW a \in Attempt, a.state = "pending", a.cost = Unknown
    PROVE  /\ Append(s, a) \in Book
           /\ TotalHeld(Append(s, a)) = TotalHeld(s) + a.amount
           /\ TotalPaid(Append(s, a)) = TotalPaid(s)
           /\ TotalCommitted(Append(s, a)) = TotalCommitted(s) + a.amount
<1> DEFINE n == Len(s)
           r == Append(s, a)
           h == [i \in 1..n |-> Held(s[i])]
           p == [i \in 1..n |-> Paid(s[i])]
           c == [i \in 1..n |-> Committed(s[i])]
           h2 == [i \in 1..(n + 1) |-> Held(r[i])]
           p2 == [i \in 1..(n + 1) |-> Paid(r[i])]
           c2 == [i \in 1..(n + 1) |-> Committed(r[i])]
<1>1. /\ n \in Nat /\ r \in Seq(Attempt) /\ Len(r) = n + 1
      /\ r[n + 1] = a /\ \A i \in 1..n : r[i] = s[i]
  <2>1. s \in Seq(Attempt)
    BY DEF Book
  <2> QED
    BY <2>1, AppendProperties, LenProperties
<1>2. r \in Book
  <2> HIDE DEF r
  <2>1. \A i \in 1..n : s[i].state = "settled" <=> s[i].cost # Unknown
    BY DEF Book
  <2>2. \A i \in 1..(n + 1) : r[i].state = "settled" <=> r[i].cost # Unknown
    BY <1>1, <2>1
  <2> QED
    BY <1>1, <2>2 DEF Book
<1>3. /\ \A i \in 1..n : h2[i] = h[i] /\ p2[i] = p[i] /\ c2[i] = c[i]
      /\ h2[n + 1] = a.amount /\ p2[n + 1] = 0 /\ c2[n + 1] = a.amount
  BY <1>1 DEF Held, Paid, Committed
<1>4. /\ TotalHeld(s) = Total(h, n) /\ TotalHeld(r) = Total(h2, n + 1)
      /\ TotalPaid(s) = Total(p, n) /\ TotalPaid(r) = Total(p2, n + 1)
      /\ TotalCommitted(s) = Total(c, n) /\ TotalCommitted(r) = Total(c2, n + 1)
  BY <1>1 DEF TotalHeld, TotalPaid, TotalCommitted
<1>5. TotalPaid(s) \in Nat
  BY Balance
<1> HIDE DEF n, r, h, p, c, h2, p2, c2
<1>6. Total(h2, n) = Total(h, n) /\ Total(p2, n) = Total(p, n) /\ Total(c2, n) = Total(c, n)
  BY <1>1, <1>3, TotalSame
<1>7. /\ Total(h2, n + 1) = Total(h2, n) + h2[n + 1]
      /\ Total(p2, n + 1) = Total(p2, n) + p2[n + 1]
      /\ Total(c2, n + 1) = Total(c2, n) + c2[n + 1]
  BY <1>1, TotalStep
<1>8. /\ TotalHeld(r) = TotalHeld(s) + a.amount
      /\ TotalPaid(r) = TotalPaid(s)
      /\ TotalCommitted(r) = TotalCommitted(s) + a.amount
  BY <1>3, <1>4, <1>5, <1>6, <1>7
<1> QED
  BY <1>2, <1>8 DEF r

\* Replacing an unsettled attempt by one of the same amount, settled at
\* cost, moves its amount out of what is held and its cost into what is
\* paid, and commits no more than before.
LEMMA SettleTotals ==
    ASSUME NEW s \in Book, NEW k \in 1..Len(s), s[k].state # "settled",
           NEW a \in Attempt, a.state = "settled", a.cost # Unknown, a.amount = s[k].amount
    PROVE  LET r == [s EXCEPT ![k] = a]
           IN  /\ r \in Book
               /\ TotalHeld(r) = TotalHeld(s) - a.amount
               /\ TotalPaid(r) = TotalPaid(s) + a.cost
               /\ TotalCommitted(r) <= TotalCommitted(s)
<1> DEFINE n == Len(s)
           r == [s EXCEPT ![k] = a]
           h == [i \in 1..n |-> Held(s[i])]
           p == [i \in 1..n |-> Paid(s[i])]
           c == [i \in 1..n |-> Committed(s[i])]
           h2 == [i \in 1..n |-> Held(r[i])]
           p2 == [i \in 1..n |-> Paid(r[i])]
           c2 == [i \in 1..n |-> Committed(r[i])]
<1>1. /\ n \in Nat /\ k \in 1..n /\ r \in Seq(Attempt) /\ Len(r) = n
      /\ r[k] = a /\ \A i \in 1..n : i # k => r[i] = s[i]
  BY DEF Book
<1>2. r \in Book
  BY <1>1 DEF Book
<1>3. \A i \in 1..n : /\ s[i] \in Attempt /\ (s[i].state = "settled" <=> s[i].cost # Unknown)
                      /\ r[i] \in Attempt /\ (r[i].state = "settled" <=> r[i].cost # Unknown)
  BY <1>1, <1>2 DEF Book
<1>4. \A i \in 1..n : /\ h[i] \in Nat /\ p[i] \in Nat /\ c[i] \in Nat
                      /\ h2[i] \in Nat /\ p2[i] \in Nat /\ c2[i] \in Nat
  BY <1>3, Contributions
<1>5. \A i \in 1..n : i # k => h2[i] = h[i] /\ p2[i] = p[i] /\ c2[i] = c[i]
  BY <1>1
<1>6. /\ h[k] = a.amount /\ p[k] = 0 /\ c[k] = a.amount
      /\ h2[k] = 0 /\ p2[k] = a.cost /\ c2[k] <= a.amount
  BY <1>1, <1>3 DEF Held, Paid, Committed, Lesser, Attempt, Unknown
<1>7. /\ TotalHeld(s) = Total(h, n) /\ TotalHeld(r) = Total(h2, n)
      /\ TotalPaid(s) = Total(p, n) /\ TotalPaid(r) = Total(p2, n)
      /\ TotalCommitted(s) = Total(c, n) /\ TotalCommitted(r) = Total(c2, n)
  BY <1>1 DEF TotalHeld, TotalPaid, TotalCommitted
<1>8. /\ TotalHeld(s) \in Nat /\ TotalPaid(s) \in Nat /\ TotalCommitted(s) \in Nat
      /\ TotalHeld(r) \in Nat /\ TotalPaid(r) \in Nat /\ TotalCommitted(r) \in Nat
  BY <1>2, Balance
<1>9. a.amount \in Nat /\ a.cost \in Nat
  BY DEF Attempt, Unknown
<1> HIDE DEF n, r, h, p, c, h2, p2, c2
<1>10. Total(h2, n) = Total(h, n) + h2[k] - h[k]
  <2>1. /\ \A i \in 1..n : h[i] \in Nat /\ h2[i] \in Nat
        /\ \A i \in 1..n : i # k => h[i] = h2[i]
    BY <1>4, <1>5
  <2> QED
    BY <1>1, <2>1, TotalUpdate
<1>11. Total(p2, n) = Total(p, n) + p2[k] - p[k]
  <2>1. /\ \A i \in 1..n : p[i] \in Nat /\ p2[i] \in Nat
        /\ \A i \in 1..n : i # k => p[i] = p2[i]
    BY <1>4, <1>5
  <2> QED
    BY <1>1, <2>1, TotalUpdate
<1>12. Total(c2, n) = Total(c, n) + c2[k] - c[k]
  <2>1. /\ \A i \in 1..n : c[i] \in Nat /\ c2[i] \in Nat
        /\ \A i \in 1..n : i # k => c[i] = c2[i]
    BY <1>4, <1>5
  <2> QED
    BY <1>1, <2>1, TotalUpdate
<1>13. c2[k] \in Nat
  BY <1>1, <1>4
<1>14. /\ TotalHeld(r) = TotalHeld(s) - a.amount
       /\ TotalPaid(r) = TotalPaid(s) + a.cost
       /\ TotalCommitted(r) <= TotalCommitted(s)
  BY <1>6, <1>7, <1>8, <1>9, <1>10, <1>11, <1>12, <1>13
<1> QED
  BY <1>2, <1>14 DEF r
-----------------------------------------------------------------------------
\* The invariant gives every task a book whose totals are its columns.
LEMMA Books ==
    ASSUME IInv, NEW t \in Tasks
    PROVE  /\ attempts[t] \in Book
           /\ reserved[t] = TotalHeld(attempts[t]) /\ settled[t] = TotalPaid(attempts[t])
           /\ TotalCommitted(attempts[t]) <= total[t]
BY DEF IInv, TypeOK, CostsKnown, ColumnsMatch, CommittedInBudget, Book

\* An empty database satisfies the invariant.
LEMMA InitInvariant ==
    ASSUME LedgerAssumption, Init
    PROVE  IInv
<1>1. TypeOK
  BY DEF LedgerAssumption, Init, TypeOK, Statuses, Replies
<1>2. \A t \in Tasks : /\ Len(attempts[t]) = 0
                       /\ TotalHeld(attempts[t]) = 0 /\ TotalPaid(attempts[t]) = 0
                       /\ TotalCommitted(attempts[t]) = 0
  BY TotalZero DEF Init, TotalHeld, TotalPaid, TotalCommitted
<1> QED
  BY <1>1, <1>2 DEF LedgerAssumption, Init, IInv, CostsKnown, RowFirst, ColumnsMatch, CallLimit, CommittedInBudget

\* Steps that leave the attempts and the budget columns of existing rows
\* alone.
LEMMA QuietStep ==
    ASSUME IInv, TypeOK', UNCHANGED <<settled, reserved, calls, attempts>>,
           \A t \in Tasks : \/ total'[t] = total[t] /\ (status'[t] = "absent" => status[t] = "absent")
                            \/ status[t] = "absent" /\ status'[t] # "absent"
    PROVE  IInv'
<1>1. CostsKnown' /\ ColumnsMatch' /\ CallLimit'
  BY DEF IInv, CostsKnown, ColumnsMatch, CallLimit
<1>2. RowFirst'
  BY DEF IInv, RowFirst
<1>3. CommittedInBudget'
  <2> SUFFICES ASSUME NEW t \in Tasks
               PROVE  TotalCommitted(attempts[t]) <= total'[t]
    BY DEF CommittedInBudget
  <2>1. CASE total'[t] = total[t]
    BY <2>1 DEF IInv, CommittedInBudget
  <2>2. CASE status[t] = "absent"
    <3>1. attempts[t] = <<>>
      BY <2>2 DEF IInv, RowFirst
    <3>2. TotalCommitted(attempts[t]) = 0
      BY <3>1, TotalZero DEF TotalCommitted
    <3>3. total'[t] \in Nat
      BY DEF TypeOK
    <3> QED
      BY <3>2, <3>3
  <2> QED
    BY <2>1, <2>2
<1> QED
  BY <1>1, <1>2, <1>3 DEF IInv

\* Taking an answer changes nothing the invariant reads.
LEMMA ReturnInvariant ==
    ASSUME IInv, NEW kind \in Replies, Return(kind)
    PROVE  IInv'
<1>1. TypeOK'
  BY DEF IInv, TypeOK, Return, row, columns
<1> QED
  BY <1>1, QuietStep DEF Return, row, columns

\* A new task starts with nothing reserved and nothing settled.
LEMMA CreateInvariant ==
    ASSUME LedgerAssumption, IInv, NEW t \in Tasks, NEW b \in Budgets, CreateSubmission(t, b)
    PROVE  IInv'
<1>1. CASE Return("configuration")
  BY <1>1, ReturnInvariant DEF Replies
<1>2. CASE ~Return("configuration")
  <2> USE <1>2 DEF CreateSubmission
  <2>1. TypeOK'
    BY DEF LedgerAssumption, IInv, TypeOK, Statuses, Replies
  <2>2. \A u \in Tasks : \/ total'[u] = total[u] /\ (status'[u] = "absent" => status[u] = "absent")
                         \/ status[u] = "absent" /\ status'[u] # "absent"
    BY DEF IInv, TypeOK
  <2> QED
    BY <2>1, <2>2, QuietStep
<1> QED
  BY <1>1, <1>2

\* Saving a plan touches neither columns nor attempts.
LEMMA SavePlanInvariant ==
    ASSUME IInv, NEW t \in Tasks, NEW p \in Phases, SavePlan(t, p)
    PROVE  IInv'
<1>1. CASE Return("storage")
  BY <1>1, ReturnInvariant DEF Replies
<1>2. CASE ~Return("storage")
  <2>1. TypeOK'
    BY <1>2 DEF IInv, TypeOK, SavePlan, columns, Replies
  <2> QED
    BY <1>2, <2>1, QuietStep DEF SavePlan, columns
<1> QED
  BY <1>1, <1>2

\* Nor does saving a checkpoint.
LEMMA CheckpointInvariant ==
    ASSUME IInv, NEW t \in Tasks, NEW p \in Phases, Checkpoint(t, p)
    PROVE  IInv'
<1>1. TypeOK'
  BY DEF IInv, TypeOK, Checkpoint, columns, Replies
<1> QED
  BY <1>1, QuietStep DEF Checkpoint, columns

\* Nor does writing the final status.
LEMMA FinishInvariant ==
    ASSUME IInv, NEW t \in Tasks, NEW s \in Terminal, Finish(t, s)
    PROVE  IInv'
<1>1. TypeOK'
  BY DEF IInv, TypeOK, Finish, columns, Replies, Statuses
<1>2. \A u \in Tasks : total'[u] = total[u] /\ (status'[u] = "absent" => status[u] = "absent")
  BY DEF IInv, TypeOK, Finish, columns, Terminal
<1> QED
  BY <1>1, <1>2, QuietStep DEF Finish, columns
\* A reservation adds the same amount to the column and to the attempts.
LEMMA ReserveInvariant ==
    ASSUME LedgerAssumption, IInv, NEW t \in Tasks, NEW a \in Amounts, Reserve(t, a)
    PROVE  IInv'
<1>1. CASE \E kind \in Replies : Return(kind)
  BY <1>1, ReturnInvariant
<1>2. CASE ~\E kind \in Replies : Return(kind)
  <2> DEFINE new == [amount |-> a, cost |-> Unknown, state |-> "pending", outcome |-> {}]
  <2>1. /\ status[t] = "running" /\ a <= Available(t) /\ calls[t] < MaxCalls
        /\ attempts' = [attempts EXCEPT ![t] = Append(@, new)]
        /\ reserved' = [reserved EXCEPT ![t] = @ + a]
        /\ calls'    = [calls EXCEPT ![t] = @ + 1]
        /\ reply'    = "ok"
        /\ UNCHANGED <<status, total, settled, plan, checkpoint>>
    BY <1>2 DEF Reserve, Replies, Accepts, HasRoom
  <2>2. new \in Attempt /\ a \in Nat
    BY DEF LedgerAssumption, Attempt, Evidence
  <2>3. \A u \in Tasks : attempts'[u] = IF u = t THEN Append(attempts[t], new) ELSE attempts[u]
    BY <2>1 DEF IInv, TypeOK
  <2>4. /\ attempts[t] \in Book /\ Append(attempts[t], new) \in Book
        /\ TotalHeld(Append(attempts[t], new)) = TotalHeld(attempts[t]) + a
        /\ TotalPaid(Append(attempts[t], new)) = TotalPaid(attempts[t])
        /\ TotalCommitted(Append(attempts[t], new)) = TotalCommitted(attempts[t]) + a
    BY <2>2, Books, AppendTotals
  <2> HIDE DEF new
  <2>5. total[t] \in 0..MaxLedger /\ settled[t] \in 0..MaxLedger /\ reserved[t] \in 0..MaxLedger
        /\ calls[t] \in Nat /\ MaxLedger \in Nat /\ MaxCalls \in Nat
    BY DEF IInv, TypeOK, LedgerAssumption
  <2>6. a = 0 \/ settled[t] + reserved[t] + a <= total[t]
    BY <2>1, <2>2, <2>5 DEF Available, Excess
  <2>7. TotalCommitted(attempts[t]) + a <= total[t]
    <3>1. /\ reserved[t] = TotalHeld(attempts[t]) /\ settled[t] = TotalPaid(attempts[t])
          /\ TotalCommitted(attempts[t]) <= total[t]
      BY Books
    <3>2. /\ TotalCommitted(attempts[t]) \in Nat /\ TotalExcess(attempts[t]) \in Nat
          /\ TotalHeld(attempts[t]) + TotalPaid(attempts[t])
                 = TotalCommitted(attempts[t]) + TotalExcess(attempts[t])
      BY <2>4, Balance
    <3> QED
      BY <2>2, <2>5, <2>6, <3>1, <3>2
  <2>8. reserved[t] + a \in 0..MaxLedger
    BY <2>2, <2>5, <2>6
  <2>9. Append(attempts[t], new) \in Seq(Attempt) /\ Len(Append(attempts[t], new)) = Len(attempts[t]) + 1
    BY <2>2, AppendProperties DEF IInv, TypeOK
  <2>10. TypeOK'
    BY <2>1, <2>3, <2>5, <2>8, <2>9 DEF IInv, TypeOK, Replies
  <2>11. CostsKnown'
    <3>1. \A u \in Tasks : attempts'[u] \in Book
      BY <2>3, <2>4, Books
    <3> QED
      BY <3>1 DEF CostsKnown, Book
  <2>12. RowFirst'
    BY <2>1, <2>3 DEF IInv, RowFirst, TypeOK
  <2>13. ColumnsMatch'
    BY <2>1, <2>3, <2>4 DEF IInv, TypeOK, ColumnsMatch
  <2>14. CallLimit'
    BY <2>1, <2>3, <2>5, <2>9 DEF IInv, TypeOK, CallLimit
  <2>15. CommittedInBudget'
    BY <2>1, <2>3, <2>4, <2>7 DEF IInv, CommittedInBudget
  <2> QED
    BY <2>10, <2>11, <2>12, <2>13, <2>14, <2>15 DEF IInv
<1> QED
  BY <1>1, <1>2

\* A settlement moves an amount between columns as it does between attempts.
LEMMA SettleInvariant ==
    ASSUME LedgerAssumption, IInv, NEW t \in Tasks, NEW k \in 1..Len(attempts[t]),
           NEW cost \in Costs \cup {Unknown}, NEW evidence \in Evidence,
           SettleAttempt(t, k, cost, evidence)
    PROVE  IInv'
<1> DEFINE s == attempts[t]
           a == s[k]
           new(state) == [amount |-> a.amount, cost |-> cost,
                          state |-> state, outcome |-> Resolve(a, evidence)]
<1>1. s \in Book /\ s \in Seq(Attempt) /\ a \in Attempt /\ Len(s) \in Nat
      /\ (a.state = "settled" <=> a.cost # Unknown)
  BY Books DEF IInv, TypeOK, Book
<1>2. Resolve(a, evidence) \subseteq Evidence
  BY <1>1 DEF Resolve, Evidence, Attempt
<1>3. cost = Unknown \/ cost \in Nat
  BY DEF LedgerAssumption
<1>4. \A st \in {"unresolved", "settled"} : new(st) \in Attempt
  BY <1>1, <1>2, <1>3 DEF Attempt
<1>5. /\ total[t] \in 0..MaxLedger /\ settled[t] \in 0..MaxLedger
      /\ reserved[t] \in 0..MaxLedger /\ MaxLedger \in Nat
  BY DEF IInv, TypeOK, LedgerAssumption
<1>6. CASE \E kind \in Replies : Return(kind)
  BY <1>6, ReturnInvariant
<1>7. CASE /\ a.state # "settled" /\ cost # Unknown /\ settled[t] + cost <= MaxLedger
           /\ settled'  = [settled EXCEPT ![t] = @ + cost]
           /\ reserved' = [reserved EXCEPT ![t] = @ - a.amount]
           /\ attempts' = [attempts EXCEPT ![t] = [@ EXCEPT ![k] = new("settled")]]
           /\ reply' \in Replies
           /\ UNCHANGED <<status, total, calls, plan, checkpoint>>
  <2> DEFINE r == [s EXCEPT ![k] = new("settled")]
  <2>1. r \in Book /\ /\ TotalHeld(r) = TotalHeld(s) - a.amount
                      /\ TotalPaid(r) = TotalPaid(s) + cost
                      /\ TotalCommitted(r) <= TotalCommitted(s)
    <3>1. new("settled") \in Attempt /\ new("settled").state = "settled"
          /\ new("settled").cost = cost /\ new("settled").amount = a.amount
      BY <1>4
    <3> HIDE DEF new
    <3> QED
      BY <1>1, <1>7, <3>1, SettleTotals
  <2>2. r \in Seq(Attempt) /\ Len(r) = Len(s)
    BY <1>1, <1>4
  <2>3. \A u \in Tasks : attempts'[u] = IF u = t THEN r ELSE attempts[u]
    BY <1>7 DEF IInv, TypeOK
  <2>4. /\ reserved[t] = TotalHeld(s) /\ settled[t] = TotalPaid(s) /\ TotalCommitted(s) <= total[t]
        /\ TotalHeld(s) \in Nat /\ TotalCommitted(s) \in Nat /\ TotalCommitted(r) \in Nat
        /\ TotalHeld(r) \in Nat
    BY <1>1, <2>1, Books, Balance
  <2>5. a.amount \in Nat
    BY <1>1 DEF Attempt
  <2> HIDE DEF r, new, a, s
  <2>6. reserved[t] - a.amount \in 0..MaxLedger /\ settled[t] + cost \in 0..MaxLedger
    BY <1>3, <1>5, <1>7, <2>1, <2>4, <2>5
  <2>7. TypeOK'
    BY <1>7, <2>2, <2>3, <2>6 DEF IInv, TypeOK
  <2>8. CostsKnown'
    <3>1. \A u \in Tasks : attempts'[u] \in Book
      BY <2>1, <2>3, Books
    <3> QED
      BY <3>1 DEF CostsKnown, Book
  <2>9. RowFirst'
    <3>1. status[t] # "absent"
      BY <1>1 DEF IInv, RowFirst
    <3> QED
      BY <1>7, <2>3, <3>1 DEF IInv, RowFirst, TypeOK
  <2>10. ColumnsMatch'
    BY <1>7, <2>1, <2>3, <2>4 DEF IInv, TypeOK, ColumnsMatch
  <2>11. CallLimit'
    BY <1>7, <2>2, <2>3 DEF IInv, TypeOK, CallLimit
  <2>12. CommittedInBudget'
    <3> SUFFICES ASSUME NEW u \in Tasks
                 PROVE  TotalCommitted(attempts'[u]) <= total'[u]
      BY DEF CommittedInBudget
    <3>1. CASE u = t
      <4>1. attempts'[u] = r /\ total'[u] = total[t]
        BY <1>7, <2>3, <3>1
      <4>2. TotalCommitted(r) <= total[t]
        BY <1>5, <2>1, <2>4
      <4> QED
        BY <4>1, <4>2
    <3>2. CASE u # t
      BY <1>7, <2>3, <3>2 DEF IInv, CommittedInBudget
    <3> QED
      BY <3>1, <3>2
  <2> QED
    BY <2>7, <2>8, <2>9, <2>10, <2>11, <2>12 DEF IInv
<1>8. CASE /\ a.state # "settled" /\ cost = Unknown
           /\ attempts' = [attempts EXCEPT ![t] = [@ EXCEPT ![k] = new("unresolved")]]
           /\ reply' = "ok" /\ UNCHANGED row
  <2> DEFINE r == [s EXCEPT ![k] = new("unresolved")]
  <2>1. r \in Seq(Attempt) /\ Len(r) = Len(s)
    BY <1>1, <1>4
  <2>2. \A u \in Tasks : attempts'[u] = IF u = t THEN r ELSE attempts[u]
    BY <1>8 DEF IInv, TypeOK
  <2>3. \A i \in 1..Len(s) : /\ Held(r[i]) = Held(s[i]) /\ Paid(r[i]) = Paid(s[i])
                             /\ Committed(r[i]) = Committed(s[i])
                             /\ (r[i].state = "settled" <=> r[i].cost # Unknown)
    BY <1>1, <1>8 DEF Held, Paid, Committed, Book
  <2> HIDE DEF r, new, a
  <2>4. TotalHeld(r) = TotalHeld(s) /\ TotalPaid(r) = TotalPaid(s) /\ TotalCommitted(r) = TotalCommitted(s)
    <3>1. /\ [i \in 1..Len(r) |-> Held(r[i])] = [i \in 1..Len(s) |-> Held(s[i])]
          /\ [i \in 1..Len(r) |-> Paid(r[i])] = [i \in 1..Len(s) |-> Paid(s[i])]
          /\ [i \in 1..Len(r) |-> Committed(r[i])] = [i \in 1..Len(s) |-> Committed(s[i])]
      BY <2>1, <2>3
    <3> QED
      BY <2>1, <3>1 DEF TotalHeld, TotalPaid, TotalCommitted
  <2>5. TypeOK'
    BY <1>8, <2>1, <2>2 DEF IInv, TypeOK, Replies, row, columns
  <2>6. CostsKnown'
    BY <2>1, <2>2, <2>3 DEF IInv, CostsKnown
  <2>7. RowFirst'
    <3>1. status[t] # "absent"
      BY <1>1 DEF IInv, RowFirst
    <3> QED
      BY <1>8, <2>2, <3>1 DEF IInv, RowFirst, row, columns
  <2>8. ColumnsMatch' /\ CommittedInBudget'
    BY <1>8, <2>2, <2>4 DEF IInv, ColumnsMatch, CommittedInBudget, row, columns
  <2>9. CallLimit'
    BY <1>8, <2>1, <2>2 DEF IInv, CallLimit, row, columns
  <2> QED
    BY <2>5, <2>6, <2>7, <2>8, <2>9 DEF IInv
<1> QED
  BY <1>6, <1>7, <1>8 DEF SettleAttempt, Replies, AlreadySettled, Repeated, Release, Return
-----------------------------------------------------------------------------
\* Every method of the store preserves the invariant.
LEMMA StepInvariant ==
    ASSUME LedgerAssumption, IInv, [Next]_vars
    PROVE  IInv'
<1>1. CASE UNCHANGED vars
  <2>1. TypeOK'
    BY <1>1 DEF IInv, TypeOK, vars, row, columns
  <2> QED
    BY <1>1, <2>1, QuietStep DEF vars, row, columns
<1>2. CASE Next
  <2> PICK t \in Tasks :
        \/ \E b \in Budgets : CreateSubmission(t, b)
        \/ \E p \in Phases : SavePlan(t, p) \/ Checkpoint(t, p)
        \/ \E s \in Terminal : Finish(t, s)
        \/ \E a \in Amounts : Reserve(t, a)
        \/ \E i \in 1..Len(attempts[t]) :
             \/ \E c \in Costs \cup {Unknown} : Settle(t, i, c)
             \/ \E c \in Costs, e \in BOOLEAN : Reconcile(t, i, c, e)
    BY <1>2 DEF Next
  <2>1. CASE \E b \in Budgets : CreateSubmission(t, b)
    BY <2>1, CreateInvariant
  <2>2. CASE \E p \in Phases : SavePlan(t, p)
    BY <2>2, SavePlanInvariant
  <2>3. CASE \E p \in Phases : Checkpoint(t, p)
    BY <2>3, CheckpointInvariant
  <2>4. CASE \E s \in Terminal : Finish(t, s)
    BY <2>4, FinishInvariant
  <2>5. CASE \E a \in Amounts : Reserve(t, a)
    BY <2>5, ReserveInvariant
  <2>6. CASE \E i \in 1..Len(attempts[t]), c \in Costs \cup {Unknown} : Settle(t, i, c)
    BY <2>6, SettleInvariant DEF Settle, Evidence
  <2>7. CASE \E i \in 1..Len(attempts[t]), c \in Costs, e \in BOOLEAN : Reconcile(t, i, c, e)
    <3> PICK i \in 1..Len(attempts[t]), c \in Costs, e \in BOOLEAN : Reconcile(t, i, c, e)
      BY <2>7
    <3>1. CASE Return("recovery")
      BY <3>1, ReturnInvariant DEF Replies
    <3>2. CASE SettleAttempt(t, i, c, "reconciliation")
      BY <3>2, SettleInvariant DEF Evidence
    <3> QED
      BY <3>1, <3>2 DEF Reconcile
  <2> QED
    BY <2>1, <2>2, <2>3, <2>4, <2>5, <2>6, <2>7
<1> QED
  BY <1>1, <1>2

\* The invariant holds in every state the store can reach.
THEOREM Inductive == Spec => []IInv
<1>1. Init => IInv
  BY InitInvariant, LedgerAssumption
<1>2. IInv /\ [Next]_vars => IInv'
  BY StepInvariant, LedgerAssumption
<1> QED
  BY <1>1, <1>2, PTL DEF Spec

\* The rows of the store always have their declared shape; in particular no
\* column ever leaves the range 0..i64::MAX, whatever costs are reported.
THEOREM TypeCorrect == Spec => []TypeOK
<1>1. IInv => TypeOK
  BY DEF IInv
<1> QED
  BY <1>1, Inductive, PTL

\* The two running columns are the sums they stand for.
THEOREM ColumnsAreTotals == Spec => []ColumnsMatch
<1>1. IInv => ColumnsMatch
  BY DEF IInv
<1> QED
  BY <1>1, Inductive, PTL

\* At most max_calls calls are ever authorised for a task.
THEOREM CallsLimited == Spec => []CallLimit
<1>1. IInv => CallLimit
  BY DEF IInv
<1> QED
  BY <1>1, Inductive, PTL

\* A task exceeds its budget only by what its providers charged above the
\* declared reservations.
THEOREM BudgetBounded == Spec => []WithinBudget
<1>1. IInv => WithinBudget
  <2> SUFFICES ASSUME IInv, NEW t \in Tasks
               PROVE  settled[t] + reserved[t] <= total[t] + TotalExcess(attempts[t])
    BY DEF WithinBudget
  <2>1. /\ attempts[t] \in Book
        /\ reserved[t] = TotalHeld(attempts[t]) /\ settled[t] = TotalPaid(attempts[t])
        /\ TotalCommitted(attempts[t]) <= total[t]
    BY Books
  <2>2. total[t] \in Nat
    BY DEF IInv, TypeOK
  <2> QED
    BY <2>1, <2>2, Balance
<1> QED
  BY <1>1, Inductive, PTL

-----------------------------------------------------------------------------
\* What a step can be, whichever method made it: nothing an account is about,
\* a new task, a final status, a reservation, or an answer to a call.
Quiet == UNCHANGED <<status, total, settled, reserved, attempts>>

Opens(t, b) ==
    /\ status[t] = "absent" /\ b \in Budgets
    /\ status' = [status EXCEPT ![t] = "running"]
    /\ total'  = [total EXCEPT ![t] = b]
    /\ UNCHANGED <<settled, reserved, attempts>>

Closes(t, s) ==
    /\ status[t] # "absent" /\ s \in Terminal
    /\ status' = [status EXCEPT ![t] = s]
    /\ UNCHANGED <<total, settled, reserved, attempts>>

Reserved(a) == [amount |-> a, cost |-> Unknown, state |-> "pending", outcome |-> {}]

Grants(t, a) ==
    /\ status[t] = "running" /\ a \in Amounts
    /\ a <= Available(t) /\ HasRoom(t)
    /\ attempts' = [attempts EXCEPT ![t] = Append(@, Reserved(a))]
    /\ reserved' = [reserved EXCEPT ![t] = @ + a]
    /\ UNCHANGED <<status, total, settled>>

Answered(a, cost, state, evidence) ==
    [amount |-> a.amount, cost |-> cost, state |-> state, outcome |-> Resolve(a, evidence)]

Answers(t, i, cost, state, evidence) ==
    /\ attempts[t][i].state # "settled" /\ evidence \in Evidence
    /\ attempts' = [attempts EXCEPT ![t] = [@ EXCEPT ![i] =
                       Answered(attempts[t][i], cost, state, evidence)]]
    /\ UNCHANGED <<status, total>>
    /\ \/ /\ state = "settled" /\ cost \in Costs
          /\ settled'  = [settled EXCEPT ![t] = @ + cost]
          /\ reserved' = [reserved EXCEPT ![t] = @ - attempts[t][i].amount]
       \/ /\ state = "unresolved" /\ cost = Unknown
          /\ UNCHANGED <<settled, reserved>>

Effect(t) ==
    \/ Quiet
    \/ \E b \in Budgets : Opens(t, b)
    \/ \E s \in Terminal : Closes(t, s)
    \/ \E a \in Amounts : Grants(t, a)
    \/ \E i \in 1..Len(attempts[t]), c \in Costs \cup {Unknown},
          s \in {"unresolved", "settled"}, e \in Evidence : Answers(t, i, c, s, e)

\* Whoever answers a call, the attempt changes in one of these ways.
LEMMA SettleEffect ==
    ASSUME NEW t \in Tasks, NEW i \in 1..Len(attempts[t]), NEW c \in Costs \cup {Unknown},
           NEW e \in Evidence, SettleAttempt(t, i, c, e)
    PROVE  Effect(t)
<1>1. CASE \E kind : Return(kind)
  BY <1>1 DEF Return, row, columns, Effect, Quiet
<1>2. CASE ~\E kind : Return(kind)
  <2>1. \E s \in {"unresolved", "settled"} : Answers(t, i, c, s, e)
    BY <1>2 DEF SettleAttempt, Answers, Answered, AlreadySettled, Release, row, columns
  <2> QED
    BY <2>1 DEF Effect
<1> QED
  BY <1>1, <1>2

\* Every method of the store has one of these effects, on one task.
LEMMA StepEffect ==
    ASSUME LedgerAssumption, Next
    PROVE  \E t \in Tasks : Effect(t)
<1> PICK t \in Tasks :
      \/ \E b \in Budgets : CreateSubmission(t, b)
      \/ \E p \in Phases : SavePlan(t, p) \/ Checkpoint(t, p)
      \/ \E s \in Terminal : Finish(t, s)
      \/ \E a \in Amounts : Reserve(t, a)
      \/ \E i \in 1..Len(attempts[t]) :
           \/ \E c \in Costs \cup {Unknown} : Settle(t, i, c)
           \/ \E c \in Costs, e \in BOOLEAN : Reconcile(t, i, c, e)
  BY DEF Next
<1>1. CASE \E b \in Budgets : CreateSubmission(t, b)
  BY <1>1 DEF CreateSubmission, Return, row, columns, Effect, Quiet, Opens
<1>2. CASE \E p \in Phases : SavePlan(t, p) \/ Checkpoint(t, p)
  BY <1>2 DEF SavePlan, Checkpoint, Return, row, columns, Effect, Quiet
<1>3. CASE \E s \in Terminal : Finish(t, s)
  BY <1>3 DEF Finish, columns, Effect, Closes
<1>4. CASE \E a \in Amounts : Reserve(t, a)
  <2> PICK a \in Amounts : Reserve(t, a)
    BY <1>4
  <2>1. CASE \E kind : Return(kind)
    BY <2>1 DEF Return, row, columns, Effect, Quiet
  <2>2. CASE ~\E kind : Return(kind)
    <3>1. Grants(t, a)
      BY <2>2 DEF Reserve, Grants, Accepts, Reserved
    <3> QED
      BY <3>1 DEF Effect
  <2> QED
    BY <2>1, <2>2
<1>5. CASE \E i \in 1..Len(attempts[t]), c \in Costs \cup {Unknown} : Settle(t, i, c)
  BY <1>5, SettleEffect DEF Settle, Evidence
<1>6. CASE \E i \in 1..Len(attempts[t]), c \in Costs, e \in BOOLEAN : Reconcile(t, i, c, e)
  <2> PICK i \in 1..Len(attempts[t]), c \in Costs, e \in BOOLEAN : Reconcile(t, i, c, e)
    BY <1>6
  <2>1. CASE Return("recovery")
    BY <2>1 DEF Return, row, columns, Effect, Quiet
  <2>2. CASE SettleAttempt(t, i, c, "reconciliation")
    BY <2>2, SettleEffect DEF Evidence
  <2> QED
    BY <2>1, <2>2 DEF Reconcile
<1> QED
  BY <1>1, <1>2, <1>3, <1>4, <1>5, <1>6

-----------------------------------------------------------------------------
\* No late settlement or reconciliation rewrites what a settled attempt
\* holds, nor loses the record of a call.
THEOREM EvidenceIsFinal == Spec => EvidenceFinal
<1> DEFINE Kept == \A t \in Tasks : \A i \in 1..Len(attempts[t]) :
          /\ attempts[t][i].state = "settled" => attempts'[t][i] = attempts[t][i]
          /\ attempts[t][i].outcome \ {"reconciliation"} \subseteq attempts'[t][i].outcome
<1>1. ASSUME IInv, [Next]_vars
      PROVE  Kept
  <2>1. CASE UNCHANGED attempts
    BY <2>1
  <2>2. ASSUME NEW t \in Tasks, Effect(t)
        PROVE  Kept
    <3>0. attempts \in [Tasks -> Seq(Attempt)]
      BY <1>1 DEF IInv, TypeOK
    <3>1. ASSUME NEW a \in Amounts, Grants(t, a)
          PROVE  Kept
      <4>1. \A u \in Tasks : attempts'[u] = IF u = t THEN Append(attempts[t], Reserved(a))
                                                    ELSE attempts[u]
        BY <3>0, <3>1 DEF Grants
      <4>2. \A i \in 1..Len(attempts[t]) : Append(attempts[t], Reserved(a))[i] = attempts[t][i]
        BY <3>0
      <4> QED
        BY <4>1, <4>2
    <3>2. ASSUME NEW k \in 1..Len(attempts[t]), NEW c, NEW s, NEW e, Answers(t, k, c, s, e)
          PROVE  Kept
      <4> DEFINE a == attempts[t][k]
                 b == Answered(a, c, s, e)
      <4>1. /\ \A u \in Tasks : u # t => attempts'[u] = attempts[u]
            /\ \A i \in 1..Len(attempts[t]) :
                  attempts'[t][i] = IF i = k THEN b ELSE attempts[t][i]
        BY <3>0, <3>2 DEF Answers
      <4>2. a.state # "settled" /\ e \in Evidence
        BY <3>2 DEF Answers
      <4>3. a.outcome \subseteq Evidence
        <5>1. a \in Attempt
          BY <3>0
        <5> QED
          BY <5>1 DEF Attempt
      <4>4. a.outcome \ {"reconciliation"} \subseteq b.outcome
        BY <4>2, <4>3 DEF Answered, Resolve, Evidence
      <4> HIDE DEF a, b
      <4>5. \A i \in 1..Len(attempts[t]) :
               /\ attempts[t][i].state = "settled" => attempts'[t][i] = attempts[t][i]
               /\ attempts[t][i].outcome \ {"reconciliation"} \subseteq attempts'[t][i].outcome
        BY <4>1, <4>2, <4>4 DEF a
      <4> QED
        BY <4>1, <4>5
    <3> QED
      BY <2>1, <2>2, <3>1, <3>2 DEF Effect, Quiet, Opens, Closes
  <2> QED
    BY <1>1, <2>1, <2>2, StepEffect, LedgerAssumption DEF vars
<1> QED
  BY <1>1, Inductive, PTL DEF Spec, EvidenceFinal

\* A task that is off the recovery list is billed for good.
THEOREM BillsAreFinal == Spec => BillIsFinal
<1> DEFINE Billed == \A t \in Tasks : status[t] # "absent" /\ t \notin Records
          => settled'[t] = settled[t] /\ attempts'[t] = attempts[t]
<1>1. ASSUME IInv, [Next]_vars
      PROVE  Billed
  <2>1. CASE UNCHANGED <<settled, attempts>>
    BY <2>1
  <2>2. ASSUME NEW t \in Tasks, Effect(t)
        PROVE  Billed
    <3>0. attempts \in [Tasks -> Seq(Attempt)] /\ settled \in [Tasks -> 0..MaxLedger]
      BY <1>1 DEF IInv, TypeOK
    <3>1. ASSUME NEW a \in Amounts, Grants(t, a)
          PROVE  Billed
      BY <3>0, <3>1 DEF Grants, Records
    <3>2. ASSUME NEW k \in 1..Len(attempts[t]), NEW c, NEW s, NEW e, Answers(t, k, c, s, e)
          PROVE  Billed
      <4>1. attempts[t][k].state \in {"pending", "unresolved"}
        <5>1. attempts[t][k] \in Attempt
          BY <3>0
        <5> QED
          BY <3>2, <5>1 DEF Answers, Attempt
      <4>2. t \in Records
        BY <4>1 DEF Records
      <4>3. \A u \in Tasks : u # t => settled'[u] = settled[u] /\ attempts'[u] = attempts[u]
        BY <3>0, <3>2 DEF Answers
      <4> QED
        BY <4>2, <4>3
    <3> QED
      BY <2>1, <2>2, <3>1, <3>2 DEF Effect, Quiet, Opens, Closes
  <2> QED
    BY <1>1, <2>1, <2>2, StepEffect, LedgerAssumption DEF vars, row, columns
<1> QED
  BY <1>1, Inductive, PTL DEF Spec, BillIsFinal

-----------------------------------------------------------------------------
\* What was reserved is an amount some caller asked for.
AmountsAsked == \A t \in Tasks : \A i \in 1..Len(attempts[t]) : attempts[t][i].amount \in Amounts

\* Answers keep the amount of their attempt.
LEMMA AmountsStep ==
    ASSUME LedgerAssumption, IInv, AmountsAsked, [Next]_vars
    PROVE  AmountsAsked'
<1>0. attempts \in [Tasks -> Seq(Attempt)]
  BY DEF IInv, TypeOK
<1>1. CASE UNCHANGED attempts
  BY <1>1 DEF AmountsAsked
<1>2. ASSUME NEW t \in Tasks, Effect(t)
      PROVE  AmountsAsked'
  <2>1. ASSUME NEW a \in Amounts, Grants(t, a)
        PROVE  AmountsAsked'
    <3>1. \A u \in Tasks : attempts'[u] = IF u = t THEN Append(attempts[t], Reserved(a))
                                                  ELSE attempts[u]
      BY <1>0, <2>1 DEF Grants
    <3>2. /\ Len(Append(attempts[t], Reserved(a))) = Len(attempts[t]) + 1
          /\ \A i \in 1..(Len(attempts[t]) + 1) :
                Append(attempts[t], Reserved(a))[i] =
                   IF i \in 1..Len(attempts[t]) THEN attempts[t][i] ELSE Reserved(a)
      BY <1>0
    <3>3. Reserved(a).amount = a
      BY DEF Reserved
    <3> QED
      BY <3>1, <3>2, <3>3 DEF AmountsAsked
  <2>2. ASSUME NEW k \in 1..Len(attempts[t]), NEW c, NEW s, NEW e, Answers(t, k, c, s, e)
        PROVE  AmountsAsked'
    <3>1. /\ \A u \in Tasks : u # t => attempts'[u] = attempts[u]
          /\ Len(attempts'[t]) = Len(attempts[t])
          /\ \A i \in 1..Len(attempts[t]) :
                attempts'[t][i] = IF i = k THEN Answered(attempts[t][k], c, s, e)
                                           ELSE attempts[t][i]
      BY <1>0, <2>2 DEF Answers
    <3>2. Answered(attempts[t][k], c, s, e).amount = attempts[t][k].amount
      BY DEF Answered
    <3> QED
      BY <3>1, <3>2 DEF AmountsAsked
  <2> QED
    BY <1>1, <1>2, <2>1, <2>2 DEF Effect, Quiet, Opens, Closes
<1> QED
  BY <1>1, <1>2, StepEffect DEF vars

\* The claim an attempt is, before and after a step.
ClaimIn(s, i) == IF i > Len(s) THEN <<>>
                 ELSE IF s[i].state = "settled" THEN <<s[i].amount, s[i].cost>>
                                                ELSE <<s[i].amount>>

LEMMA ClaimsOf ==
    \A t \in Tasks, i \in ClaimIds : /\ ClaimOf[t][i]  = ClaimIn(attempts[t], i)
                                     /\ ClaimOf'[t][i] = ClaimIn(attempts'[t], i)
  BY DEF ClaimOf, ClaimIn

\* Claims that differ in one place differ by that place only.
LEMMA ClaimsChange ==
    ASSUME NEW t \in Tasks, NEW k \in ClaimIds, NEW v,
           \A u \in Tasks : u # t => attempts'[u] = attempts[u],
           \A i \in ClaimIds : ClaimIn(attempts'[t], i) =
                                  IF i = k THEN v ELSE ClaimIn(attempts[t], i)
    PROVE  ClaimOf' = [ClaimOf EXCEPT ![t] = [@ EXCEPT ![k] = v]]
<1>1. /\ ClaimOf  = [u \in Tasks |-> [i \in ClaimIds |-> ClaimIn(attempts[u], i)]]
      /\ ClaimOf' = [u \in Tasks |-> [i \in ClaimIds |-> ClaimIn(attempts'[u], i)]]
  BY DEF ClaimOf, ClaimIn
<1> QED
  BY <1>1

\* An empty database is the account before anything is opened.
LEMMA InitRefines == LedgerAssumption /\ Init => A!AccountInit
<1> SUFFICES ASSUME LedgerAssumption, Init
             PROVE  A!AccountInit
  OBVIOUS
<1>1. AccountOf = [t \in Tasks |-> "none"]
  BY DEF Init, AccountOf
<1>2. RemainingOf = [t \in Tasks |-> 0]
  BY DEF Init, RemainingOf
<1>3. ClaimOf = [t \in Tasks |-> [i \in ClaimIds |-> <<>>]]
  <2>1. \A t \in Tasks : Len(attempts[t]) = 0
    BY DEF Init
  <2>2. \A i \in ClaimIds : i > 0
    BY DEF ClaimIds, LedgerAssumption
  <2> QED
    BY <2>1, <2>2 DEF ClaimOf
<1> QED
  BY <1>1, <1>2, <1>3 DEF A!AccountInit, A!Unused

\* A new task opens the account with its budget.
LEMMA OpensRefines ==
    ASSUME LedgerAssumption, IInv, NEW t \in Tasks, NEW b \in Budgets, Opens(t, b)
    PROVE  A!Open(t, b)
<1>1. /\ status[t] = "absent" /\ settled[t] = 0 /\ reserved[t] = 0
      /\ status \in [Tasks -> Statuses] /\ total \in [Tasks -> 0..MaxLedger] /\ b \in Nat
  BY DEF Opens, IInv, RowFirst, TypeOK, LedgerAssumption
<1>2. AccountOf[t] = "none"
  BY <1>1 DEF AccountOf
<1>3. AccountOf' = [AccountOf EXCEPT ![t] = "open"]
  BY <1>1 DEF Opens, AccountOf
<1>4. RemainingOf' = [RemainingOf EXCEPT ![t] = b]
  <2>1. \A u \in Tasks : total'[u] - settled'[u] - reserved'[u] =
            IF u = t THEN b ELSE total[u] - settled[u] - reserved[u]
    BY <1>1 DEF Opens
  <2> QED
    BY <2>1 DEF RemainingOf
<1>5. ClaimOf' = ClaimOf
  BY DEF Opens, ClaimOf
<1> QED
  BY <1>2, <1>3, <1>4, <1>5 DEF A!Open

\* A final status closes the account, once or again.
LEMMA ClosesRefines ==
    ASSUME IInv, NEW t \in Tasks, NEW s \in Terminal, Closes(t, s)
    PROVE  A!Close(t)
<1>1. status[t] # "absent" /\ status \in [Tasks -> Statuses]
  BY DEF Closes, IInv, TypeOK
<1>2. AccountOf[t] # "none"
  BY <1>1 DEF AccountOf
<1>3. AccountOf' = [AccountOf EXCEPT ![t] = "closed"]
  BY <1>1 DEF Closes, AccountOf, Terminal
<1>4. RemainingOf' = RemainingOf /\ ClaimOf' = ClaimOf
  BY DEF Closes, RemainingOf, ClaimOf
<1> QED
  BY <1>2, <1>3, <1>4 DEF A!Close

\* A reservation is a claim granted out of what remains: the next id is free,
\* and the limit on calls is the number of ids.
LEMMA GrantsRefines ==
    ASSUME LedgerAssumption, IInv, NEW t \in Tasks, NEW a \in Amounts, Grants(t, a)
    PROVE  \E i \in ClaimIds : A!Grant(t, i, a)
<1> DEFINE n == Len(attempts[t]) + 1
<1>1. /\ attempts \in [Tasks -> Seq(Attempt)] /\ reserved \in [Tasks -> 0..MaxLedger]
      /\ settled[t] \in 0..MaxLedger /\ total[t] \in 0..MaxLedger /\ MaxLedger \in Nat
      /\ a \in Nat /\ status[t] = "running"
  BY DEF IInv, TypeOK, LedgerAssumption, Grants
<1>2. n \in ClaimIds
  <2>1. calls[t] = Len(attempts[t]) /\ calls[t] < MaxCalls /\ Len(attempts[t]) \in Nat
    BY <1>1 DEF IInv, CallLimit, Grants, HasRoom
  <2> QED
    BY <2>1 DEF ClaimIds, LedgerAssumption
<1>3. AccountOf[t] = "open" /\ AccountOf' = AccountOf
  BY <1>1 DEF AccountOf, Grants
<1>4. ClaimOf[t][n] = <<>>
  BY <1>1, <1>2 DEF ClaimOf
<1>5. a <= RemainingOf[t] \/ a = 0
  BY <1>1 DEF Grants, Available, Excess, RemainingOf
<1>6. RemainingOf' = [RemainingOf EXCEPT ![t] = @ - a]
  <2>1. \A u \in Tasks : reserved'[u] = IF u = t THEN reserved[t] + a ELSE reserved[u]
    BY <1>1 DEF Grants
  <2>2. total' = total /\ settled' = settled /\ reserved[t] \in Nat
    BY <1>1 DEF Grants
  <2>3. \A u \in Tasks : total[u] - settled[u] - reserved'[u] =
            IF u = t THEN total[t] - settled[t] - reserved[t] - a
                     ELSE total[u] - settled[u] - reserved[u]
    BY <1>1, <2>1, <2>2
  <2> QED
    BY <2>2, <2>3 DEF RemainingOf
<1>7. ClaimOf' = [ClaimOf EXCEPT ![t] = [@ EXCEPT ![n] = <<a>>]]
  <2>1. \A u \in Tasks : attempts'[u] = IF u = t THEN Append(attempts[t], Reserved(a))
                                                ELSE attempts[u]
    BY <1>1 DEF Grants
  <2>2. /\ Len(Append(attempts[t], Reserved(a))) = n
        /\ \A i \in 1..n : Append(attempts[t], Reserved(a))[i] =
                              IF i = n THEN Reserved(a) ELSE attempts[t][i]
    BY <1>1
  <2>3. Reserved(a).amount = a /\ Reserved(a).state # "settled"
    BY DEF Reserved
  <2>4. Len(attempts[t]) \in Nat /\ \A i \in ClaimIds : i \in Nat /\ i >= 1
    BY <1>1 DEF ClaimIds, LedgerAssumption
  <2>5. ASSUME NEW i \in ClaimIds
        PROVE  ClaimIn(attempts'[t], i) = IF i = n THEN <<a>> ELSE ClaimIn(attempts[t], i)
    <3> DEFINE r == attempts'[t]
               q == attempts[t]
               x == Reserved(a)
    <3>1. Len(r) = n /\ \A j \in 1..n : r[j] = IF j = n THEN x ELSE q[j]
      BY <2>1, <2>2
    <3>2. n = Len(q) + 1 /\ Len(q) \in Nat /\ i \in Nat /\ i >= 1
      BY <2>4
    <3>3. x.amount = a /\ x.state # "settled"
      BY <2>3
    <3> HIDE DEF r, q, x, n
    <3>4. CASE i > n
      <4>1. i > Len(r) /\ i > Len(q) /\ i # n
        BY <3>1, <3>2, <3>4
      <4> QED
        BY <4>1 DEF ClaimIn, r, q
    <3>5. CASE i = n
      <4>1. ~(i > Len(r)) /\ r[i] = x
        BY <3>1, <3>2, <3>5
      <4> QED
        BY <3>3, <3>5, <4>1 DEF ClaimIn, r
    <3>6. CASE i < n
      <4>1. ~(i > Len(r)) /\ ~(i > Len(q)) /\ r[i] = q[i] /\ i # n
        BY <3>1, <3>2, <3>6
      <4> QED
        BY <4>1 DEF ClaimIn, r, q
    <3>7. i > n \/ i = n \/ i < n
      BY <3>2
    <3> QED
      BY <3>4, <3>5, <3>6, <3>7
  <2>6. \A i \in ClaimIds :
           ClaimIn(attempts'[t], i) = IF i = n THEN <<a>> ELSE ClaimIn(attempts[t], i)
    BY <2>5
  <2>7. \A u \in Tasks : u # t => attempts'[u] = attempts[u]
    BY <2>1
  <2> HIDE DEF n
  <2> QED
    BY <1>2, <2>6, <2>7, ClaimsChange
<1> QED
  BY <1>2, <1>3, <1>4, <1>5, <1>6, <1>7 DEF A!Grant, A!Unused

\* A cost that is booked charges a claim that was not charged before; a note
\* without a cost changes nothing.
LEMMA AnswersRefines ==
    ASSUME LedgerAssumption, IInv, AmountsAsked, NEW t \in Tasks, NEW k \in 1..Len(attempts[t]),
           NEW c, NEW s, NEW e, Answers(t, k, c, s, e)
    PROVE  \/ UNCHANGED A!accountVars
           \/ \E i \in ClaimIds, a \in Amounts, cost \in Costs : A!Charge(t, i, a, cost)
<1> DEFINE a == attempts[t][k].amount
<1>1. /\ attempts \in [Tasks -> Seq(Attempt)] /\ reserved \in [Tasks -> 0..MaxLedger]
      /\ settled \in [Tasks -> 0..MaxLedger] /\ total \in [Tasks -> 0..MaxLedger]
      /\ MaxLedger \in Nat /\ a \in Nat /\ a \in Amounts
  BY DEF IInv, TypeOK, LedgerAssumption, AmountsAsked
<1>2. k \in ClaimIds /\ Len(attempts[t]) <= MaxCalls /\ Len(attempts[t]) \in Nat /\ MaxCalls \in Nat
  <2>1. Len(attempts[t]) <= MaxCalls
    BY DEF IInv, CallLimit
  <2>2. MaxCalls \in Nat
    BY DEF LedgerAssumption
  <2>3. Len(attempts[t]) \in Nat
    BY <1>1
  <2> QED
    BY <2>1, <2>2, <2>3 DEF ClaimIds
<1>3. AccountOf' = AccountOf
  BY DEF AccountOf, Answers
<1>4. /\ \A u \in Tasks : u # t => attempts'[u] = attempts[u]
      /\ Len(attempts'[t]) = Len(attempts[t])
      /\ \A i \in 1..Len(attempts[t]) :
            attempts'[t][i] = IF i = k THEN Answered(attempts[t][k], c, s, e)
                                       ELSE attempts[t][i]
  BY <1>1 DEF Answers
<1>5. /\ attempts[t][k].state # "settled"
      /\ Answered(attempts[t][k], c, s, e).amount = a
      /\ Answered(attempts[t][k], c, s, e).cost = c
      /\ Answered(attempts[t][k], c, s, e).state = s
  BY DEF Answers, Answered
<1> HIDE DEF a
<1>6. ClaimOf[t][k] = <<a>>
  BY <1>2, <1>5 DEF ClaimOf, a
<1>7. ASSUME NEW v, ClaimIn(attempts'[t], k) = v
      PROVE  ClaimOf' = [ClaimOf EXCEPT ![t] = [@ EXCEPT ![k] = v]]
  <2>1. ASSUME NEW i \in ClaimIds, i # k
        PROVE  ClaimIn(attempts'[t], i) = ClaimIn(attempts[t], i)
    <3>1. i \in Nat /\ i >= 1
      BY DEF ClaimIds, LedgerAssumption
    <3>2. i > Len(attempts[t]) \/ (i \in 1..Len(attempts[t]) /\ attempts'[t][i] = attempts[t][i])
      BY <1>2, <1>4, <2>1, <3>1
    <3> QED
      BY <1>4, <3>2 DEF ClaimIn
  <2>2. \A i \in ClaimIds : ClaimIn(attempts'[t], i) = IF i = k THEN v ELSE ClaimIn(attempts[t], i)
    BY <1>7, <2>1
  <2>3. \A u \in Tasks : u # t => attempts'[u] = attempts[u]
    BY <1>4
  <2> QED
    BY <1>2, <2>2, <2>3, ClaimsChange
<1>8. ClaimIn(attempts'[t], k) = IF s = "settled" THEN <<a, c>> ELSE <<a>>
  BY <1>2, <1>4, <1>5 DEF ClaimIn
<1>9. CASE s = "settled" /\ c \in Costs
  <2>2. ClaimOf' = [ClaimOf EXCEPT ![t] = [@ EXCEPT ![k] = <<a, c>>]]
    BY <1>7, <1>8, <1>9
  <2>3. RemainingOf' = [RemainingOf EXCEPT ![t] = @ + a - c]
    <3>1. /\ settled'  = [settled EXCEPT ![t] = @ + c]
          /\ reserved' = [reserved EXCEPT ![t] = @ - a]
          /\ total' = total
      BY <1>9 DEF Answers, Unknown, a
    <3>2. c \in Nat
      BY <1>9 DEF LedgerAssumption
    <3>3. \A u \in Tasks : total'[u] - settled'[u] - reserved'[u] =
              IF u = t THEN total[t] - settled[t] - reserved[t] + a - c
                       ELSE total[u] - settled[u] - reserved[u]
      BY <1>1, <3>1, <3>2
    <3> QED
      BY <3>3 DEF RemainingOf
  <2>4. A!Charge(t, k, a, c)
    BY <1>3, <1>6, <2>2, <2>3 DEF A!Charge
  <2> QED
    BY <1>1, <1>2, <1>9, <2>4
<1>10. CASE s = "unresolved"
  <2>1. ClaimOf' = [ClaimOf EXCEPT ![t] = [@ EXCEPT ![k] = <<a>>]]
    BY <1>7, <1>8, <1>10
  <2>2. ClaimOf' = ClaimOf
    <3>1. /\ ClaimOf = [u \in Tasks |-> ClaimOf[u]]
          /\ \A u \in Tasks : ClaimOf[u] = [i \in ClaimIds |-> ClaimOf[u][i]]
      BY DEF ClaimOf
    <3>2. ClaimOf[t] = [ClaimOf[t] EXCEPT ![k] = <<a>>]
      BY <1>2, <1>6, <3>1
    <3>3. ClaimOf = [ClaimOf EXCEPT ![t] = [@ EXCEPT ![k] = <<a>>]]
      BY <3>1, <3>2
    <3> QED
      BY <2>1, <3>3
  <2>3. RemainingOf' = RemainingOf
    BY <1>10 DEF Answers, RemainingOf
  <2> QED
    BY <1>3, <2>2, <2>3 DEF A!accountVars
<1> QED
  BY <1>9, <1>10 DEF Answers

\* The store implements the account: for every budget, amount and cost and
\* whoever calls it, each of its transactions opens, closes, grants, charges
\* or changes nothing the host was promised.
THEOREM LedgerRefinesAccount == Spec => ImplementsAccount
<1>1. Init => A!AccountInit /\ AmountsAsked
  BY InitRefines, LedgerAssumption DEF Init, AmountsAsked
<1>2. IInv /\ AmountsAsked /\ [Next]_vars => AmountsAsked'
  BY AmountsStep, LedgerAssumption
<1>3. IInv /\ AmountsAsked /\ [Next]_vars => [A!AccountNext]_(A!accountVars)
  <2> SUFFICES ASSUME IInv, AmountsAsked, [Next]_vars
               PROVE  A!AccountNext \/ UNCHANGED A!accountVars
    OBVIOUS
  <2>1. CASE Quiet
    BY <2>1 DEF Quiet, A!accountVars, AccountOf, RemainingOf, ClaimOf
  <2>2. ASSUME NEW t \in Tasks, Effect(t)
        PROVE  A!AccountNext \/ UNCHANGED A!accountVars
    <3>1. CASE \E b \in Budgets : Opens(t, b)
      BY <3>1, OpensRefines, LedgerAssumption DEF A!AccountNext
    <3>2. CASE \E s \in Terminal : Closes(t, s)
      BY <3>2, ClosesRefines DEF A!AccountNext
    <3>3. CASE \E a \in Amounts : Grants(t, a)
      BY <3>3, GrantsRefines, LedgerAssumption DEF A!AccountNext
    <3>4. CASE \E i \in 1..Len(attempts[t]), c \in Costs \cup {Unknown},
                  s \in {"unresolved", "settled"}, e \in Evidence : Answers(t, i, c, s, e)
      BY <3>4, AnswersRefines, LedgerAssumption DEF A!AccountNext
    <3> QED
      BY <2>1, <2>2, <3>1, <3>2, <3>3, <3>4 DEF Effect
  <2>3. CASE UNCHANGED vars
    BY <2>1, <2>3 DEF vars, row, columns, Quiet
  <2> QED
    BY <2>2, <2>3, StepEffect, LedgerAssumption
<1> QED
  BY <1>1, <1>2, <1>3, Inductive, PTL DEF Spec, ImplementsAccount, A!AccountSpec
=============================================================================
