--------------------------- MODULE ReceivablesProofs ---------------------------
(***************************************************************************)
(* Proofs about Receivables, for every number of payers, bills,            *)
(* settlements and open transactions: types, that no bill is paid twice,   *)
(* that a payment's allocation adds up to it and goes to the oldest bills  *)
(* first, and that a sale on account fits its payer's ceiling.             *)
(***************************************************************************)
EXTENDS Receivables, FiniteSetTheorems, NaturalsInduction, WellFoundedInduction, TLAPS

-----------------------------------------------------------------------------
(* Counting money: Sum of a function is the number of its units.           *)

Units(f) == {u \in (DOMAIN f) \X (1..MaxMoney) : u[2] <= f[u[1]]}

LEMMA MoneyType == MaxMoney \in Nat /\ IsFiniteSet(Bills) /\ Bills \subseteq Nat
<1>1. MaxMoney \in Nat
  BY BillAssumption DEF MaxMoney
<1>2. IsFiniteSet(Bills) /\ Bills \subseteq Nat
  BY BillAssumption, FS_Interval DEF Bills
<1> QED
  BY <1>1, <1>2

LEMMA MoneyIsNat == Money \subseteq Nat
BY MoneyType DEF Money

LEMMA SumIsNat ==
    ASSUME NEW D, IsFiniteSet(D), NEW f \in [D -> Money]
    PROVE  IsFiniteSet(Units(f)) /\ Sum(f) \in Nat /\ Sum(f) = Cardinality(Units(f))
<1>1. IsFiniteSet(1..MaxMoney)
  BY MoneyType, FS_Interval
<1>2. IsFiniteSet(D \X (1..MaxMoney))
  BY <1>1, FS_Product
<1>3. Units(f) \subseteq D \X (1..MaxMoney)
  BY DEF Units
<1>4. IsFiniteSet(Units(f))
  BY <1>2, <1>3, FS_Subset
<1> QED
  BY <1>4, FS_CardinalityType DEF Sum, Units

\* What one place adds to the sum.
LEMMA UnitsOfOnePlace ==
    ASSUME NEW x, NEW n \in Money
    PROVE  IsFiniteSet({x} \X (1..n)) /\ Cardinality({x} \X (1..n)) = n
<1>0. n \in Nat
  BY MoneyType DEF Money
<1>1. IsFiniteSet(1..n) /\ Cardinality(1..n) = n
  BY <1>0, FS_Interval
<1>2. IsFiniteSet({x}) /\ Cardinality({x}) = 1
  BY FS_Singleton
<1>3. IsFiniteSet({x} \X (1..n)) /\ Cardinality({x} \X (1..n)) = 1 * n
  BY <1>1, <1>2, FS_Product
<1> QED
  BY <1>0, <1>3

\* Two functions that differ in one place differ in their sums by as much.
LEMMA SumPoint ==
    ASSUME NEW D, IsFiniteSet(D), NEW f \in [D -> Money], NEW g \in [D -> Money], NEW x \in D,
           \A y \in D : y # x => g[y] = f[y]
    PROVE  Sum(g) + f[x] = Sum(f) + g[x]
<1> DEFINE Rest == {u \in Units(f) : u[1] # x}
<1>0. MaxMoney \in Nat /\ f[x] \in Money /\ g[x] \in Money
  BY MoneyType
<1>1. ASSUME NEW h \in [D -> Money], \A y \in D : y # x => h[y] = f[y]
      PROVE  Sum(h) = Cardinality(Rest) + h[x]
  <2>0. h[x] \in Money /\ h[x] \in Nat
    BY <1>0 DEF Money
  <2>1. Units(h) = Rest \cup ({x} \X (1..h[x]))
    <3>1. ASSUME NEW y \in D, NEW n \in 1..MaxMoney
          PROVE  n <= h[y] <=> (y # x /\ n <= f[y]) \/ (y = x /\ n \in 1..h[x])
      BY <1>1, <2>0
    <3>2. (1..h[x]) \subseteq 1..MaxMoney
      BY <1>0, <2>0 DEF Money
    <3> QED
      BY <3>1, <3>2 DEF Units
  <2>2. Rest \cap ({x} \X (1..h[x])) = {}
    OBVIOUS
  <2>3. IsFiniteSet(Rest)
    <3>1. IsFiniteSet(Units(f))
      BY SumIsNat
    <3> QED
      BY <3>1, FS_Subset
  <2>4. IsFiniteSet({x} \X (1..h[x])) /\ Cardinality({x} \X (1..h[x])) = h[x]
    BY <2>0, UnitsOfOnePlace
  <2>5. Sum(h) = Cardinality(Units(h))
    BY <1>1, SumIsNat
  <2>6. Cardinality(Rest \cup ({x} \X (1..h[x])))
            = Cardinality(Rest) + Cardinality({x} \X (1..h[x]))
              - Cardinality(Rest \cap ({x} \X (1..h[x])))
    <3> HIDE DEF Rest
    <3> QED
      BY <2>3, <2>4, FS_Union
  <2>7. Cardinality(Rest) \in Nat /\ Cardinality({}) = 0
    BY <2>3, FS_CardinalityType, FS_EmptySet
  <2>8. Cardinality(Rest \cup ({x} \X (1..h[x]))) = Cardinality(Rest) + h[x]
    <3>1. Cardinality(Rest \cap ({x} \X (1..h[x]))) = 0
      BY <2>2, <2>7
    <3> HIDE DEF Rest
    <3> QED
      BY <2>0, <2>4, <2>6, <2>7, <3>1
  <2> HIDE DEF Rest
  <2> QED
    BY <2>1, <2>5, <2>8
<1>2. Cardinality(Rest) \in Nat
  <2>1. IsFiniteSet(Units(f))
    BY SumIsNat
  <2>2. IsFiniteSet(Rest)
    BY <2>1, FS_Subset
  <2> QED
    BY <2>2, FS_CardinalityType
<1>3. Sum(f) = Cardinality(Rest) + f[x] /\ Sum(g) = Cardinality(Rest) + g[x]
  <2> HIDE DEF Rest
  <2> QED
    BY <1>1
<1>4. f[x] \in Nat /\ g[x] \in Nat
  BY <1>0 DEF Money
<1> HIDE DEF Rest
<1> QED
  BY <1>2, <1>3, <1>4

\* A function that is nowhere larger has no larger sum.
LEMMA SumMonotone ==
    ASSUME NEW D, IsFiniteSet(D), NEW f \in [D -> Money], NEW g \in [D -> Money],
           \A y \in D : f[y] <= g[y]
    PROVE  Sum(f) <= Sum(g)
<1>1. Units(f) \subseteq Units(g)
  <2>1. \A y \in D : f[y] \in Int /\ g[y] \in Int
    BY MoneyType DEF Money
  <2> QED
    BY <2>1 DEF Units
<1>2. IsFiniteSet(Units(g)) /\ Sum(f) = Cardinality(Units(f)) /\ Sum(g) = Cardinality(Units(g))
  BY SumIsNat
<1>3. Cardinality(Units(f)) <= Cardinality(Units(g))
  BY <1>1, <1>2, FS_Subset
<1> QED
  BY <1>2, <1>3

LEMMA SumZero ==
    ASSUME NEW D, NEW f \in [D -> Money], \A y \in D : f[y] = 0
    PROVE  Sum(f) = 0
<1>1. Units(f) = {}
  BY MoneyType DEF Units
<1> QED
  BY <1>1, FS_EmptySet DEF Sum, Units

\* A term is no more than the sum.
LEMMA TermOfSum ==
    ASSUME NEW D, IsFiniteSet(D), NEW f \in [D -> Money], NEW x \in D
    PROVE  f[x] <= Sum(f)
<1> DEFINE g == [f EXCEPT ![x] = 0]
<1>1. 0 \in Money /\ g \in [D -> Money] /\ g[x] = 0 /\ \A y \in D : y # x => g[y] = f[y]
  BY MoneyType DEF Money
<1> HIDE DEF g
<1>2. Sum(g) + f[x] = Sum(f) + g[x]
  BY <1>1, SumPoint
<1>3. Sum(g) \in Nat /\ Sum(f) \in Nat /\ f[x] \in Nat
  BY <1>1, SumIsNat, MoneyType DEF Money
<1> QED
  BY <1>1, <1>2, <1>3
-----------------------------------------------------------------------------
(* The walk over the open bills.  Its recursion is over the bills' numbers, *)
(* so what it computes is proved by induction; the library's induction     *)
(* theorems speak of predicates, this one of the set where one holds.      *)

LEMMA NatInductionOnASet ==
    ASSUME NEW S, 0 \in S, \A n \in Nat : n \in S => n + 1 \in S
    PROVE  Nat \subseteq S
<1> SUFFICES ASSUME NEW k \in Nat, k \notin S PROVE FALSE
  OBVIOUS
<1> DEFINE Missing == {n \in Nat : n \notin S}
           Below == {p \in Nat \X Nat : p[1] < p[2]}
<1>1. IsWellFoundedOn(Below, Nat)
  <2>1. IsWellFoundedOn(OpToRel(<, Nat), Nat)
    BY NatLessThanWellFounded
  <2>2. Below = OpToRel(<, Nat)
    BY DEF OpToRel
  <2> QED
    BY <2>1, <2>2
<1>2. Missing \subseteq Nat /\ Missing # {}
  OBVIOUS
<1>3. PICK x \in Missing : \A y \in Missing : ~(<<y, x>> \in Below)
  <2> HIDE DEF Missing, Below
  <2> QED
    BY <1>1, <1>2, WFMin
<1>4. x # 0
  OBVIOUS
<1>5. x - 1 \in Missing
  BY <1>4
<1>6. x \in Nat /\ x - 1 \in Nat /\ x - 1 < x
  BY <1>5
<1>7. <<x - 1, x>> \in Below
  BY <1>6
<1> QED
  BY <1>3, <1>5, <1>7

\* What is left in hand before each bill.
Walk(open, amount, left, m) ==
    \A n \in 0..m :
        left[n] = IF n = 0 THEN amount ELSE left[n - 1] - Least(open[n], left[n - 1])

LEMMA StepOfTheWalk ==
    ASSUME NEW due \in Money, NEW hand \in Money
    PROVE  /\ Least(due, hand) \in Money /\ Least(due, hand) <= due
           /\ hand - Least(due, hand) \in Money
           /\ hand - Least(due, hand) <= hand
           /\ hand - Least(due, hand) > 0 => Least(due, hand) = due
<1>1. MaxMoney \in Nat /\ due \in Nat /\ hand \in Nat /\ due <= MaxMoney /\ hand <= MaxMoney
  BY MoneyType DEF Money
<1> QED
  BY <1>1 DEF Money, Least

LEMMA WalkExists ==
    ASSUME NEW open \in [Bills -> Money], NEW amount \in Money
    PROVE  \E left \in [0..NBills -> Money] : Walk(open, amount, left, NBills)
<1> DEFINE Reached == {m \in Nat : m <= NBills =>
                          \E left \in [0..m -> Money] : Walk(open, amount, left, m)}
<1>0. NBills \in Nat
  BY BillAssumption
<1>1. 0 \in Reached
  <2> DEFINE start == [n \in 0..0 |-> amount]
  <2>1. start \in [0..0 -> Money] /\ Walk(open, amount, start, 0)
    BY DEF Walk
  <2> QED
    BY <2>1
<1>2. ASSUME NEW m \in Nat, m \in Reached PROVE m + 1 \in Reached
  <2> SUFFICES ASSUME m + 1 <= NBills
               PROVE  \E left \in [0..(m + 1) -> Money] : Walk(open, amount, left, m + 1)
    OBVIOUS
  <2>1. PICK left \in [0..m -> Money] : Walk(open, amount, left, m)
    BY <1>0, <1>2
  <2> DEFINE on == [n \in 0..(m + 1) |-> IF n <= m THEN left[n]
                                         ELSE left[m] - Least(open[m + 1], left[m])]
  <2>2. m + 1 \in Bills /\ left[m] \in Money
    BY <1>0 DEF Bills
  <2>3. left[m] - Least(open[m + 1], left[m]) \in Money
    BY <2>2, StepOfTheWalk
  <2>4. on \in [0..(m + 1) -> Money]
    BY <2>3
  <2>5. Walk(open, amount, on, m + 1)
    <3> SUFFICES ASSUME NEW n \in 0..(m + 1)
                 PROVE  on[n] = IF n = 0 THEN amount ELSE on[n - 1] - Least(open[n], on[n - 1])
      BY DEF Walk
    <3>1. CASE n = 0
      BY <2>1, <3>1 DEF Walk
    <3>2. CASE n # 0 /\ n <= m
      <4>1. on[n] = left[n] /\ on[n - 1] = left[n - 1] /\ n \in 0..m
        BY <3>2
      <4>2. left[n] = left[n - 1] - Least(open[n], left[n - 1])
        BY <2>1, <3>2, <4>1 DEF Walk
      <4> QED
        BY <3>2, <4>1, <4>2
    <3>3. CASE n = m + 1
      <4>1. on[n] = left[m] - Least(open[n], left[m]) /\ on[n - 1] = left[m] /\ n # 0
        BY <3>3
      <4> QED
        BY <4>1
    <3> QED
      BY <3>1, <3>2, <3>3
  <2> HIDE DEF on
  <2> QED
    BY <2>4, <2>5
<1>3. NBills \in Reached
  <2> HIDE DEF Reached
  <2> QED
    BY <1>0, <1>1, <1>2, NatInductionOnASet
<1> QED
  BY <1>0, <1>3

LEMMA AllocationIsAWalk ==
    ASSUME NEW open \in [Bills -> Money], NEW amount \in Money
    PROVE  \E left \in [0..NBills -> Money] :
              /\ Walk(open, amount, left, NBills)
              /\ AllocateSettlement(open, amount)
                    = [lines |-> [b \in Bills |-> Least(open[b], left[b - 1])], left |-> left[NBills]]
<1> DEFINE F(left) == [n \in 0..NBills |-> IF n = 0 THEN amount
                                           ELSE left[n - 1] - Least(open[n], left[n - 1])]
           L == CHOOSE left : left = F(left)
<1>1. PICK g \in [0..NBills -> Money] : Walk(open, amount, g, NBills)
  BY WalkExists
<1>2. g = F(g)
  BY <1>1 DEF Walk
<1>3. L = F(L)
  <2> HIDE DEF F
  <2> QED
    BY <1>2
<1>4. AllocateSettlement(open, amount)
          = [lines |-> [b \in Bills |-> Least(open[b], L[b - 1])], left |-> L[NBills]]
  BY DEF AllocateSettlement
<1>5. \A n \in 0..NBills : L[n] = IF n = 0 THEN amount ELSE L[n - 1] - Least(open[n], L[n - 1])
  <2> HIDE DEF L
  <2> QED
    BY <1>3
<1> HIDE DEF L, F
<1> DEFINE Same == {n \in Nat : n <= NBills => L[n] = g[n]}
<1>6. 0 \in Same
  BY <1>1, <1>5, BillAssumption DEF Walk
<1>7. ASSUME NEW n \in Nat, n \in Same PROVE n + 1 \in Same
  <2> SUFFICES ASSUME n + 1 <= NBills PROVE L[n + 1] = g[n + 1]
    OBVIOUS
  <2>1. n + 1 \in 0..NBills /\ n + 1 # 0 /\ (n + 1) - 1 = n /\ L[n] = g[n]
    BY <1>7, BillAssumption
  <2>2. L[n + 1] = L[n] - Least(open[n + 1], L[n])
    BY <1>5, <2>1
  <2>3. g[n + 1] = g[n] - Least(open[n + 1], g[n])
    BY <1>1, <2>1 DEF Walk
  <2> QED
    BY <2>1, <2>2, <2>3
<1>8. \A n \in 0..NBills : L[n] = g[n]
  <2>1. Nat \subseteq Same
    <3> HIDE DEF Same
    <3> QED
      BY <1>6, <1>7, NatInductionOnASet
  <2> QED
    BY <2>1
<1>9. \A b \in Bills : L[b - 1] = g[b - 1]
  BY <1>8, BillAssumption DEF Bills
<1>10. L[NBills] = g[NBills]
  BY <1>8, BillAssumption
<1> QED
  BY <1>1, <1>4, <1>9, <1>10

\* What a payment gives each bill: no more than is open, nothing while an older one is short, and
\* all of itself but what is left over.
Allocated(plan, open, amount) ==
    /\ plan.lines \in [Bills -> Money] /\ plan.left \in Money
    /\ \A b \in Bills : plan.lines[b] <= open[b]
    /\ \A b, c \in Bills : b < c /\ plan.lines[c] > 0 => plan.lines[b] = open[b]
    /\ Sum(plan.lines) + plan.left = amount

LEMMA AllocationRule ==
    ASSUME NEW open \in [Bills -> Money], NEW amount \in Money
    PROVE  Allocated(AllocateSettlement(open, amount), open, amount)
<1>1. PICK left \in [0..NBills -> Money] :
           /\ Walk(open, amount, left, NBills)
           /\ AllocateSettlement(open, amount)
                 = [lines |-> [b \in Bills |-> Least(open[b], left[b - 1])], left |-> left[NBills]]
  BY AllocationIsAWalk
<1> DEFINE lines == [b \in Bills |-> Least(open[b], left[b - 1])]
<1>0. /\ NBills \in Nat /\ 0 \in 0..NBills /\ NBills \in 0..NBills
      /\ \A b \in Bills : b \in 0..NBills /\ b - 1 \in 0..NBills /\ b # 0
  BY BillAssumption DEF Bills
<1>2. left[0] = amount /\ \A b \in Bills : left[b] = left[b - 1] - Least(open[b], left[b - 1])
  BY <1>0, <1>1 DEF Walk
<1>3. ASSUME NEW b \in Bills
      PROVE  /\ lines[b] \in Money /\ lines[b] <= open[b]
             /\ left[b] = left[b - 1] - lines[b]
             /\ left[b] <= left[b - 1] /\ lines[b] <= left[b - 1]
             /\ left[b] > 0 => lines[b] = open[b]
             /\ left[b] \in Money /\ left[b - 1] \in Money
  <2>1. open[b] \in Money /\ left[b - 1] \in Money /\ left[b] \in Money
    BY <1>0
  <2>2. lines[b] = Least(open[b], left[b - 1])
    OBVIOUS
  <2>3. /\ Least(open[b], left[b - 1]) \in Money /\ Least(open[b], left[b - 1]) <= open[b]
        /\ left[b - 1] - Least(open[b], left[b - 1]) <= left[b - 1]
        /\ left[b - 1] - Least(open[b], left[b - 1]) > 0 => Least(open[b], left[b - 1]) = open[b]
    BY <2>1, StepOfTheWalk
  <2>4. left[b] >= 0 /\ left[b] \in Int /\ left[b - 1] \in Int /\ lines[b] \in Int
    BY <2>1, <2>2, <2>3, MoneyType DEF Money
  <2> HIDE DEF lines
  <2> QED
    BY <1>2, <2>1, <2>2, <2>3, <2>4
<1>4. lines \in [Bills -> Money]
  BY <1>3
<1> HIDE DEF lines
\* The sum of the lines up to bill m is what the walk has spent by then.
<1> DEFINE Upto(m) == [b \in Bills |-> IF b <= m THEN lines[b] ELSE 0]
           Spent == {m \in Nat : m <= NBills => Sum(Upto(m)) + left[m] = amount}
<1>5. \A m \in Nat : Upto(m) \in [Bills -> Money]
  BY <1>4, MoneyType DEF Money
<1>6. 0 \in Spent
  <2>1. \A b \in Bills : Upto(0)[b] = 0
    BY DEF Bills
  <2>2. Sum(Upto(0)) = 0
    <3> HIDE DEF Upto
    <3> QED
      BY <1>5, <2>1, SumZero
  <2>3. amount \in Nat
    BY MoneyType DEF Money
  <2> QED
    BY <1>2, <2>2, <2>3
<1>7. ASSUME NEW m \in Nat, m \in Spent PROVE m + 1 \in Spent
  <2> SUFFICES ASSUME m + 1 <= NBills PROVE Sum(Upto(m + 1)) + left[m + 1] = amount
    OBVIOUS
  <2>1. m + 1 \in Bills /\ m <= NBills /\ (m + 1) - 1 = m
    BY <1>0 DEF Bills
  <2>2. /\ Upto(m + 1)[m + 1] = lines[m + 1] /\ Upto(m)[m + 1] = 0
        /\ \A y \in Bills : y # m + 1 => Upto(m + 1)[y] = Upto(m)[y]
    BY <2>1 DEF Bills
  <2>3. Upto(m) \in [Bills -> Money] /\ Upto(m + 1) \in [Bills -> Money]
    BY <1>5
  <2>4. Sum(Upto(m)) + left[m] = amount
    BY <1>7, <2>1
  <2> HIDE DEF Upto
  <2>5. Sum(Upto(m + 1)) + 0 = Sum(Upto(m)) + lines[m + 1]
    <3>1. Sum(Upto(m + 1)) + Upto(m)[m + 1] = Sum(Upto(m)) + Upto(m + 1)[m + 1]
      <4>1. \A y \in Bills : y # m + 1 => Upto(m + 1)[y] = Upto(m)[y]
        BY <2>2
      <4>2. IsFiniteSet(Bills)
        BY MoneyType
      <4> QED
        BY <2>1, <2>3, <4>1, <4>2, SumPoint
    <3> QED
      BY <2>2, <3>1
  <2>6. left[m + 1] = left[m] - lines[m + 1] /\ lines[m + 1] \in Int /\ left[m] \in Int
    BY <1>3, <2>1, MoneyType DEF Money
  <2>7. Sum(Upto(m + 1)) \in Nat /\ Sum(Upto(m)) \in Nat
    BY <2>3, MoneyType, SumIsNat
  <2> QED
    BY <2>4, <2>5, <2>6, <2>7
<1>8. Sum(lines) + left[NBills] = amount
  <2>1. NBills \in Spent
    <3> HIDE DEF Spent
    <3> QED
      BY <1>0, <1>6, <1>7, NatInductionOnASet
  <2>2. Upto(NBills) = lines
    BY <1>4 DEF Bills
  <2> HIDE DEF Upto
  <2> QED
    BY <1>0, <2>1, <2>2
\* What is left in hand only falls.
<1>9. ASSUME NEW b \in Bills, NEW c \in Bills, b < c, lines[c] > 0
      PROVE  lines[b] = open[b]
  <2> DEFINE Falls == {m \in Nat : b <= m /\ m <= NBills => left[m] <= left[b]}
  <2>0. left[b] \in Int
    BY <1>3, MoneyType DEF Money
  <2>1. 0 \in Falls
    BY <1>0
  <2>2. ASSUME NEW m \in Nat, m \in Falls PROVE m + 1 \in Falls
    <3> SUFFICES ASSUME b <= m + 1, m + 1 <= NBills PROVE left[m + 1] <= left[b]
      OBVIOUS
    <3>1. CASE b = m + 1
      BY <2>0, <3>1
    <3>2. CASE b # m + 1
      <4>1. m + 1 \in Bills /\ (m + 1) - 1 = m /\ b <= m /\ m <= NBills
        BY <1>0, <3>2 DEF Bills
      <4>2. left[m + 1] <= left[m] /\ left[m + 1] \in Money /\ left[m] \in Money
        BY <1>3, <4>1
      <4>3. left[m] <= left[b]
        BY <2>2, <4>1
      <4> QED
        BY <2>0, <4>2, <4>3, MoneyType DEF Money
    <3> QED
      BY <3>1, <3>2
  <2>3. c - 1 \in Falls
    <3>1. c - 1 \in Nat
      BY DEF Bills
    <3> HIDE DEF Falls
    <3> QED
      BY <2>1, <2>2, <3>1, NatInductionOnASet
  <2>4. left[c - 1] <= left[b]
    <3>1. b \in Int /\ c \in Int /\ b <= c - 1 /\ c - 1 <= NBills
      BY <1>0, <1>9 DEF Bills
    <3> QED
      BY <2>3, <3>1
  <2>5. lines[c] <= left[c - 1] /\ lines[c] \in Int /\ left[c - 1] \in Int
    BY <1>3, MoneyType DEF Money
  <2>6. left[b] > 0
    BY <1>9, <2>0, <2>4, <2>5
  <2> QED
    BY <1>3, <2>6
<1>10. left[NBills] \in Money
  BY <1>0
<1>11. /\ AllocateSettlement(open, amount).lines = lines
       /\ AllocateSettlement(open, amount).left = left[NBills]
  BY <1>1 DEF lines
<1> QED
  BY <1>3, <1>4, <1>8, <1>9, <1>10, <1>11 DEF Allocated

-----------------------------------------------------------------------------
(* The inductive invariant.                                                *)

Sales == {"terms read", "balance read"}
Drawn(b) == bill[b].st # "Not drawn"
LiveOf(b, p) == bill[b].st = "Live" /\ bill[b].payer = p
HasRead(k) == tx[k].at = "bills read"

\* A payer's lock is held by one transaction.
LockHeldByOne ==
    \A j, k \in Txns :
        tx[j].at \in UnderLock /\ tx[k].at \in UnderLock /\ tx[j].payer = tx[k].payer => j = k

\* A sale works on a bill of its own that nobody has drawn, for a total a bill may have; a payment
\* works on none.
OwnBill(k) ==
    /\ tx[k].at \notin Sales => tx[k].bill = 0
    /\ tx[k].at \in Sales =>
          /\ tx[k].bill \in Bills /\ ~Drawn(tx[k].bill) /\ tx[k].money \in 1..MaxTotal
          /\ tx[k].payer \in Payers
          /\ \A j \in Txns : tx[j].bill = tx[k].bill => j = k

BillsPromised == \A k \in Txns : OwnBill(k)

FreshRows ==
    /\ \A b \in Bills : ~Drawn(b) => bill[b].total = 0
    /\ \A s \in Settlements : stl[s].st = "Not drawn" => stl[s].lines = NoLines

\* All that was ever paid on a bill, voided payments counted, is no more than its total.
ColumnsFit == \A b \in Bills : SettledColumn(b) <= bill[b].total

\* So it will be when a payment that has read the bills commits.
LineFits(k, b) ==
    tx[k].lines[b] > 0 =>
        /\ Drawn(b) /\ bill[b].payer = tx[k].payer
        /\ SettledColumn(b) + tx[k].lines[b] <= bill[b].total

\* It pays older bills off first.
OldestBefore(k, b, c) ==
    b < c /\ tx[k].lines[c] > 0 /\ LiveOf(b, tx[k].payer)
        => SettledColumn(b) + tx[k].lines[b] = bill[b].total

PlanHolds(k) ==
    HasRead(k) =>
        /\ \A b \in Bills : LineFits(k, b)
        /\ \A b, c \in Bills : OldestBefore(k, b, c)
        /\ Sum(tx[k].lines) = tx[k].money

PlansHold == \A k \in Txns : PlanHolds(k)

OwnPayer == \A b \in Bills, s \in Settlements : stl[s].lines[b] > 0 => stl[s].payer = bill[b].payer

\* A sale that has read its payer's balance still fits the ceiling it read.
Priced(k, p) == tx[k].at = "balance read" /\ tx[k].payer = p /\ tx[k].limit # NoLimit

FitsCeiling(k, p) == Priced(k, p) => OutstandingFor(p) + tx[k].money <= tx[k].limit

CeilingsStand == \A k \in Txns, p \in Payers : FitsCeiling(k, p)

AccountsInv ==
    /\ TypeOK
    /\ LockHeldByOne /\ BillsPromised /\ FreshRows
    /\ ColumnsFit /\ PlansHold /\ OwnPayer /\ AllocationAddsUp
    /\ CeilingsStand

-----------------------------------------------------------------------------
(* What the balances are made of.                                          *)

ChargesOf(p) == [b \in Bills |-> IF bill[b].st = "Live" /\ bill[b].payer = p
                                 THEN bill[b].total ELSE 0]
PaymentsOf(p) == [s \in Settlements |-> IF stl[s].st = "Live" /\ stl[s].payer = p
                                        THEN stl[s].amount ELSE 0]
ColumnOf(b) == [s \in Settlements |-> stl[s].lines[b]]
LiveColumnOf(b) == [s \in Settlements |-> IF stl[s].st = "Live" THEN stl[s].lines[b] ELSE 0]

LEMMA TotalsAreMoney ==
    ASSUME NEW b \in Bills
    PROVE  MaxTotal <= MaxMoney /\ 0..MaxTotal \subseteq Money /\ 0 \in Money
<1>1. NBills \in Nat /\ MaxTotal \in Nat /\ NBills >= 1
  BY BillAssumption DEF Bills
<1>2. NBills - 1 \in Nat /\ NBills * MaxTotal = (NBills - 1) * MaxTotal + MaxTotal
  BY <1>1
<1>3. (NBills - 1) * MaxTotal \in Nat
  BY <1>1, <1>2
<1> QED
  BY <1>1, <1>2, <1>3 DEF Money, MaxMoney

LEMMA BalanceTypes ==
    ASSUME TypeOK
    PROVE  /\ \A p : ChargesOf(p) \in [Bills -> Money] /\ PaymentsOf(p) \in [Settlements -> Money]
           /\ \A b \in Bills : /\ ColumnOf(b) \in [Settlements -> Money]
                               /\ LiveColumnOf(b) \in [Settlements -> Money]
<1>1. 0 \in Money
  BY MoneyType DEF Money
<1>2. \A b \in Bills : bill[b].total \in Money
  <2> SUFFICES ASSUME NEW b \in Bills PROVE bill[b].total \in Money
    OBVIOUS
  <2>1. bill[b] \in BillRow
    BY DEF TypeOK
  <2>2. bill[b].total \in 0..MaxTotal
    BY <2>1 DEF BillRow
  <2> QED
    BY <2>2, TotalsAreMoney
<1>3. \A s \in Settlements : stl[s].amount \in Money /\ stl[s].lines \in [Bills -> Money]
  <2> SUFFICES ASSUME NEW s \in Settlements
               PROVE  stl[s].amount \in Money /\ stl[s].lines \in [Bills -> Money]
    OBVIOUS
  <2>1. stl[s] \in SettlementRow
    BY DEF TypeOK
  <2> QED
    BY <2>1 DEF SettlementRow, Allocation
<1>4. \A p : ChargesOf(p) \in [Bills -> Money]
  BY <1>1, <1>2 DEF ChargesOf
<1>5. \A p : PaymentsOf(p) \in [Settlements -> Money]
  BY <1>1, <1>3 DEF PaymentsOf
<1>6. \A b \in Bills : /\ ColumnOf(b) \in [Settlements -> Money]
                       /\ LiveColumnOf(b) \in [Settlements -> Money]
  BY <1>1, <1>3 DEF ColumnOf, LiveColumnOf
<1> QED
  BY <1>4, <1>5, <1>6

LEMMA BalancesAreSums ==
    ASSUME TypeOK
    PROVE  /\ \A p : /\ Charged(p) = Sum(ChargesOf(p)) /\ Charged(p) \in Nat
                     /\ Settled(p) = Sum(PaymentsOf(p)) /\ Settled(p) \in Nat
           /\ \A b \in Bills : SettledColumn(b) = Sum(ColumnOf(b)) /\ SettledColumn(b) \in Nat
           /\ \A b \in Bills : LiveSettled(b) = Sum(LiveColumnOf(b)) /\ LiveSettled(b) \in Nat
<1>1. \A p : Charged(p) = Sum(ChargesOf(p))
  BY DEF Charged, ChargesOf
<1>2. \A p : Settled(p) = Sum(PaymentsOf(p))
  BY DEF Settled, PaymentsOf
<1>3. \A b : SettledColumn(b) = Sum(ColumnOf(b)) /\ LiveSettled(b) = Sum(LiveColumnOf(b))
  BY DEF SettledColumn, ColumnOf, LiveSettled, LiveColumnOf
<1>4. IsFiniteSet(Bills) /\ IsFiniteSet(Settlements)
  BY MoneyType, SettlementAssumption
<1>5. \A p : Sum(ChargesOf(p)) \in Nat /\ Sum(PaymentsOf(p)) \in Nat
  BY <1>4, BalanceTypes, SumIsNat
<1>6. \A b \in Bills : Sum(ColumnOf(b)) \in Nat /\ Sum(LiveColumnOf(b)) \in Nat
  BY <1>4, BalanceTypes, SumIsNat
<1> QED
  BY <1>1, <1>2, <1>3, <1>5, <1>6

\* A payer's bills together are money still: there are no more than NBills, each at most MaxTotal.
LEMMA OutstandingIsMoney ==
    ASSUME TypeOK, NEW p
    PROVE  OutstandingFor(p) \in Money
<1>1. MaxTotal \in Nat /\ NBills \in Nat /\ MaxMoney \in Nat
  BY BillAssumption, MoneyType
<1>2. Units(ChargesOf(p)) \subseteq Bills \X (1..MaxTotal)
  <2>1. \A b \in Bills : bill[b] \in BillRow
    BY DEF TypeOK
  <2>2. \A b \in Bills : ChargesOf(p)[b] \in 0..MaxTotal
    <3>1. \A b \in Bills : bill[b].total \in 0..MaxTotal
      BY <2>1 DEF BillRow
    <3>2. 0 \in 0..MaxTotal
      BY <1>1
    <3> QED
      BY <3>1, <3>2, Zenon DEF ChargesOf
  <2>3. DOMAIN ChargesOf(p) = Bills
    BY DEF ChargesOf
  <2>4. ASSUME NEW b \in Bills, NEW n \in 1..MaxMoney, n <= ChargesOf(p)[b]
        PROVE  n \in 1..MaxTotal
    BY <1>1, <2>2, <2>4
  <2> QED
    BY <2>3, <2>4 DEF Units
<1>3. IsFiniteSet(Bills \X (1..MaxTotal)) /\ Cardinality(Bills \X (1..MaxTotal)) = MaxMoney
  <2>1. IsFiniteSet(Bills) /\ Cardinality(Bills) = NBills
    BY <1>1, FS_Interval DEF Bills
  <2>2. IsFiniteSet(1..MaxTotal) /\ Cardinality(1..MaxTotal) = MaxTotal
    BY <1>1, FS_Interval
  <2> QED
    BY <2>1, <2>2, FS_Product DEF MaxMoney
<1>4. Cardinality(Units(ChargesOf(p))) <= MaxMoney
  BY <1>2, <1>3, FS_Subset
<1>5. Charged(p) = Cardinality(Units(ChargesOf(p)))
  <2>1. ChargesOf(p) \in [Bills -> Money] /\ IsFiniteSet(Bills)
    BY BalanceTypes, MoneyType
  <2>2. Sum(ChargesOf(p)) = Cardinality(Units(ChargesOf(p)))
    BY <2>1, SumIsNat
  <2> QED
    BY <2>2, BalancesAreSums
<1>6. Charged(p) \in Nat /\ Settled(p) \in Nat
  BY BalancesAreSums
<1> QED
  BY <1>1, <1>4, <1>5, <1>6 DEF OutstandingFor, Least, Money

LEMMA OpenBillsType ==
    ASSUME TypeOK, NEW p
    PROVE  OpenBillsFor(p) \in [Bills -> Money]
<1>1. ASSUME NEW b \in Bills, SettledColumn(b) < bill[b].total
      PROVE  bill[b].total - SettledColumn(b) \in Money
  <2>1. bill[b] \in BillRow
    BY DEF TypeOK
  <2>2. bill[b].total \in Money
    BY <2>1, TotalsAreMoney DEF BillRow
  <2>3. SettledColumn(b) \in Nat
    BY BalancesAreSums
  <2> QED
    BY <1>1, <2>2, <2>3, MoneyType DEF Money
<1>2. 0 \in Money
  BY MoneyType DEF Money
<1> QED
  BY <1>1, <1>2 DEF OpenBillsFor

-----------------------------------------------------------------------------
(* What a step does to the sums.                                           *)

LEMMA ColumnsStay ==
    ASSUME \A s \in Settlements : stl'[s].lines = stl[s].lines
    PROVE  \A b : SettledColumn(b)' = SettledColumn(b)
<1> SUFFICES ASSUME NEW b PROVE SettledColumn(b)' = SettledColumn(b)
  OBVIOUS
<1>1. [s \in Settlements |-> stl'[s].lines[b]] = [s \in Settlements |-> stl[s].lines[b]]
  OBVIOUS
<1> QED
  BY <1>1 DEF SettledColumn, Sum

\* A settlement that commits adds its lines to the columns.
LEMMA ColumnsGrow ==
    ASSUME AccountsInv, NEW k \in Txns, NEW s \in Settlements, RecordCommit(k, s), NEW b \in Bills
    PROVE  SettledColumn(b)' = SettledColumn(b) + tx[k].lines[b]
<1> DEFINE g == [t \in Settlements |-> stl'[t].lines[b]]
<1>1. /\ tx[k] \in TxnRow /\ tx[k].lines \in [Bills -> Money]
      /\ stl \in [Settlements -> SettlementRow] /\ TypeOK
  BY DEF AccountsInv, TypeOK, TxnRow, Allocation
<1>2. /\ stl'[s].lines = tx[k].lines
      /\ \A t \in Settlements : t # s => stl'[t] = stl[t]
  BY <1>1 DEF RecordCommit
<1>3. ColumnOf(b)[s] = 0
  <2>1. stl[s].lines = NoLines
    BY DEF AccountsInv, FreshRows, RecordCommit
  <2> QED
    BY <2>1 DEF ColumnOf, NoLines
<1>4. ColumnOf(b) \in [Settlements -> Money]
  BY <1>1, BalanceTypes
<1>5. g[s] = tx[k].lines[b] /\ \A t \in Settlements : t # s => g[t] = ColumnOf(b)[t]
  BY <1>2 DEF ColumnOf
<1>6. g \in [Settlements -> Money]
  <2>1. \A t \in Settlements : g[t] \in Money
    BY <1>1, <1>4, <1>5
  <2> QED
    BY <2>1
<1>7. SettledColumn(b)' = Sum(g)
  BY DEF SettledColumn, Sum
<1> HIDE DEF g
<1>8. Sum(g) + ColumnOf(b)[s] = Sum(ColumnOf(b)) + g[s]
  BY <1>4, <1>5, <1>6, SettlementAssumption, SumPoint
<1>9. SettledColumn(b) = Sum(ColumnOf(b)) /\ SettledColumn(b) \in Nat /\ Sum(g) \in Nat
  BY <1>1, <1>6, BalancesAreSums, SumIsNat, SettlementAssumption
<1> QED
  BY <1>3, <1>5, <1>7, <1>8, <1>9

\* What a payer owes stands while no bill and no payment of theirs moves.
LEMMA BalanceKept ==
    ASSUME NEW p,
           \A b \in Bills : \/ bill'[b] = bill[b]
                            \/ /\ bill[b].st = "Live" => bill[b].payer # p
                               /\ bill'[b].st = "Live" => bill'[b].payer # p,
           \A s \in Settlements : \/ stl'[s] = stl[s]
                                  \/ /\ stl[s].st = "Live" => stl[s].payer # p
                                     /\ stl'[s].st = "Live" => stl'[s].payer # p
    PROVE  OutstandingFor(p)' = OutstandingFor(p)
<1>1. [b \in Bills |-> IF bill'[b].st = "Live" /\ bill'[b].payer = p THEN bill'[b].total ELSE 0]
        = [b \in Bills |-> IF bill[b].st = "Live" /\ bill[b].payer = p THEN bill[b].total ELSE 0]
  BY Zenon
<1>2. [s \in Settlements |-> IF stl'[s].st = "Live" /\ stl'[s].payer = p
                             THEN stl'[s].amount ELSE 0]
        = [s \in Settlements |-> IF stl[s].st = "Live" /\ stl[s].payer = p
                                 THEN stl[s].amount ELSE 0]
  BY Zenon
<1>3. Charged(p)' = Charged(p)
  BY <1>1 DEF Charged, Sum
<1>4. Settled(p)' = Settled(p)
  BY <1>2 DEF Settled, Sum
<1> QED
  BY <1>3, <1>4 DEF OutstandingFor, Least

\* The void of a bill never makes anybody owe more.
LEMMA VoidOwesNoMore ==
    ASSUME TypeOK, NEW b \in Bills, VoidBill(b), NEW p
    PROVE  OutstandingFor(p)' <= OutstandingFor(p)
<1> DEFINE g == [c \in Bills |-> IF bill'[c].st = "Live" /\ bill'[c].payer = p
                                 THEN bill'[c].total ELSE 0]
<1>1. bill \in [Bills -> BillRow] /\ stl' = stl
  BY DEF TypeOK, VoidBill
<1>2. bill'[b].st = "Voided" /\ \A c \in Bills : c # b => bill'[c] = bill[c]
  BY <1>1 DEF VoidBill
<1>3. ChargesOf(p) \in [Bills -> Money] /\ 0 \in Money /\ IsFiniteSet(Bills)
  BY BalanceTypes, TotalsAreMoney, MoneyType
<1>4. g[b] = 0 /\ \A c \in Bills : c # b => g[c] = ChargesOf(p)[c]
  BY <1>2 DEF ChargesOf
<1>5. g \in [Bills -> Money]
  <2>1. \A c \in Bills : g[c] \in Money
    BY <1>3, <1>4
  <2> QED
    BY <2>1
<1>6. \A c \in Bills : g[c] <= ChargesOf(p)[c]
  BY <1>3, <1>4, MoneyType DEF Money
<1>7. Charged(p)' = Sum(g)
  BY DEF Charged, Sum
<1>8. Settled(p)' = Settled(p)
  BY <1>1 DEF Settled, Sum
<1> HIDE DEF g
<1>9. Sum(g) <= Sum(ChargesOf(p)) /\ Sum(g) \in Nat
  BY <1>3, <1>5, <1>6, SumMonotone, SumIsNat
<1>10. /\ Charged(p) = Sum(ChargesOf(p)) /\ Charged(p) \in Nat
       /\ Settled(p) \in Nat
  BY BalancesAreSums
<1> QED
  BY <1>7, <1>8, <1>9, <1>10 DEF OutstandingFor, Least

\* A sale that commits makes its payer owe its total more, and no more.
LEMMA SaleOwesItsTotal ==
    ASSUME AccountsInv, NEW k \in Txns, SaleCommit(k), NEW p, p = tx[k].payer
    PROVE  OutstandingFor(p)' <= OutstandingFor(p) + tx[k].money
<1> PICK b : b = tx[k].bill
  OBVIOUS
<1> DEFINE g == [c \in Bills |-> IF bill'[c].st = "Live" /\ bill'[c].payer = p
                                 THEN bill'[c].total ELSE 0]
<1>1. /\ bill \in [Bills -> BillRow] /\ TypeOK /\ stl' = stl /\ tx[k].at = "balance read"
  BY DEF AccountsInv, TypeOK, SaleCommit
<1>2. /\ b \in Bills /\ bill[b].st = "Not drawn" /\ tx[k].money \in 1..MaxTotal
  BY <1>1 DEF AccountsInv, BillsPromised, OwnBill, Sales, Drawn
<1>3. /\ bill'[b] = [st |-> "Live", payer |-> p, total |-> tx[k].money]
      /\ \A c \in Bills : c # b => bill'[c] = bill[c]
  BY <1>1, <1>2 DEF SaleCommit
<1>4. tx[k].money \in Money /\ tx[k].money \in Nat
  <2>1. tx[k].money \in 0..MaxTotal /\ tx[k].money \in Nat
    <3>1. tx[k].money \in 1..MaxTotal
      BY <1>2
    <3> QED
      BY <3>1, BillAssumption
  <2>2. b \in Bills
    BY <1>2
  <2> QED
    BY <2>1, <2>2, TotalsAreMoney
<1>5. ChargesOf(p) \in [Bills -> Money] /\ IsFiniteSet(Bills)
  BY <1>1, BalanceTypes, MoneyType
<1>6. g[b] = tx[k].money /\ ChargesOf(p)[b] = 0 /\ \A c \in Bills : c # b => g[c] = ChargesOf(p)[c]
  <2>1. \A c \in Bills : ChargesOf(p)[c] = IF bill[c].st = "Live" /\ bill[c].payer = p
                                           THEN bill[c].total ELSE 0
    BY DEF ChargesOf
  <2>2. bill'[b].st = "Live" /\ bill'[b].payer = p /\ bill'[b].total = tx[k].money
    BY <1>3
  <2> QED
    BY <1>2, <1>3, <2>1, <2>2
<1>7. g \in [Bills -> Money]
  <2>1. \A c \in Bills : g[c] \in Money
    <3> HIDE DEF g
    <3> QED
      BY <1>4, <1>5, <1>6
  <2> QED
    BY <2>1
<1>8. Charged(p)' = Sum(g)
  BY DEF Charged, Sum
<1>9. Settled(p)' = Settled(p)
  BY <1>1 DEF Settled, Sum
<1> HIDE DEF g
<1>10. Sum(g) + ChargesOf(p)[b] = Sum(ChargesOf(p)) + g[b]
  <2>1. \A c \in Bills : c # b => g[c] = ChargesOf(p)[c]
    BY <1>6
  <2>2. b \in Bills /\ IsFiniteSet(Bills) /\ ChargesOf(p) \in [Bills -> Money]
    BY <1>2, <1>5
  <2>3. PICK f \in [Bills -> Money] : f = ChargesOf(p)
    BY <2>2
  <2>4. PICK h \in [Bills -> Money] : h = g
    BY <1>7
  <2>5. \A c \in Bills : c # b => h[c] = f[c]
    BY <2>1, <2>3, <2>4
  <2>6. Sum(h) + f[b] = Sum(f) + h[b]
    BY <2>2, <2>5, SumPoint
  <2> QED
    BY <2>3, <2>4, <2>6
<1>11. /\ Charged(p) = Sum(ChargesOf(p)) /\ Charged(p) \in Nat /\ Settled(p) \in Nat
  BY <1>1, BalancesAreSums
<1>12. Charged(p)' = Charged(p) + tx[k].money
  <2>1. Sum(g) \in Nat
    BY <1>5, <1>7, SumIsNat
  <2> QED
    BY <1>4, <1>6, <1>8, <1>10, <1>11, <2>1
<1> QED
  BY <1>4, <1>9, <1>11, <1>12 DEF OutstandingFor, Least

-----------------------------------------------------------------------------
(* A step keeps the invariant: one lemma for each part of it.              *)

LEMMA TypesOfIdle == Idle \in TxnRow /\ NoLines \in Allocation
<1>1. NBills \in Nat /\ 0 \in Money
  BY BillAssumption, MoneyType DEF Money
<1>2. NoLines \in Allocation
  BY <1>1 DEF NoLines, Allocation
<1> QED
  BY <1>1, <1>2 DEF Idle, TxnRow

\* What a payment reads of the bills is a plan that spends all of it.
LEMMA PlanOfRead ==
    ASSUME AccountsInv, NEW k \in Txns, RecordReadBills(k)
    PROVE  /\ tx'[k] = [tx[k] EXCEPT !.at = "bills read", !.lines = tx'[k].lines]
           /\ \A j \in Txns : j # k => tx'[j] = tx[j]
           /\ tx'[k].lines \in Allocation /\ Sum(tx'[k].lines) = tx[k].money
           /\ \A b \in Bills : tx'[k].lines[b] <= OpenBillsFor(tx[k].payer)[b]
           /\ \A b, c \in Bills : b < c /\ tx'[k].lines[c] > 0 =>
                 tx'[k].lines[b] = OpenBillsFor(tx[k].payer)[b]
<1>1. PICK plan : plan = AllocateSettlement(OpenBillsFor(tx[k].payer), tx[k].money)
  OBVIOUS
<1>2. TypeOK /\ tx \in [Txns -> TxnRow] /\ tx[k] \in TxnRow /\ tx[k].money \in Money
  BY DEF AccountsInv, TypeOK, TxnRow
<1>3. Allocated(plan, OpenBillsFor(tx[k].payer), tx[k].money)
  <2>1. OpenBillsFor(tx[k].payer) \in [Bills -> Money]
    BY <1>2, OpenBillsType
  <2> QED
    BY <1>1, <1>2, <2>1, AllocationRule
<1>4. /\ plan.left = 0
      /\ tx' = [tx EXCEPT ![k] = [tx[k] EXCEPT !.at = "bills read", !.lines = plan.lines]]
  BY <1>1, <1>2 DEF RecordReadBills
<1>5. /\ tx'[k] = [tx[k] EXCEPT !.at = "bills read", !.lines = plan.lines]
      /\ \A j \in Txns : j # k => tx'[j] = tx[j]
  BY <1>2, <1>4
<1>6. tx'[k].lines = plan.lines
  BY <1>2, <1>5 DEF TxnRow
<1>7. plan.lines \in [Bills -> Money] /\ Sum(plan.lines) + plan.left = tx[k].money
  BY <1>3 DEF Allocated
<1>8. Sum(plan.lines) = tx[k].money
  <2>1. Sum(plan.lines) \in Nat
    BY <1>7, SumIsNat, MoneyType
  <2> QED
    BY <1>4, <1>7, <2>1
<1>9. /\ \A b \in Bills : plan.lines[b] <= OpenBillsFor(tx[k].payer)[b]
      /\ \A b, c \in Bills : b < c /\ plan.lines[c] > 0 =>
            plan.lines[b] = OpenBillsFor(tx[k].payer)[b]
  BY <1>3 DEF Allocated
<1>10. tx'[k] = [tx[k] EXCEPT !.at = "bills read", !.lines = tx'[k].lines]
  BY <1>5, <1>6
<1> QED
  BY <1>5, <1>6, <1>7, <1>8, <1>9, <1>10 DEF Allocation

LEMMA TypesKept ==
    ASSUME AccountsInv, Next
    PROVE  TypeOK'
<1>0. /\ TypeOK /\ bill \in [Bills -> BillRow] /\ stl \in [Settlements -> SettlementRow]
      /\ limit \in [Payers -> Limits \cup {NoLimit}] /\ tx \in [Txns -> TxnRow]
      /\ Idle \in TxnRow
  BY TypesOfIdle DEF AccountsInv, TypeOK
<1>1. ASSUME NEW k \in Txns, NEW p \in Payers, NEW b \in Bills, NEW total \in 1..MaxTotal,
             SaleReadTerms(k, p, b, total)
      PROVE  TypeOK'
  <2>1. total \in Money /\ b \in 0..NBills
    BY TotalsAreMoney, BillAssumption DEF Bills
  <2>2. limit[p] \in Limits \cup {NoLimit}
    BY <1>0
  <2>3. [Idle EXCEPT !.at = "terms read", !.payer = p, !.bill = b, !.money = total,
                     !.limit = limit[p]] \in TxnRow
    BY <1>0, <2>1, <2>2 DEF TxnRow
  <2>4. tx' \in [Txns -> TxnRow]
    BY <1>0, <1>1, <2>3 DEF SaleReadTerms
  <2> QED
    BY <1>0, <1>1, <2>4 DEF SaleReadTerms, TypeOK
<1>2. ASSUME NEW k \in Txns, SaleReadBalance(k) PROVE TypeOK'
  BY <1>0, <1>2 DEF SaleReadBalance, TypeOK, TxnRow, UnderLock
<1>3. ASSUME NEW k \in Txns, SaleCommit(k) PROVE TypeOK'
  <2>1. tx[k].money \in 1..MaxTotal /\ tx[k].payer \in Payers
    BY <1>3 DEF AccountsInv, BillsPromised, OwnBill, Sales, SaleCommit
  <2>2. tx[k].money \in 0..MaxTotal
    BY <2>1, BillAssumption
  <2>3. [st |-> "Live", payer |-> tx[k].payer, total |-> tx[k].money] \in BillRow
    BY <2>1, <2>2 DEF BillRow
  <2>4. bill' \in [Bills -> BillRow] /\ tx' \in [Txns -> TxnRow]
    BY <1>0, <1>3, <2>3 DEF SaleCommit
  <2> QED
    BY <1>0, <1>3, <2>4 DEF SaleCommit, TypeOK
<1>4. ASSUME NEW k \in Txns, NEW p \in Payers, RecordReadOwed(k, p) PROVE TypeOK'
  <2>1. PICK amount \in 1..OutstandingFor(p) :
            tx' = [tx EXCEPT ![k] = [Idle EXCEPT !.at = "owed read", !.payer = p, !.money = amount]]
    BY <1>4 DEF RecordReadOwed
  <2>2. amount \in Money
    <3>1. OutstandingFor(p) \in Money
      BY <1>0, OutstandingIsMoney
    <3> QED
      BY <3>1, MoneyType DEF Money
  <2>3. [Idle EXCEPT !.at = "owed read", !.payer = p, !.money = amount] \in TxnRow
    BY <1>0, <2>2 DEF TxnRow, UnderLock
  <2>4. tx' \in [Txns -> TxnRow]
    BY <1>0, <2>1, <2>3
  <2> QED
    BY <1>0, <1>4, <2>4 DEF RecordReadOwed, TypeOK
<1>5. ASSUME NEW k \in Txns, RecordReadBills(k) PROVE TypeOK'
  <2>1. /\ tx'[k] = [tx[k] EXCEPT !.at = "bills read", !.lines = tx'[k].lines]
        /\ \A j \in Txns : j # k => tx'[j] = tx[j]
        /\ tx'[k].lines \in Allocation
    BY <1>5, PlanOfRead
  <2>2. tx'[k] \in TxnRow
    <3>1. PICK ls \in Allocation : ls = tx'[k].lines
      BY <2>1
    <3>2. [tx[k] EXCEPT !.at = "bills read", !.lines = ls] \in TxnRow
      BY <1>0 DEF TxnRow, UnderLock
    <3> QED
      BY <2>1, <3>1, <3>2
  <2>3. tx' \in [Txns -> TxnRow]
    <3>1. DOMAIN tx' = Txns /\ tx' = [j \in DOMAIN tx' |-> tx'[j]]
      BY <1>0, <1>5 DEF RecordReadBills
    <3>2. \A j \in Txns : tx'[j] \in TxnRow
      BY <1>0, <2>1, <2>2
    <3> QED
      BY <3>1, <3>2
  <2> QED
    BY <1>0, <1>5, <2>3 DEF RecordReadBills, TypeOK
<1>6. ASSUME NEW k \in Txns, NEW s \in Settlements, RecordCommit(k, s) PROVE TypeOK'
  <2>1. tx[k] \in TxnRow
    BY <1>0
  <2>2. [st |-> "Live", payer |-> tx[k].payer, amount |-> tx[k].money, lines |-> tx[k].lines]
            \in SettlementRow
    BY <2>1 DEF SettlementRow, TxnRow
  <2>3. stl' \in [Settlements -> SettlementRow] /\ tx' \in [Txns -> TxnRow]
    BY <1>0, <1>6, <2>2 DEF RecordCommit
  <2> QED
    BY <1>0, <1>6, <2>3 DEF RecordCommit, TypeOK
<1>7. ASSUME NEW k \in Txns, Rollback(k) PROVE TypeOK'
  BY <1>0, <1>7 DEF Rollback, TypeOK
<1>8. ASSUME NEW b \in Bills, VoidBill(b) PROVE TypeOK'
  BY <1>0, <1>8 DEF VoidBill, TypeOK, BillRow
<1>9. ASSUME NEW s \in Settlements, VoidSettlement(s) PROVE TypeOK'
  BY <1>0, <1>9 DEF VoidSettlement, TypeOK, SettlementRow
<1>10. ASSUME NEW p \in Payers, NEW lim \in Limits \cup {NoLimit}, SetTerms(p, lim) PROVE TypeOK'
  BY <1>0, <1>10 DEF SetTerms, TypeOK
<1> QED
  BY <1>1, <1>2, <1>3, <1>4, <1>5, <1>6, <1>7, <1>8, <1>9, <1>10
     DEF Next, SaleStep, RecordStep, VoidStep

\* How a transaction may move: it takes a payer's lock only when nobody has it, and a bill only
\* when nobody has that.
TxnMoves(k) ==
    /\ \A j \in Txns : j # k => tx'[j] = tx[j]
    /\ tx'[k].at \in UnderLock =>
          \/ PayerFree(tx'[k].payer)
          \/ tx[k].at \in UnderLock /\ tx'[k].payer = tx[k].payer
    /\ tx'[k].at \in Sales =>
          \/ /\ tx[k].at \in Sales /\ tx'[k].bill = tx[k].bill
             /\ tx'[k].money = tx[k].money /\ tx'[k].payer = tx[k].payer
          \/ /\ tx'[k].bill \in Bills /\ Untaken(tx'[k].bill)
             /\ tx'[k].money \in 1..MaxTotal /\ tx'[k].payer \in Payers
    /\ tx'[k].at \notin Sales => tx'[k].bill = 0

LEMMA OneTxnMoves ==
    ASSUME AccountsInv, Next
    PROVE  tx' = tx \/ \E k \in Txns : TxnMoves(k)
<1>0. /\ tx \in [Txns -> TxnRow]
      /\ Idle.at = "idle" /\ Idle.bill = 0 /\ "idle" \notin Sales /\ "idle" \notin UnderLock
      /\ \A k \in Txns : tx[k].at \notin Sales => tx[k].bill = 0
  BY DEF AccountsInv, TypeOK, BillsPromised, OwnBill, Idle, Sales, UnderLock
<1>1. ASSUME NEW k \in Txns, NEW p \in Payers, NEW b \in Bills, NEW total \in 1..MaxTotal,
             SaleReadTerms(k, p, b, total)
      PROVE  TxnMoves(k)
  <2>1. /\ tx'[k] = [Idle EXCEPT !.at = "terms read", !.payer = p, !.bill = b, !.money = total,
                                 !.limit = limit[p]]
        /\ \A j \in Txns : j # k => tx'[j] = tx[j]
        /\ Untaken(b)
    BY <1>0, <1>1 DEF SaleReadTerms
  <2>2. /\ tx'[k].at = "terms read" /\ tx'[k].payer = p /\ tx'[k].bill = b /\ tx'[k].money = total
    BY <2>1 DEF Idle
  <2> QED
    BY <2>1, <2>2 DEF TxnMoves, Sales, UnderLock
<1>2. ASSUME NEW k \in Txns, SaleReadBalance(k) PROVE TxnMoves(k)
  <2>1. /\ tx'[k] = [tx[k] EXCEPT !.at = "balance read"]
        /\ \A j \in Txns : j # k => tx'[j] = tx[j]
        /\ tx[k].at = "terms read" /\ PayerFree(tx[k].payer) /\ tx[k] \in TxnRow
    BY <1>0, <1>2 DEF SaleReadBalance
  <2>2. /\ tx'[k].at = "balance read" /\ tx'[k].payer = tx[k].payer /\ tx'[k].bill = tx[k].bill
        /\ tx'[k].money = tx[k].money
    BY <2>1 DEF TxnRow
  <2> QED
    BY <2>1, <2>2 DEF TxnMoves, Sales, UnderLock
<1>3. ASSUME NEW k \in Txns, tx' = [tx EXCEPT ![k] = Idle] PROVE TxnMoves(k)
  BY <1>0, <1>3 DEF TxnMoves
<1>4. ASSUME NEW k \in Txns, NEW p \in Payers, RecordReadOwed(k, p) PROVE TxnMoves(k)
  <2>1. PICK amount :
            tx' = [tx EXCEPT ![k] = [Idle EXCEPT !.at = "owed read", !.payer = p, !.money = amount]]
    BY <1>4 DEF RecordReadOwed
  <2>2. /\ tx'[k] = [Idle EXCEPT !.at = "owed read", !.payer = p, !.money = amount]
        /\ \A j \in Txns : j # k => tx'[j] = tx[j]
        /\ PayerFree(p)
    BY <1>0, <1>4, <2>1 DEF RecordReadOwed
  <2>3. tx'[k].at = "owed read" /\ tx'[k].payer = p /\ tx'[k].bill = 0
    BY <2>2 DEF Idle
  <2> QED
    BY <2>2, <2>3 DEF TxnMoves, Sales, UnderLock
<1>5. ASSUME NEW k \in Txns, RecordReadBills(k) PROVE TxnMoves(k)
  <2>1. /\ tx'[k] = [tx[k] EXCEPT !.at = "bills read", !.lines = tx'[k].lines]
        /\ \A j \in Txns : j # k => tx'[j] = tx[j]
    BY <1>5, PlanOfRead
  <2>2. tx[k].at = "owed read" /\ tx[k] \in TxnRow
    BY <1>0, <1>5 DEF RecordReadBills
  <2>3. tx'[k].at = "bills read" /\ tx'[k].payer = tx[k].payer /\ tx'[k].bill = tx[k].bill
    <3> PICK ls : ls = tx'[k].lines
      OBVIOUS
    <3>1. tx'[k] = [tx[k] EXCEPT !.at = "bills read", !.lines = ls]
      BY <2>1
    <3> QED
      BY <2>2, <3>1 DEF TxnRow
  <2>4. tx[k].bill = 0
    BY <1>0, <2>2 DEF Sales
  <2> QED
    BY <2>1, <2>2, <2>3, <2>4 DEF TxnMoves, Sales, UnderLock
<1> QED
  BY <1>1, <1>2, <1>3, <1>4, <1>5
     DEF Next, SaleStep, RecordStep, VoidStep, SaleCommit, RecordCommit, Rollback, VoidBill,
         VoidSettlement, SetTerms

LEMMA LocksKept ==
    ASSUME AccountsInv, Next
    PROVE  LockHeldByOne'
<1>1. LockHeldByOne
  BY DEF AccountsInv
<1>2. CASE tx' = tx
  BY <1>1, <1>2 DEF LockHeldByOne
<1>3. ASSUME NEW k \in Txns, TxnMoves(k) PROVE LockHeldByOne'
  BY <1>1, <1>3 DEF LockHeldByOne, TxnMoves, PayerFree
<1> QED
  BY <1>2, <1>3, OneTxnMoves

\* The bills that are drawn or voided by a step, and what else happens to them.
LEMMA BillsMove ==
    ASSUME AccountsInv, Next
    PROVE  \/ bill' = bill
           \/ \E k \in Txns : SaleCommit(k)
           \/ \E b \in Bills : VoidBill(b)
BY DEF Next, SaleStep, RecordStep, VoidStep, SaleReadTerms, SaleReadBalance, RecordReadOwed,
       RecordReadBills, RecordCommit, Rollback, VoidSettlement, SetTerms

\* What a commit of a sale and the void of a bill do, bill by bill.
LEMMA SaleDraws ==
    ASSUME AccountsInv, NEW k \in Txns, SaleCommit(k)
    PROVE  /\ tx[k].bill \in Bills /\ ~Drawn(tx[k].bill)
           /\ bill'[tx[k].bill] = [st |-> "Live", payer |-> tx[k].payer, total |-> tx[k].money]
           /\ \A c \in Bills : c # tx[k].bill => bill'[c] = bill[c]
           /\ stl' = stl /\ tx'[k] = Idle /\ \A j \in Txns : j # k => tx'[j] = tx[j]
           /\ tx[k].payer \in Payers
<1>1. /\ bill \in [Bills -> BillRow] /\ tx \in [Txns -> TxnRow] /\ tx[k].at = "balance read"
  BY DEF AccountsInv, TypeOK, SaleCommit
<1>2. tx[k].bill \in Bills /\ ~Drawn(tx[k].bill) /\ tx[k].payer \in Payers
  BY <1>1 DEF AccountsInv, BillsPromised, OwnBill, Sales
<1> QED
  BY <1>1, <1>2 DEF SaleCommit

LEMMA VoidMarks ==
    ASSUME AccountsInv, NEW b \in Bills, VoidBill(b)
    PROVE  /\ bill[b].st = "Live" /\ bill'[b].st = "Voided"
           /\ bill'[b].payer = bill[b].payer /\ bill'[b].total = bill[b].total
           /\ \A c \in Bills : c # b => bill'[c] = bill[c]
           /\ stl' = stl /\ tx' = tx
<1>1. bill \in [Bills -> BillRow] /\ bill[b] \in BillRow
  BY DEF AccountsInv, TypeOK
<1>2. bill' = [bill EXCEPT ![b] = [bill[b] EXCEPT !.st = "Voided"]]
  BY DEF VoidBill
<1> QED
  BY <1>1, <1>2 DEF VoidBill, BillRow

\* A bill is drawn by the sale that works on it and by nobody else.
LEMMA DrawnByItsSale ==
    ASSUME AccountsInv, Next, NEW b \in Bills, ~Drawn(b),
           \A j \in Txns : tx[j].bill = b => ~SaleCommit(j)
    PROVE  bill'[b].st = "Not drawn"
<1>1. CASE bill' = bill
  BY <1>1 DEF Drawn
<1>2. ASSUME NEW j \in Txns, SaleCommit(j) PROVE bill'[b].st = "Not drawn"
  <2>1. PICK d : d = tx[j].bill
    OBVIOUS
  <2>2. d # b
    BY <1>2, <2>1
  <2>3. \A c \in Bills : c # d => bill'[c] = bill[c]
    BY <1>2, <2>1, SaleDraws
  <2> QED
    BY <2>2, <2>3 DEF Drawn
<1>3. ASSUME NEW c \in Bills, VoidBill(c) PROVE bill'[b].st = "Not drawn"
  <2>1. bill[c].st = "Live"
    BY <1>3, VoidMarks
  <2>2. c # b
    BY <2>1 DEF Drawn
  <2>3. bill'[b] = bill[b]
    BY <1>3, <2>2, VoidMarks
  <2> QED
    BY <2>3 DEF Drawn
<1> QED
  BY <1>1, <1>2, <1>3, BillsMove

LEMMA PromisesKept ==
    ASSUME AccountsInv, Next
    PROVE  BillsPromised'
<1>0. BillsPromised /\ Idle.at \notin Sales
  BY DEF AccountsInv, Idle, Sales
\* A sale that goes on keeps its bill.
<1>1. ASSUME NEW k \in Txns, tx[k].at \in Sales, tx'[k].at \in Sales, NEW b, b = tx[k].bill
      PROVE  bill'[b].st = "Not drawn"
  <2>1. b \in Bills /\ ~Drawn(b) /\ \A j \in Txns : tx[j].bill = b => j = k
    BY <1>0, <1>1 DEF BillsPromised, OwnBill
  <2>2. ~SaleCommit(k)
    <3>1. SaleCommit(k) => tx'[k] = Idle
      BY SaleDraws
    <3> QED
      BY <1>0, <1>1, <3>1
  <2> QED
    BY <2>1, <2>2, DrawnByItsSale
<1>2. CASE tx' = tx
  <2> SUFFICES ASSUME NEW k \in Txns PROVE OwnBill(k)'
    BY DEF BillsPromised
  <2>1. OwnBill(k)
    BY <1>0 DEF BillsPromised
  <2>2. PICK b : b = tx[k].bill
    OBVIOUS
  <2>3. tx[k].at \in Sales => bill'[b].st = "Not drawn"
    BY <1>1, <1>2, <2>2
  <2> QED
    BY <1>2, <2>1, <2>2, <2>3 DEF OwnBill, Drawn
<1>3. ASSUME NEW k \in Txns, TxnMoves(k) PROVE BillsPromised'
  <2>0. \A j \in Txns : OwnBill(j)
    BY <1>0 DEF BillsPromised
  <2>1. ASSUME NEW j \in Txns, j # k PROVE OwnBill(j)'
    <3>1. tx'[j] = tx[j] /\ OwnBill(j)
      BY <1>3, <2>0, <2>1 DEF TxnMoves
    <3>2. ASSUME tx[j].at \in Sales, tx'[k].bill = tx[j].bill PROVE FALSE
      <4>1. tx[j].bill \in Bills /\ tx[j].bill # 0 /\ tx[k].bill # tx[j].bill
        BY <2>1, <3>1, <3>2 DEF OwnBill, Bills
      <4>2. tx'[k].at \in Sales
        BY <1>3, <3>2, <4>1 DEF TxnMoves
      <4>3. Untaken(tx'[k].bill)
        BY <1>3, <3>2, <4>1, <4>2 DEF TxnMoves
      <4> QED
        BY <3>2, <4>3 DEF Untaken
    <3>3. ASSUME tx[j].at \in Sales, NEW i \in Txns, tx'[i].bill = tx[j].bill PROVE i = j
      <4>1. i # k
        BY <3>2, <3>3
      <4>2. tx'[i] = tx[i]
        BY <1>3, <4>1 DEF TxnMoves
      <4> QED
        BY <3>1, <3>3, <4>2 DEF OwnBill
    <3>4. PICK b : b = tx[j].bill
      OBVIOUS
    <3>5. tx[j].at \in Sales => bill'[b].st = "Not drawn"
      BY <1>1, <3>1, <3>4
    <3> QED
      BY <3>1, <3>3, <3>4, <3>5 DEF OwnBill, Drawn
  <2>2. OwnBill(k)'
    <3>1. CASE tx'[k].at \notin Sales
      BY <1>3, <3>1 DEF TxnMoves, OwnBill
    <3>2. ASSUME tx'[k].at \in Sales, NEW b, b = tx'[k].bill,
                 b \in Bills, bill'[b].st = "Not drawn", tx'[k].money \in 1..MaxTotal,
                 tx'[k].payer \in Payers, \A j \in Txns : j # k => tx[j].bill # b
          PROVE  OwnBill(k)'
      <4>1. \A j \in Txns : j # k => tx'[j].bill # b
        BY <1>3, <3>2 DEF TxnMoves
      <4> QED
        BY <3>2, <4>1 DEF OwnBill, Drawn
    <3>3. PICK b : b = tx'[k].bill
      OBVIOUS
    <3>4. CASE /\ tx'[k].at \in Sales /\ tx[k].at \in Sales /\ tx'[k].bill = tx[k].bill
               /\ tx'[k].money = tx[k].money /\ tx'[k].payer = tx[k].payer
      <4>1. /\ b \in Bills /\ tx'[k].money \in 1..MaxTotal /\ tx'[k].payer \in Payers
            /\ \A j \in Txns : j # k => tx[j].bill # b
        BY <2>0, <3>3, <3>4 DEF OwnBill
      <4>2. bill'[b].st = "Not drawn"
        BY <1>1, <3>3, <3>4
      <4> QED
        BY <3>2, <3>3, <3>4, <4>1, <4>2
    <3>5. CASE /\ tx'[k].at \in Sales /\ tx'[k].bill \in Bills /\ Untaken(tx'[k].bill)
               /\ tx'[k].money \in 1..MaxTotal /\ tx'[k].payer \in Payers
      <4>1. b \in Bills /\ ~Drawn(b) /\ \A j \in Txns : tx[j].bill # b
        BY <3>3, <3>5 DEF Untaken, Drawn
      <4>2. bill'[b].st = "Not drawn"
        BY <4>1, DrawnByItsSale
      <4> QED
        BY <3>2, <3>3, <3>5, <4>1, <4>2
    <3> QED
      BY <1>3, <3>1, <3>4, <3>5 DEF TxnMoves
  <2> QED
    BY <2>1, <2>2 DEF BillsPromised
<1> QED
  BY <1>2, <1>3, OneTxnMoves

LEMMA SettlementsMove ==
    ASSUME AccountsInv, Next
    PROVE  \/ stl' = stl
           \/ \E k \in Txns, s \in Settlements : RecordCommit(k, s)
           \/ \E s \in Settlements : VoidSettlement(s)
BY DEF Next, SaleStep, RecordStep, VoidStep, SaleReadTerms, SaleReadBalance, RecordReadOwed,
       RecordReadBills, SaleCommit, Rollback, VoidBill, SetTerms

LEMMA CommitWrites ==
    ASSUME AccountsInv, NEW k \in Txns, NEW s \in Settlements, RecordCommit(k, s)
    PROVE  /\ stl[s].st = "Not drawn" /\ tx[k].at = "bills read"
           /\ stl'[s] = [st |-> "Live", payer |-> tx[k].payer, amount |-> tx[k].money,
                         lines |-> tx[k].lines]
           /\ stl'[s].st = "Live" /\ stl'[s].payer = tx[k].payer /\ stl'[s].lines = tx[k].lines
           /\ stl'[s].amount = tx[k].money
           /\ \A t \in Settlements : t # s => stl'[t] = stl[t]
           /\ bill' = bill /\ tx'[k] = Idle /\ \A j \in Txns : j # k => tx'[j] = tx[j]
<1>1. stl \in [Settlements -> SettlementRow] /\ tx \in [Txns -> TxnRow]
  BY DEF AccountsInv, TypeOK
<1> QED
  BY <1>1 DEF RecordCommit

LEMMA VoidSettles ==
    ASSUME AccountsInv, NEW s \in Settlements, VoidSettlement(s)
    PROVE  /\ stl[s].st = "Live" /\ PayerFree(stl[s].payer)
           /\ stl'[s].st = "Voided" /\ stl'[s].payer = stl[s].payer
           /\ stl'[s].amount = stl[s].amount
           /\ \A t \in Settlements : stl'[t].lines = stl[t].lines
           /\ \A t \in Settlements : t # s => stl'[t] = stl[t]
           /\ bill' = bill /\ tx' = tx
<1>1. stl \in [Settlements -> SettlementRow] /\ stl[s] \in SettlementRow
  BY DEF AccountsInv, TypeOK
<1>2. stl' = [stl EXCEPT ![s] = [stl[s] EXCEPT !.st = "Voided"]]
  BY DEF VoidSettlement
<1>3. stl'[s] = [stl[s] EXCEPT !.st = "Voided"] /\ \A t \in Settlements : t # s => stl'[t] = stl[t]
  BY <1>1, <1>2
<1>4. /\ stl'[s].st = "Voided" /\ stl'[s].payer = stl[s].payer /\ stl'[s].amount = stl[s].amount
      /\ stl'[s].lines = stl[s].lines
  BY <1>1, <1>3 DEF SettlementRow
<1> QED
  BY <1>3, <1>4 DEF VoidSettlement

\* What a drawn bill says of its payer and total stands.
LEMMA DrawnStays ==
    ASSUME AccountsInv, Next, NEW b \in Bills, Drawn(b)
    PROVE  /\ bill'[b].st # "Not drawn" /\ bill'[b].payer = bill[b].payer
           /\ bill'[b].total = bill[b].total
           /\ bill'[b].st = "Live" => bill[b].st = "Live"
<1>1. CASE bill' = bill
  BY <1>1 DEF Drawn
<1>2. ASSUME NEW j \in Txns, SaleCommit(j) PROVE bill'[b] = bill[b]
  <2>1. PICK d : d = tx[j].bill
    OBVIOUS
  <2>2. ~Drawn(d) /\ \A c \in Bills : c # d => bill'[c] = bill[c]
    BY <1>2, <2>1, SaleDraws
  <2> QED
    BY <2>2
<1>3. ASSUME NEW c \in Bills, VoidBill(c)
      PROVE  /\ bill'[b].st # "Not drawn" /\ bill'[b].payer = bill[b].payer
             /\ bill'[b].total = bill[b].total
             /\ bill'[b].st = "Live" => bill[b].st = "Live"
  <2>1. CASE b = c
    BY <1>3, <2>1, VoidMarks
  <2>2. CASE b # c
    <3>1. bill'[b] = bill[b]
      BY <1>3, <2>2, VoidMarks
    <3> QED
      BY <3>1 DEF Drawn
  <2> QED
    BY <2>1, <2>2
<1> QED
  BY <1>1, <1>2, <1>3, BillsMove DEF Drawn

LEMMA RowsKept ==
    ASSUME AccountsInv, Next
    PROVE  FreshRows'
<1>0. FreshRows /\ TypeOK /\ bill \in [Bills -> BillRow]
  BY DEF AccountsInv, TypeOK
<1>1. ASSUME NEW b \in Bills, bill'[b].st = "Not drawn" PROVE bill'[b].total = 0
  <2>1. ~Drawn(b)
    BY <1>1, DrawnStays
  <2>2. bill[b].total = 0
    BY <1>0, <2>1 DEF FreshRows
  <2>3. bill'[b] = bill[b]
    <3>1. CASE bill' = bill
      BY <3>1
    <3>2. ASSUME NEW j \in Txns, SaleCommit(j) PROVE bill'[b] = bill[b]
      <4>1. PICK d : d = tx[j].bill
        OBVIOUS
      <4>2. \A c \in Bills : c # d => bill'[c] = bill[c]
        BY <3>2, <4>1, SaleDraws
      <4>3. bill'[tx[j].bill] = [st |-> "Live", payer |-> tx[j].payer, total |-> tx[j].money]
        BY <3>2, SaleDraws
      <4>4. bill'[d].st = "Live"
        BY <4>1, <4>3
      <4> QED
        BY <1>1, <4>2, <4>4
    <3>3. ASSUME NEW c \in Bills, VoidBill(c) PROVE bill'[b] = bill[b]
      <4>1. bill'[c].st = "Voided" /\ \A d \in Bills : d # c => bill'[d] = bill[d]
        BY <3>3, VoidMarks
      <4> QED
        BY <1>1, <4>1
    <3> QED
      BY <3>1, <3>2, <3>3, BillsMove
  <2> QED
    BY <2>2, <2>3
<1>2. ASSUME NEW s \in Settlements, stl'[s].st = "Not drawn" PROVE stl'[s].lines = NoLines
  <2>1. CASE stl' = stl
    BY <1>0, <1>2, <2>1 DEF FreshRows
  <2>2. ASSUME NEW k \in Txns, NEW t \in Settlements, RecordCommit(k, t)
        PROVE  stl'[s].lines = NoLines
    <3>1. stl'[t].st = "Live" /\ \A u \in Settlements : u # t => stl'[u] = stl[u]
      BY <2>2, CommitWrites
    <3> QED
      BY <1>0, <1>2, <3>1 DEF FreshRows
  <2>3. ASSUME NEW t \in Settlements, VoidSettlement(t) PROVE stl'[s].lines = NoLines
    <3>1. stl'[t].st = "Voided" /\ \A u \in Settlements : u # t => stl'[u] = stl[u]
      BY <2>3, VoidSettles
    <3> QED
      BY <1>0, <1>2, <3>1 DEF FreshRows
  <2> QED
    BY <2>1, <2>2, <2>3, SettlementsMove
<1> QED
  BY <1>1, <1>2 DEF FreshRows, Drawn

\* How the columns move: as a payment commits, by its lines, and in no other way.
LEMMA ColumnsMove ==
    ASSUME AccountsInv, Next
    PROVE  \/ \A b : SettledColumn(b)' = SettledColumn(b)
           \/ \E k \in Txns, s \in Settlements : RecordCommit(k, s)
<1>1. CASE stl' = stl
  BY <1>1, ColumnsStay
<1>2. ASSUME NEW s \in Settlements, VoidSettlement(s)
      PROVE  \A b : SettledColumn(b)' = SettledColumn(b)
  <2>1. \A t \in Settlements : stl'[t].lines = stl[t].lines
    BY <1>2, VoidSettles
  <2> QED
    BY <2>1, ColumnsStay
<1> QED
  BY <1>1, <1>2, SettlementsMove

\* The lines of a payment that has read the bills, as numbers.
LEMMA LinesAreMoney ==
    ASSUME TypeOK
    PROVE  /\ \A k \in Txns, b \in Bills : tx[k].lines[b] \in Nat
           /\ \A s \in Settlements, b \in Bills : stl[s].lines[b] \in Nat
           /\ \A b \in Bills : bill[b].total \in Nat
<1>1. /\ \A k \in Txns : tx[k] \in TxnRow
      /\ \A s \in Settlements : stl[s] \in SettlementRow
      /\ \A b \in Bills : bill[b] \in BillRow
  BY DEF TypeOK
<1>2. \A k \in Txns : tx[k].lines \in [Bills -> Money]
  BY <1>1 DEF TxnRow, Allocation
<1>3. \A s \in Settlements : stl[s].lines \in [Bills -> Money]
  BY <1>1 DEF SettlementRow, Allocation
<1>4. \A b \in Bills : bill[b].total \in 0..MaxTotal
  BY <1>1 DEF BillRow
<1>5. Money \subseteq Nat /\ 0..MaxTotal \subseteq Nat
  BY MoneyType, BillAssumption DEF Money
<1> QED
  BY <1>2, <1>3, <1>4, <1>5

LEMMA ColumnsKept ==
    ASSUME AccountsInv, Next, TypeOK'
    PROVE  \A b \in Bills : SettledColumn(b)' <= bill'[b].total
<1> SUFFICES ASSUME NEW b \in Bills PROVE SettledColumn(b)' <= bill'[b].total
  OBVIOUS
<1>0. /\ TypeOK /\ SettledColumn(b) \in Nat /\ SettledColumn(b) <= bill[b].total
      /\ bill[b].total \in Nat
  BY BalancesAreSums, LinesAreMoney DEF AccountsInv, ColumnsFit
<1>1. ASSUME SettledColumn(b)' = SettledColumn(b) PROVE SettledColumn(b)' <= bill'[b].total
  <2>1. CASE Drawn(b)
    BY <1>0, <1>1, <2>1, DrawnStays
  <2>2. CASE ~Drawn(b)
    <3>1. bill[b].total = 0
      BY <2>2 DEF AccountsInv, FreshRows
    <3>2. bill'[b].total \in 0..MaxTotal
      <4>1. bill'[b] \in BillRow
        BY DEF TypeOK
      <4> QED
        BY <4>1 DEF BillRow
    <3>3. bill'[b].total >= 0
      BY <3>2
    <3> QED
      BY <1>0, <1>1, <3>1, <3>2, <3>3, BillAssumption
  <2> QED
    BY <2>1, <2>2
<1>2. ASSUME NEW k \in Txns, NEW s \in Settlements, RecordCommit(k, s)
      PROVE  SettledColumn(b)' <= bill'[b].total
  <2>1. SettledColumn(b)' = SettledColumn(b) + tx[k].lines[b] /\ tx[k].lines[b] \in Nat
    BY <1>0, <1>2, ColumnsGrow, LinesAreMoney
  <2>2. bill' = bill /\ tx[k].at = "bills read"
    BY <1>2, CommitWrites
  <2>3. tx[k].lines[b] > 0 => SettledColumn(b) + tx[k].lines[b] <= bill[b].total
    BY <2>2 DEF AccountsInv, PlansHold, PlanHolds, LineFits, HasRead
  <2>4. bill'[b].total = bill[b].total
    BY <2>2
  <2>5. SettledColumn(b) + tx[k].lines[b] <= bill[b].total
    BY <1>0, <2>1, <2>3
  <2> QED
    BY <2>1, <2>4, <2>5
<1> QED
  BY <1>1, <1>2, ColumnsMove

\* A transaction that is past the reads got there in this step, or does not move.
LEMMA WhereItStands ==
    ASSUME AccountsInv, Next, NEW k \in Txns
    PROVE  /\ tx'[k].at = "bills read" => RecordReadBills(k) \/ tx'[k] = tx[k]
           /\ tx'[k].at = "balance read" => SaleReadBalance(k) \/ tx'[k] = tx[k]
<1>0. tx \in [Txns -> TxnRow] /\ Idle.at = "idle"
  BY DEF AccountsInv, TypeOK, Idle
<1>1. ASSUME NEW j \in Txns, NEW p \in Payers, NEW b \in Bills, NEW total \in 1..MaxTotal,
             SaleReadTerms(j, p, b, total)
      PROVE  tx'[k].at = "terms read" \/ tx'[k] = tx[k]
  <2>1. tx' = [tx EXCEPT ![j] = [Idle EXCEPT !.at = "terms read", !.payer = p, !.bill = b,
                                             !.money = total, !.limit = limit[p]]]
    BY <1>1 DEF SaleReadTerms
  <2> QED
    BY <1>0, <2>1 DEF Idle
<1>2. ASSUME NEW j \in Txns, SaleReadBalance(j)
      PROVE  SaleReadBalance(k) \/ tx'[k] = tx[k]
  <2>1. j # k => tx'[k] = tx[k]
    BY <1>0, <1>2 DEF SaleReadBalance
  <2> QED
    BY <1>2, <2>1
<1>3. ASSUME NEW j \in Txns, SaleReadBalance(j)
      PROVE  tx'[k].at = "balance read" \/ tx'[k] = tx[k]
  <2>1. tx' = [tx EXCEPT ![j] = [tx[j] EXCEPT !.at = "balance read"]]
    BY <1>3 DEF SaleReadBalance
  <2>2. tx'[j] = [tx[j] EXCEPT !.at = "balance read"] /\ (j # k => tx'[k] = tx[k])
    BY <1>0, <2>1
  <2>3. tx[j] \in TxnRow
    BY <1>0
  <2> QED
    BY <2>2, <2>3 DEF TxnRow
<1>4. ASSUME NEW j \in Txns, NEW p \in Payers, RecordReadOwed(j, p)
      PROVE  tx'[k].at = "owed read" \/ tx'[k] = tx[k]
  <2>1. PICK amount :
            tx' = [tx EXCEPT ![j] = [Idle EXCEPT !.at = "owed read", !.payer = p, !.money = amount]]
    BY <1>4 DEF RecordReadOwed
  <2> QED
    BY <1>0, <2>1 DEF Idle
<1>5. ASSUME NEW j \in Txns, RecordReadBills(j)
      PROVE  (RecordReadBills(k) /\ tx'[k].at = "bills read") \/ tx'[k] = tx[k]
  <2>1. /\ tx'[j] = [tx[j] EXCEPT !.at = "bills read", !.lines = tx'[j].lines]
        /\ j # k => tx'[k] = tx[k]
    BY <1>5, PlanOfRead
  <2>2. PICK ls : ls = tx'[j].lines
    OBVIOUS
  <2>3. tx'[j] = [tx[j] EXCEPT !.at = "bills read", !.lines = ls] /\ tx[j] \in TxnRow
    BY <1>0, <2>1, <2>2
  <2>4. tx'[j].at = "bills read"
    BY <2>3 DEF TxnRow
  <2> QED
    BY <1>5, <2>1, <2>4
<1>6. ASSUME NEW j \in Txns, tx' = [tx EXCEPT ![j] = Idle]
      PROVE  tx'[k].at = "idle" \/ tx'[k] = tx[k]
  BY <1>0, <1>6
<1>7. CASE tx' = tx
  BY <1>7
<1>8. CASE SaleStep
  <2>1. CASE \E j \in Txns : SaleReadBalance(j)
    BY <1>2, <1>3, <2>1
  <2>2. CASE \E j \in Txns : SaleCommit(j)
    BY <1>6, <2>2 DEF SaleCommit
  <2> QED
    BY <1>1, <1>8, <2>1, <2>2 DEF SaleStep
<1>9. CASE RecordStep
  <2>1. CASE \E j \in Txns, s \in Settlements : RecordCommit(j, s)
    BY <1>6, <2>1 DEF RecordCommit
  <2>2. CASE \E j \in Txns : RecordReadBills(j)
    BY <1>5, <2>2
  <2> QED
    BY <1>4, <1>9, <2>1, <2>2 DEF RecordStep
<1>10. CASE \E j \in Txns : Rollback(j)
  BY <1>6, <1>10 DEF Rollback
<1> QED
  BY <1>7, <1>8, <1>9, <1>10 DEF Next, VoidStep, VoidBill, VoidSettlement, SetTerms

LEMMA PlansKept ==
    ASSUME AccountsInv, Next
    PROVE  PlansHold'
<1> SUFFICES ASSUME NEW k \in Txns, HasRead(k)'
             PROVE  /\ \A b \in Bills : LineFits(k, b)'
                    /\ \A b, c \in Bills : OldestBefore(k, b, c)'
                    /\ Sum(tx'[k].lines) = tx'[k].money
  BY DEF PlansHold, PlanHolds, Sum
<1>0. /\ \A b \in Bills : /\ SettledColumn(b) \in Nat /\ tx[k].lines[b] \in Nat
                          /\ bill[b].total \in Nat /\ SettledColumn(b) <= bill[b].total
  BY BalancesAreSums, LinesAreMoney DEF AccountsInv, ColumnsFit
<1>00. TypeOK /\ tx[k] \in TxnRow /\ LockHeldByOne
  BY DEF AccountsInv, TypeOK
\* It reads the bills in this step.
<1>1. CASE RecordReadBills(k)
  <2>1. /\ tx'[k].lines \in Allocation /\ Sum(tx'[k].lines) = tx[k].money
        /\ \A b \in Bills : tx'[k].lines[b] <= OpenBillsFor(tx[k].payer)[b]
        /\ \A b, c \in Bills : b < c /\ tx'[k].lines[c] > 0 =>
              tx'[k].lines[b] = OpenBillsFor(tx[k].payer)[b]
    BY <1>1, PlanOfRead
  <2>2. tx'[k].payer = tx[k].payer /\ tx'[k].money = tx[k].money
    <3>1. tx'[k] = [tx[k] EXCEPT !.at = "bills read", !.lines = tx'[k].lines]
      BY <1>1, PlanOfRead
    <3>2. PICK ls : ls = tx'[k].lines
      OBVIOUS
    <3>3. tx'[k] = [tx[k] EXCEPT !.at = "bills read", !.lines = ls]
      BY <3>1, <3>2
    <3> QED
      BY <1>00, <3>3 DEF TxnRow
  <2>3. bill' = bill /\ \A b : SettledColumn(b)' = SettledColumn(b)
    BY <1>1, ColumnsStay DEF RecordReadBills
  <2>4. \A b \in Bills : tx'[k].lines[b] \in Nat
    <3>1. Money \subseteq Nat
      BY MoneyType DEF Money
    <3> QED
      BY <2>1, <3>1 DEF Allocation
  <2>5. ASSUME NEW b \in Bills
        PROVE  OpenBillsFor(tx[k].payer)[b]
                  = IF LiveOf(b, tx[k].payer) /\ SettledColumn(b) < bill[b].total
                    THEN bill[b].total - SettledColumn(b) ELSE 0
    BY DEF OpenBillsFor, LiveOf
  <2>6. ASSUME NEW b \in Bills PROVE LineFits(k, b)'
    <3> SUFFICES ASSUME tx'[k].lines[b] > 0
                 PROVE  /\ Drawn(b)' /\ bill'[b].payer = tx'[k].payer
                        /\ SettledColumn(b)' + tx'[k].lines[b] <= bill'[b].total
      BY DEF LineFits
    <3>1. OpenBillsFor(tx[k].payer)[b] # 0
      BY <2>1, <2>4
    <3>2. /\ LiveOf(b, tx[k].payer)
          /\ OpenBillsFor(tx[k].payer)[b] = bill[b].total - SettledColumn(b)
      BY <2>5, <3>1
    <3>3. SettledColumn(b) + tx'[k].lines[b] <= bill[b].total
      <4>1. tx'[k].lines[b] <= bill[b].total - SettledColumn(b)
        BY <2>1, <3>2
      <4> QED
        BY <1>0, <2>4, <4>1
    <3>4. SettledColumn(b)' = SettledColumn(b) /\ bill'[b].total = bill[b].total
      BY <2>3
    <3>5. Drawn(b)' /\ bill'[b].payer = tx'[k].payer
      BY <2>2, <2>3, <3>2 DEF LiveOf, Drawn
    <3> QED
      BY <3>3, <3>4, <3>5
  <2>7. ASSUME NEW b \in Bills, NEW c \in Bills PROVE OldestBefore(k, b, c)'
    <3> SUFFICES ASSUME b < c, tx'[k].lines[c] > 0, LiveOf(b, tx[k].payer)
                 PROVE  SettledColumn(b)' + tx'[k].lines[b] = bill'[b].total
      BY <2>2, <2>3 DEF OldestBefore, LiveOf
    <3>1. tx'[k].lines[b] = OpenBillsFor(tx[k].payer)[b]
      BY <2>1
    <3>2. tx'[k].lines[b] = IF SettledColumn(b) < bill[b].total
                            THEN bill[b].total - SettledColumn(b) ELSE 0
      BY <2>5, <3>1
    <3>3. SettledColumn(b) + tx'[k].lines[b] = bill[b].total
      BY <1>0, <3>2
    <3>4. SettledColumn(b)' = SettledColumn(b) /\ bill'[b].total = bill[b].total
      BY <2>3
    <3> QED
      BY <3>3, <3>4
  <2> QED
    BY <2>1, <2>2, <2>6, <2>7
\* It read them before.
<1>2. CASE tx'[k] = tx[k]
  <2>0. HasRead(k)
    BY <1>2 DEF HasRead
  <2>1. /\ Sum(tx[k].lines) = tx[k].money
        /\ \A b \in Bills : LineFits(k, b)
        /\ \A b, c \in Bills : OldestBefore(k, b, c)
    BY <2>0 DEF AccountsInv, PlansHold, PlanHolds
  \* No payment of another payer touches a bill that this one pays, and no other is at work.
  <2>2. ASSUME NEW b \in Bills, Drawn(b), bill[b].payer = tx[k].payer
        PROVE  SettledColumn(b)' = SettledColumn(b)
    <3>1. ASSUME NEW j \in Txns, NEW s \in Settlements, RecordCommit(j, s)
          PROVE  SettledColumn(b)' = SettledColumn(b)
      <4>1. HasRead(j) /\ tx'[j] = Idle
        BY <3>1, CommitWrites DEF HasRead
      <4>2. j # k
        <5>1. Idle.at = "idle"
          BY DEF Idle
        <5> QED
          BY <1>2, <2>0, <4>1, <5>1 DEF HasRead
      <4>3. tx[j].payer # tx[k].payer
        BY <1>00, <2>0, <4>1, <4>2 DEF LockHeldByOne, UnderLock, HasRead
      <4>4. tx[j].lines[b] \in Nat
        BY <1>00, LinesAreMoney
      <4>5. LineFits(j, b)
        BY <4>1 DEF AccountsInv, PlansHold, PlanHolds
      <4>6. tx[j].lines[b] = 0
        BY <2>2, <4>3, <4>4, <4>5 DEF LineFits
      <4>7. SettledColumn(b)' = SettledColumn(b) + tx[j].lines[b]
        BY <3>1, ColumnsGrow
      <4> QED
        BY <1>0, <4>6, <4>7
    <3> QED
      BY <3>1, ColumnsMove
  <2>3. ASSUME NEW b \in Bills PROVE LineFits(k, b)'
    <3> SUFFICES ASSUME tx[k].lines[b] > 0
                 PROVE  /\ Drawn(b)' /\ bill'[b].payer = tx[k].payer
                        /\ SettledColumn(b)' + tx[k].lines[b] <= bill'[b].total
      BY <1>2 DEF LineFits
    <3>1. /\ Drawn(b) /\ bill[b].payer = tx[k].payer
          /\ SettledColumn(b) + tx[k].lines[b] <= bill[b].total
      BY <2>1 DEF LineFits
    <3>2. /\ Drawn(b)' /\ bill'[b].payer = bill[b].payer
          /\ bill'[b].total = bill[b].total
      BY <3>1, DrawnStays DEF Drawn
    <3>3. SettledColumn(b)' = SettledColumn(b)
      BY <2>2, <3>1
    <3> QED
      BY <3>1, <3>2, <3>3
  <2>4. ASSUME NEW b \in Bills, NEW c \in Bills PROVE OldestBefore(k, b, c)'
    <3> SUFFICES ASSUME b < c, tx[k].lines[c] > 0, NEW p, p = tx[k].payer, LiveOf(b, p)'
                 PROVE  SettledColumn(b)' + tx[k].lines[b] = bill'[b].total
      BY <1>2 DEF OldestBefore, LiveOf
    <3>1. Drawn(b)
      \* A sale to this payer would hold the payer's lock.
      <4> SUFFICES ASSUME ~Drawn(b) PROVE FALSE
        OBVIOUS
      <4>1. ASSUME NEW j \in Txns, tx[j].bill = b, SaleCommit(j) PROVE FALSE
        <5>1. bill'[tx[j].bill] = [st |-> "Live", payer |-> tx[j].payer, total |-> tx[j].money]
          BY <4>1, SaleDraws
        <5>2. bill'[b] = [st |-> "Live", payer |-> tx[j].payer, total |-> tx[j].money]
          BY <4>1, <5>1
        <5>3. bill'[b].payer = tx[j].payer
          BY <5>2
        <5>4. tx[j].at = "balance read" /\ tx[j].payer = tx[k].payer
          BY <4>1, <5>3 DEF SaleCommit, LiveOf
        <5> QED
          BY <1>00, <2>0, <5>4 DEF LockHeldByOne, UnderLock, HasRead
      <4>2. bill'[b].st = "Not drawn"
        BY <4>1, DrawnByItsSale
      <4> QED
        BY <4>2 DEF LiveOf
    <3>2. LiveOf(b, p) /\ bill[b].payer = tx[k].payer
      BY <3>1, DrawnStays DEF LiveOf
    <3>3. bill'[b].total = bill[b].total
      BY <3>1, DrawnStays
    <3>4. SettledColumn(b) + tx[k].lines[b] = bill[b].total
      BY <2>1, <3>2 DEF OldestBefore
    <3>5. SettledColumn(b)' = SettledColumn(b)
      BY <2>2, <3>1, <3>2
    <3> QED
      BY <3>3, <3>4, <3>5
  <2> QED
    BY <1>2, <2>1, <2>3, <2>4
<1> QED
  BY <1>1, <1>2, WhereItStands DEF HasRead

\* A bill that any payment ever touched is drawn.
LEMMA PaidIsDrawn ==
    ASSUME AccountsInv, NEW b \in Bills, NEW s \in Settlements, stl[s].lines[b] > 0
    PROVE  Drawn(b)
<1>1. TypeOK /\ (~Drawn(b) => bill[b].total = 0) /\ SettledColumn(b) <= bill[b].total
  BY DEF AccountsInv, FreshRows, ColumnsFit
<1>2. ColumnOf(b) \in [Settlements -> Money] /\ ColumnOf(b)[s] = stl[s].lines[b]
  BY <1>1, BalanceTypes DEF ColumnOf
<1>3. ColumnOf(b)[s] <= Sum(ColumnOf(b))
  BY <1>2, SettlementAssumption, TermOfSum
<1>4. SettledColumn(b) = Sum(ColumnOf(b)) /\ SettledColumn(b) \in Nat /\ stl[s].lines[b] \in Nat
  BY <1>1, BalancesAreSums, LinesAreMoney
<1> QED
  BY <1>1, <1>2, <1>3, <1>4

LEMMA PayersKept ==
    ASSUME AccountsInv, Next
    PROVE  OwnPayer'
<1> SUFFICES ASSUME NEW b \in Bills, NEW s \in Settlements, stl'[s].lines[b] > 0
             PROVE  stl'[s].payer = bill'[b].payer
  BY DEF OwnPayer
<1>1. ASSUME stl'[s].lines = stl[s].lines, stl'[s].payer = stl[s].payer
      PROVE  stl'[s].payer = bill'[b].payer
  <2>1. stl[s].lines[b] > 0
    BY <1>1
  <2>2. stl[s].payer = bill[b].payer
    BY <2>1 DEF AccountsInv, OwnPayer
  <2>3. bill'[b].payer = bill[b].payer
    BY <2>1, PaidIsDrawn, DrawnStays
  <2> QED
    BY <1>1, <2>2, <2>3
<1>2. ASSUME NEW k \in Txns, NEW t \in Settlements, RecordCommit(k, t)
      PROVE  stl'[s].payer = bill'[b].payer
  <2>1. CASE t = s
    <3>1. HasRead(k) /\ stl'[s].payer = tx[k].payer /\ stl'[s].lines = tx[k].lines /\ bill' = bill
      BY <1>2, <2>1, CommitWrites DEF HasRead
    <3>2. LineFits(k, b)
      BY <3>1 DEF AccountsInv, PlansHold, PlanHolds
    <3> QED
      BY <3>1, <3>2 DEF LineFits
  <2>2. CASE t # s
    <3>1. stl'[s] = stl[s]
      BY <1>2, <2>2, CommitWrites
    <3> QED
      BY <1>1, <3>1
  <2> QED
    BY <2>1, <2>2
<1>3. ASSUME NEW t \in Settlements, VoidSettlement(t) PROVE stl'[s].payer = bill'[b].payer
  <2>1. stl'[s].lines = stl[s].lines
    BY <1>3, VoidSettles
  <2>2. stl'[s].payer = stl[s].payer
    <3>1. CASE t = s
      BY <1>3, <3>1, VoidSettles
    <3>2. CASE t # s
      <4>1. stl'[s] = stl[s]
        BY <1>3, <3>2, VoidSettles
      <4> QED
        BY <4>1
    <3> QED
      BY <3>1, <3>2
  <2> QED
    BY <1>1, <2>1, <2>2
<1>4. CASE stl' = stl
  BY <1>1, <1>4
<1> QED
  BY <1>2, <1>3, <1>4, SettlementsMove

LEMMA AmountsKept ==
    ASSUME AccountsInv, Next
    PROVE  AllocationAddsUp'
<1> SUFFICES ASSUME NEW s \in Settlements PROVE Sum(stl'[s].lines) = stl'[s].amount
  BY DEF AllocationAddsUp, Sum
<1>0. Sum(stl[s].lines) = stl[s].amount
  BY DEF AccountsInv, AllocationAddsUp
<1>1. ASSUME NEW k \in Txns, NEW t \in Settlements, RecordCommit(k, t)
      PROVE  Sum(stl'[s].lines) = stl'[s].amount
  <2>1. CASE t = s
    <3>1. HasRead(k) /\ stl'[s].amount = tx[k].money /\ stl'[s].lines = tx[k].lines
      BY <1>1, <2>1, CommitWrites DEF HasRead
    <3>2. Sum(tx[k].lines) = tx[k].money
      BY <3>1 DEF AccountsInv, PlansHold, PlanHolds
    <3> QED
      BY <3>1, <3>2
  <2>2. CASE t # s
    <3>1. stl'[s] = stl[s]
      BY <1>1, <2>2, CommitWrites
    <3> QED
      BY <1>0, <3>1
  <2> QED
    BY <2>1, <2>2
<1>2. ASSUME NEW t \in Settlements, VoidSettlement(t)
      PROVE  Sum(stl'[s].lines) = stl'[s].amount
  <2>1. stl'[s].lines = stl[s].lines
    BY <1>2, VoidSettles
  <2>2. stl'[s].amount = stl[s].amount
    <3>1. t # s => stl'[s] = stl[s]
      BY <1>2, VoidSettles
    <3>2. stl'[t].amount = stl[t].amount
      BY <1>2, VoidSettles
    <3> QED
      BY <3>1, <3>2
  <2> QED
    BY <1>0, <2>1, <2>2
<1>3. CASE stl' = stl
  BY <1>0, <1>3
<1> QED
  BY <1>1, <1>2, <1>3, SettlementsMove

\* While a transaction holds a payer's lock, nobody else makes that payer owe more.
LEMMA LockedBalance ==
    ASSUME AccountsInv, Next, NEW k \in Txns, tx[k].at \in UnderLock, tx'[k] = tx[k],
           NEW p, p = tx[k].payer
    PROVE  OutstandingFor(p)' <= OutstandingFor(p)
<1>0. TypeOK /\ LockHeldByOne /\ Idle.at \notin UnderLock
  BY DEF AccountsInv, Idle, UnderLock
<1>1. OutstandingFor(p) \in Nat
  BY <1>0, OutstandingIsMoney, MoneyType DEF Money
<1>2. ASSUME OutstandingFor(p)' = OutstandingFor(p)
      PROVE  OutstandingFor(p)' <= OutstandingFor(p)
  <2> PICK n : n = OutstandingFor(p)
    OBVIOUS
  <2>1. n \in Nat /\ OutstandingFor(p)' = n
    BY <1>1, <1>2
  <2> QED
    BY <2>1
<1>3. ASSUME NEW b \in Bills, VoidBill(b) PROVE OutstandingFor(p)' <= OutstandingFor(p)
  BY <1>0, <1>3, VoidOwesNoMore
<1>4. ASSUME NEW j \in Txns, SaleCommit(j) PROVE OutstandingFor(p)' = OutstandingFor(p)
  <2>1. tx[j].at \in UnderLock /\ tx'[j] = Idle /\ stl' = stl
    BY <1>4, SaleDraws DEF SaleCommit, UnderLock
  <2>2. tx[j].payer # p
    BY <1>0, <2>1 DEF LockHeldByOne
  <2>3. PICK d : d = tx[j].bill
    OBVIOUS
  <2>4. /\ d \in Bills /\ bill[d].st = "Not drawn"
        /\ \A c \in Bills : c # d => bill'[c] = bill[c]
    BY <1>4, <2>3, SaleDraws DEF Drawn
  <2>5. bill'[tx[j].bill] = [st |-> "Live", payer |-> tx[j].payer, total |-> tx[j].money]
    BY <1>4, SaleDraws
  <2>6. bill'[d].payer # p
    BY <2>2, <2>3, <2>5
  <2>7. \A b \in Bills : \/ bill'[b] = bill[b]
                         \/ /\ bill[b].st = "Live" => bill[b].payer # p
                            /\ bill'[b].st = "Live" => bill'[b].payer # p
    BY <2>4, <2>6
  <2> QED
    BY <2>1, <2>7, BalanceKept
<1>5. ASSUME NEW j \in Txns, NEW s \in Settlements, RecordCommit(j, s)
      PROVE  OutstandingFor(p)' = OutstandingFor(p)
  <2>1. /\ tx[j].at \in UnderLock /\ tx'[j] = Idle /\ bill' = bill
        /\ stl[s].st = "Not drawn" /\ stl'[s].payer = tx[j].payer
        /\ \A t \in Settlements : t # s => stl'[t] = stl[t]
    BY <1>5, CommitWrites DEF UnderLock
  <2>2. tx[j].payer # p
    BY <1>0, <2>1 DEF LockHeldByOne
  <2>3. \A t \in Settlements : \/ stl'[t] = stl[t]
                               \/ /\ stl[t].st = "Live" => stl[t].payer # p
                                  /\ stl'[t].st = "Live" => stl'[t].payer # p
    BY <2>1, <2>2
  <2> QED
    BY <2>1, <2>3, BalanceKept
<1>6. ASSUME NEW s \in Settlements, VoidSettlement(s)
      PROVE  OutstandingFor(p)' = OutstandingFor(p)
  <2>1. /\ PayerFree(stl[s].payer) /\ stl'[s].payer = stl[s].payer /\ bill' = bill
        /\ \A t \in Settlements : t # s => stl'[t] = stl[t]
    BY <1>6, VoidSettles
  <2>2. stl[s].payer # p
    BY <2>1 DEF PayerFree
  <2>3. \A t \in Settlements : \/ stl'[t] = stl[t]
                               \/ /\ stl[t].st = "Live" => stl[t].payer # p
                                  /\ stl'[t].st = "Live" => stl'[t].payer # p
    BY <2>1, <2>2
  <2> QED
    BY <2>1, <2>3, BalanceKept
<1>7. CASE bill' = bill /\ stl' = stl
  <2>1. OutstandingFor(p)' = OutstandingFor(p)
    BY <1>7, BalanceKept
  <2> QED
    BY <1>2, <2>1
<1>8. CASE bill' # bill
  BY <1>2, <1>3, <1>4, <1>8, BillsMove
<1>9. CASE stl' # stl
  BY <1>2, <1>5, <1>6, <1>9, SettlementsMove
<1> QED
  BY <1>7, <1>8, <1>9

LEMMA TermsAreNumbers ==
    ASSUME TypeOK, NEW k \in Txns
    PROVE  tx[k].money \in Nat /\ (tx[k].limit # NoLimit => tx[k].limit \in Nat)
<1>1. tx[k] \in TxnRow
  BY DEF TypeOK
<1>2. tx[k].money \in Money /\ tx[k].limit \in Limits \cup {NoLimit}
  BY <1>1 DEF TxnRow
<1>3. Money \subseteq Nat
  BY MoneyType DEF Money
<1> QED
  BY <1>2, <1>3, LimitAssumption, Zenon

LEMMA BalancesAreMoney == TypeOK => \A q \in Payers : OutstandingFor(q) \in Money
BY OutstandingIsMoney

LEMMA CeilingsKept ==
    ASSUME AccountsInv, Next
    PROVE  CeilingsStand'
<1> SUFFICES ASSUME NEW k \in Txns, NEW p \in Payers, Priced(k, p)'
             PROVE  OutstandingFor(p)' + tx'[k].money <= tx'[k].limit
  BY DEF CeilingsStand, FitsCeiling
<1>0. /\ TypeOK /\ tx[k] \in TxnRow
      /\ tx'[k].at = "balance read" /\ tx'[k].payer = p /\ tx'[k].limit # NoLimit
  BY DEF AccountsInv, TypeOK, Priced
<1>1. CASE SaleReadBalance(k)
  <2>1. /\ tx[k].at = "terms read" /\ ~BreachesCredit(OutstandingFor(tx[k].payer), tx[k].money, tx[k].limit)
        /\ tx'[k] = [tx[k] EXCEPT !.at = "balance read"] /\ bill' = bill /\ stl' = stl
    <3>1. tx \in [Txns -> TxnRow]
      BY <1>0 DEF TypeOK
    <3> QED
      BY <1>1, <3>1 DEF SaleReadBalance
  <2>2. tx'[k].payer = tx[k].payer /\ tx'[k].money = tx[k].money /\ tx'[k].limit = tx[k].limit
    BY <1>0, <2>1 DEF TxnRow
  <2>3. OutstandingFor(p)' = OutstandingFor(p)
    BY <2>1, BalanceKept
  <2>4. tx[k].payer = p /\ tx[k].limit # NoLimit
    BY <1>0, <2>2
  <2>5. /\ OutstandingFor(p) \in Nat /\ tx[k].money \in Nat /\ tx[k].limit \in Nat
    <3>1. tx[k].money \in Nat /\ tx[k].limit \in Nat
      BY <1>0, <2>4, TermsAreNumbers
    <3>2. OutstandingFor(p) \in Nat
      BY <1>0, OutstandingIsMoney, MoneyIsNat, Zenon
    <3> QED
      BY <3>1, <3>2
  <2>6. ~(OutstandingFor(p) + tx[k].money > tx[k].limit)
    BY <2>1, <2>4 DEF BreachesCredit
  <2>7. OutstandingFor(p) + tx[k].money <= tx[k].limit
    BY <2>5, <2>6
  <2> HIDE <1>0
  <2> QED
    BY <2>2, <2>3, <2>7
<1>2. CASE tx'[k] = tx[k]
  <2>1. Priced(k, p)
    BY <1>0, <1>2 DEF Priced
  <2>2. OutstandingFor(p) + tx[k].money <= tx[k].limit
    BY <2>1 DEF AccountsInv, CeilingsStand, FitsCeiling
  <2>3. OutstandingFor(p)' <= OutstandingFor(p)
    BY <1>2, <2>1, LockedBalance DEF Priced, UnderLock
  <2>4. OutstandingFor(p) \in Nat /\ OutstandingFor(p)' \in Nat /\ tx[k].money \in Nat /\ tx[k].limit \in Nat
    <3>1. tx[k].money \in Nat /\ tx[k].limit \in Nat
      BY <1>0, <2>1, TermsAreNumbers DEF Priced
    <3>2. OutstandingFor(p) \in Money
      BY <1>0, OutstandingIsMoney
    <3>3. TypeOK'
      BY TypesKept
    <3>4. (\A q \in Payers : OutstandingFor(q) \in Money)'
      BY <3>3, BalancesAreMoney, PTL
    <3> QED
      BY <3>1, <3>2, <3>4, MoneyIsNat, Zenon
  <2>5. tx'[k].money = tx[k].money /\ tx'[k].limit = tx[k].limit
    BY <1>2
  <2> QED
    BY <2>2, <2>3, <2>4, <2>5
<1> QED
  BY <1>0, <1>1, <1>2, WhereItStands

-----------------------------------------------------------------------------
(* The invariant.                                                          *)

LEMMA AccountsInit ==
    ASSUME Init
    PROVE  AccountsInv
<1>1. TypeOK
  <2>1. 0 \in Money /\ NoLines \in Allocation /\ Idle \in TxnRow /\ 0 \in 0..MaxTotal
    BY MoneyType, TypesOfIdle, BillAssumption DEF Money
  <2>2. [st |-> "Not drawn", payer |-> NoLimit, total |-> 0] \in BillRow
    BY <2>1 DEF BillRow
  <2>3. [st |-> "Not drawn", payer |-> NoLimit, amount |-> 0, lines |-> NoLines] \in SettlementRow
    BY <2>1 DEF SettlementRow
  <2> QED
    BY <2>1, <2>2, <2>3 DEF Init, TypeOK
<1>2. LockHeldByOne /\ BillsPromised /\ CeilingsStand
  BY DEF Init, LockHeldByOne, BillsPromised, OwnBill, CeilingsStand, FitsCeiling, Priced, Sales,
         UnderLock, Idle
<1>3. FreshRows
  BY DEF Init, FreshRows
<1>4. \A s \in Settlements : stl[s].lines = NoLines /\ stl[s].amount = 0
  BY DEF Init
<1>5. \A b \in Bills : NoLines[b] = 0
  BY DEF NoLines
<1>6. ColumnsFit
  <2> SUFFICES ASSUME NEW b \in Bills PROVE SettledColumn(b) <= bill[b].total
    BY DEF ColumnsFit
  <2>1. ColumnOf(b) \in [Settlements -> Money] /\ \A s \in Settlements : ColumnOf(b)[s] = 0
    BY <1>1, <1>4, <1>5, BalanceTypes DEF ColumnOf
  <2>2. SettledColumn(b) = 0 /\ bill[b].total = 0
    BY <1>1, <2>1, SumZero, BalancesAreSums DEF Init
  <2> QED
    BY <2>2
<1>7. PlansHold
  BY DEF Init, PlansHold, PlanHolds, HasRead, Idle
<1>8. OwnPayer
  BY <1>4, <1>5 DEF OwnPayer
<1>9. AllocationAddsUp
  <2>1. NoLines \in [Bills -> Money]
    BY TypesOfIdle DEF Allocation
  <2>2. Sum(NoLines) = 0
    BY <1>5, <2>1, SumZero
  <2> QED
    BY <1>4, <2>2 DEF AllocationAddsUp
<1> QED
  BY <1>1, <1>2, <1>3, <1>6, <1>7, <1>8, <1>9 DEF AccountsInv

LEMMA AccountsStutter ==
    ASSUME AccountsInv, UNCHANGED vars
    PROVE  AccountsInv'
<1>0. bill' = bill /\ stl' = stl /\ limit' = limit /\ tx' = tx
  BY DEF vars
<1>1. \A b : SettledColumn(b)' = SettledColumn(b)
  BY <1>0, ColumnsStay
<1>2. \A p : OutstandingFor(p)' = OutstandingFor(p)
  BY <1>0, BalanceKept
<1>3. (TypeOK /\ LockHeldByOne /\ BillsPromised /\ FreshRows /\ OwnPayer)'
  BY <1>0 DEF AccountsInv, TypeOK, LockHeldByOne, BillsPromised, OwnBill, FreshRows, OwnPayer,
              Drawn
<1>4. ColumnsFit'
  BY <1>0, <1>1 DEF AccountsInv, ColumnsFit
<1>5. PlansHold'
  BY <1>0, <1>1 DEF AccountsInv, PlansHold, PlanHolds, LineFits, OldestBefore, HasRead, Drawn,
                    LiveOf, Sum
<1>6. AllocationAddsUp'
  BY <1>0 DEF AccountsInv, AllocationAddsUp, Sum
<1>7. CeilingsStand'
  BY <1>0, <1>2 DEF AccountsInv, CeilingsStand, FitsCeiling, Priced
<1> QED
  BY <1>3, <1>4, <1>5, <1>6, <1>7 DEF AccountsInv

\* What every state of the accounts has: the conjuncts of AccountsInv, of which the sections above
\* say one by one what they mean.
THEOREM AccountsInvariant == Spec => []AccountsInv
<1>1. Init => AccountsInv
  BY AccountsInit
<1>2. AccountsInv /\ [Next]_vars => AccountsInv'
  <2>1. ASSUME AccountsInv, Next PROVE AccountsInv'
    <3>1. TypeOK'
      BY <2>1, TypesKept
    <3>2. LockHeldByOne' /\ BillsPromised' /\ FreshRows'
      BY <2>1, LocksKept, PromisesKept, RowsKept
    <3>3. ColumnsFit'
      BY <2>1, <3>1, ColumnsKept DEF ColumnsFit
    <3>4. PlansHold' /\ OwnPayer' /\ AllocationAddsUp' /\ CeilingsStand'
      BY <2>1, PlansKept, PayersKept, AmountsKept, CeilingsKept
    <3> QED
      BY <3>1, <3>2, <3>3, <3>4 DEF AccountsInv
  <2> QED
    BY <2>1, AccountsStutter
<1> QED
  BY <1>1, <1>2, PTL DEF Spec

-----------------------------------------------------------------------------
(* What follows.                                                           *)

\* Every state of the accounts is one of rows and amounts the tables can hold.
THEOREM AccountTypes == Spec => []TypeOK
<1>1. AccountsInv => TypeOK
  BY DEF AccountsInv
<1> QED
  BY <1>1, AccountsInvariant, PTL

\* No bill is paid twice, however many tills take settlements of one payer at once: what the
\* settlements put on a bill never passes its total, and they pay their own payer's bills only.
THEOREM NoBillPaidTwice == Spec => []NoOverAllocation
<1>1. AccountsInv => NoOverAllocation
  <2> SUFFICES ASSUME AccountsInv, NEW b \in Bills PROVE LiveSettled(b) <= bill[b].total
    BY DEF NoOverAllocation, AccountsInv, OwnPayer
  <2>0. TypeOK /\ SettledColumn(b) <= bill[b].total
    BY DEF AccountsInv, ColumnsFit
  <2>1. /\ ColumnOf(b) \in [Settlements -> Money] /\ LiveColumnOf(b) \in [Settlements -> Money]
        /\ \A s \in Settlements : ColumnOf(b)[s] \in Nat /\ stl[s].lines[b] \in Nat
    BY <2>0, BalanceTypes, LinesAreMoney DEF ColumnOf
  <2>2. \A s \in Settlements : LiveColumnOf(b)[s] <= ColumnOf(b)[s]
    <3>1. \A s \in Settlements : /\ ColumnOf(b)[s] = stl[s].lines[b]
                                 /\ \/ LiveColumnOf(b)[s] = stl[s].lines[b]
                                    \/ LiveColumnOf(b)[s] = 0
      BY DEF ColumnOf, LiveColumnOf
    <3> QED
      BY <2>1, <3>1
  <2>3. Sum(LiveColumnOf(b)) <= Sum(ColumnOf(b))
    BY <2>1, <2>2, SettlementAssumption, SumMonotone
  <2>4. /\ LiveSettled(b) = Sum(LiveColumnOf(b)) /\ SettledColumn(b) = Sum(ColumnOf(b))
        /\ LiveSettled(b) \in Nat /\ SettledColumn(b) \in Nat /\ bill[b].total \in Nat
    BY <2>0, BalancesAreSums, LinesAreMoney
  <2> QED
    BY <2>0, <2>3, <2>4
<1> QED
  BY <1>1, AccountsInvariant, PTL

\* The lines a settlement stored add up to what was paid, to the last paisa.
THEOREM PaymentsAddUp == Spec => []AllocationAddsUp
<1>1. AccountsInv => AllocationAddsUp
  BY DEF AccountsInv
<1> QED
  BY <1>1, AccountsInvariant, PTL

\* When a sale on account commits, what its payer then owes fits the ceiling that sale read,
\* whatever sales, payments and voids of other tills ran between its read and its commit.
THEOREM SalesFitTheCeiling == Spec => CreditCeilingAtSale
<1> DEFINE Drew(k, b, p) ==
               /\ bill[b].st = "Not drawn" /\ bill'[b].st = "Live"
               /\ tx[k].bill = b /\ tx[k].payer = p /\ tx[k].limit # NoLimit
<1>1. AccountsInv /\ Next =>
         \A k \in Txns, b \in Bills, p \in Payers :
            Drew(k, b, p) => OutstandingFor(p)' <= tx[k].limit
  <2> SUFFICES ASSUME AccountsInv, Next, NEW k \in Txns, NEW b \in Bills, NEW p \in Payers,
                      Drew(k, b, p)
               PROVE  OutstandingFor(p)' <= tx[k].limit
    OBVIOUS
  <2>0. tx[k].bill = b /\ tx[k].payer = p /\ tx[k].limit # NoLimit /\ TypeOK
    BY DEF AccountsInv
  <2>1. PICK j \in Txns : tx[j].bill = b /\ SaleCommit(j)
    BY DrawnByItsSale DEF Drawn
  <2>2. j = k
    <3>1. tx[j].at \in Sales
      BY <2>1 DEF SaleCommit, Sales
    <3> QED
      BY <2>0, <2>1, <3>1 DEF AccountsInv, BillsPromised, OwnBill
  <2>3. Priced(k, p)
    BY <2>0, <2>1, <2>2 DEF Priced, SaleCommit
  <2>4. OutstandingFor(p) + tx[k].money <= tx[k].limit
    BY <2>3 DEF AccountsInv, CeilingsStand, FitsCeiling
  <2>5. OutstandingFor(p)' <= OutstandingFor(p) + tx[k].money
    BY <2>0, <2>1, <2>2, SaleOwesItsTotal
  <2>6. /\ OutstandingFor(p) \in Nat /\ OutstandingFor(p)' \in Nat
        /\ tx[k].money \in Nat /\ tx[k].limit \in Nat
    <3>1. tx[k].money \in Nat /\ tx[k].limit \in Nat
      BY <2>0, TermsAreNumbers
    <3>2. OutstandingFor(p) \in Money
      BY <2>0, OutstandingIsMoney
    <3>3. TypeOK'
      BY TypesKept
    <3>4. (\A q \in Payers : OutstandingFor(q) \in Money)'
      BY <3>3, BalancesAreMoney, PTL
    <3> QED
      BY <3>1, <3>2, <3>4, MoneyIsNat, Zenon
  <2> HIDE DEF Drew
  <2> QED
    BY <2>4, <2>5, <2>6
<1>2. AccountsInv /\ [Next]_vars =>
         [\A k \in Txns, b \in Bills, p \in Payers :
            Drew(k, b, p) => OutstandingFor(p)' <= tx[k].limit]_vars
  BY <1>1
<1> QED
  BY <1>2, AccountsInvariant, PTL DEF Spec, CreditCeilingAtSale

\* A payment goes to the oldest bills first, also against the sales and payments of other tills.
THEOREM PaymentsGoToTheOldest == Spec => OldestFirst
<1> DEFINE Settled1(s) == stl[s].st = "Not drawn" /\ stl'[s].st = "Live"
<1>1. AccountsInv /\ Next =>
         \A s \in Settlements : Settled1(s) =>
            \A b, c \in Bills :
               /\ b < c /\ stl'[s].lines[c] > 0
               /\ bill[b].st = "Live" /\ bill[b].payer = stl'[s].payer
               => SettledColumn(b)' = bill[b].total
  <2> SUFFICES ASSUME AccountsInv, Next, NEW s \in Settlements, Settled1(s),
                      NEW b \in Bills, NEW c \in Bills, b < c, stl'[s].lines[c] > 0,
                      NEW p, p = stl'[s].payer, LiveOf(b, p)
               PROVE  SettledColumn(b)' = bill[b].total
    BY DEF LiveOf
  <2>1. PICK k \in Txns : RecordCommit(k, s)
    <3>1. ASSUME NEW t \in Settlements, NEW k \in Txns, RecordCommit(k, t) PROVE t = s
      <4>1. t # s => stl'[s] = stl[s]
        BY <3>1, CommitWrites
      <4> QED
        BY <4>1
    <3>2. ASSUME NEW t \in Settlements, VoidSettlement(t) PROVE FALSE
      <4>1. stl[t].st = "Live" /\ (t # s => stl'[s] = stl[s])
        BY <3>2, VoidSettles
      <4> QED
        BY <4>1
    <3> QED
      BY <3>1, <3>2, SettlementsMove
  <2>2. HasRead(k) /\ stl'[s].lines = tx[k].lines /\ stl'[s].payer = tx[k].payer
    BY <2>1, CommitWrites DEF HasRead
  <2>3. SettledColumn(b)' = SettledColumn(b) + tx[k].lines[b]
    BY <2>1, ColumnsGrow
  <2>4. OldestBefore(k, b, c)
    BY <2>2 DEF AccountsInv, PlansHold, PlanHolds
  <2> HIDE DEF Settled1
  <2> QED
    BY <2>2, <2>3, <2>4 DEF OldestBefore
<1>2. AccountsInv /\ [Next]_vars =>
         [\A s \in Settlements : Settled1(s) =>
            \A b, c \in Bills :
               /\ b < c /\ stl'[s].lines[c] > 0
               /\ bill[b].st = "Live" /\ bill[b].payer = stl'[s].payer
               => SettledColumn(b)' = bill[b].total]_vars
  BY <1>1
<1> QED
  BY <1>2, AccountsInvariant, PTL DEF Spec, OldestFirst
=============================================================================
