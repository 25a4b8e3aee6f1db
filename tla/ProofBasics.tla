------------------------------ MODULE ProofBasics ------------------------------
(***************************************************************************)
(* Facts about numbers, running sums, sums over finite sets and sorted     *)
(* sets that several proofs rest on.  The library's induction theorems     *)
(* take an operator, which the provers cannot instantiate: SetInduction    *)
(* and SubsetInduction are induction about a set, of numbers and of finite *)
(* sets.                                                                   *)
(***************************************************************************)
EXTENDS SortedSets, FiniteSetTheorems, WellFoundedInduction, FiniteSetsExt, Functions, TLAPS

-----------------------------------------------------------------------------
(* Numbers.                                                                *)

LEMMA ProductMonotone ==
  ASSUME NEW a \in Nat, NEW b \in Nat, NEW c \in Nat, a <= b
  PROVE  /\ a * c \in Nat /\ b * c \in Nat /\ a * c <= b * c
         /\ (a + 1) * c = a * c + c
OBVIOUS

LEMMA Quotient ==
  ASSUME NEW i \in Nat, NEW d \in Nat \ {0}
  PROVE  /\ i \div d \in Nat /\ i % d \in 0 .. d - 1
         /\ i = (i \div d) * d + (i % d)
OBVIOUS

LEMMA QuotientIs ==
  ASSUME NEW i \in Nat, NEW d \in Nat \ {0}, NEW q \in Nat, NEW m \in 0 .. d - 1,
         i = q * d + m
  PROVE  i \div d = q
<1> DEFINE p == i \div d
           n == i % d
<1>1. p \in Nat /\ n \in 0 .. d - 1 /\ i = p * d + n
  BY Quotient
<1> HIDE DEF p, n
<1>2. CASE p < q
  <2>1. (p + 1) * d <= q * d
    BY <1>1, <1>2, ProductMonotone
  <2>2. (p + 1) * d = p * d + d /\ p * d \in Int /\ q * d \in Int
    BY <1>1
  <2> QED BY <1>1, <2>1, <2>2
<1>3. CASE q < p
  <2>1. (q + 1) * d <= p * d
    BY <1>1, <1>3, ProductMonotone
  <2>2. (q + 1) * d = q * d + d /\ p * d \in Int /\ q * d \in Int
    BY <1>1
  <2> QED BY <1>1, <2>1, <2>2
<1> QED BY <1>1, <1>2, <1>3 DEF p

(* The quotient moves on exactly after the last remainder. *)
LEMMA NextQuotient ==
  ASSUME NEW i \in Nat, NEW d \in Nat \ {0}
  PROVE  (i + 1) \div d = IF i % d = d - 1 THEN i \div d + 1 ELSE i \div d
<1> DEFINE p == i \div d
           n == i % d
<1>0. p \in Nat /\ n \in 0 .. d - 1 /\ i = p * d + n
  BY Quotient
<1> SUFFICES (i + 1) \div d = IF n = d - 1 THEN p + 1 ELSE p
  OBVIOUS
<1> HIDE DEF p, n
<1>1. p \in Nat /\ n \in 0 .. d - 1 /\ i = p * d + n /\ p * d \in Int
  BY <1>0
<1>2. CASE n = d - 1
  <2>1. (p + 1) * d = p * d + d
    BY <1>1
  <2>2. i + 1 = (p + 1) * d + 0 /\ 0 \in 0 .. d - 1 /\ p + 1 \in Nat
    BY <1>1, <1>2, <2>1
  <2> QED BY <1>2, <2>2, QuotientIs
<1>3. CASE n # d - 1
  <2>1. i + 1 = p * d + (n + 1) /\ n + 1 \in 0 .. d - 1 /\ i + 1 \in Nat
    BY <1>1, <1>3
  <2> QED BY <1>1, <1>3, <2>1, QuotientIs
<1> QED BY <1>2, <1>3

(* How i compares with a multiple of d decides how its quotient compares. *)
LEMMA QuotientCompares ==
  ASSUME NEW i \in Nat, NEW d \in Nat \ {0}, NEW k \in Nat
  PROVE  i < k * d <=> i \div d < k
<1> DEFINE p == i \div d
           n == i % d
<1>0. p \in Nat /\ n \in 0 .. d - 1 /\ i = p * d + n
  BY Quotient
<1> SUFFICES i < k * d <=> p < k
  OBVIOUS
<1> HIDE DEF p, n
<1>1. p \in Nat /\ n \in 0 .. d - 1 /\ i = p * d + n /\ p * d \in Int /\ k * d \in Int
  BY <1>0
<1>2. CASE p < k
  <2>1. (p + 1) * d <= k * d
    BY <1>1, <1>2, ProductMonotone
  <2>2. (p + 1) * d = p * d + d
    BY <1>1
  <2> QED BY <1>1, <1>2, <2>1, <2>2
<1>3. CASE k <= p
  <2>1. k * d <= p * d
    BY <1>1, <1>3, ProductMonotone
  <2> QED BY <1>1, <1>3, <2>1
<1> QED BY <1>1, <1>2, <1>3

(* A greater dividend has no smaller quotient. *)
LEMMA DivisionMonotone ==
  ASSUME NEW a \in Nat, NEW b \in Nat, NEW d \in Nat \ {0}, a <= b
  PROVE  a \div d <= b \div d
<1> DEFINE p == a \div d
           q == b \div d
<1>1. /\ p \in Nat /\ q \in Nat
      /\ d * p <= a /\ b < d * q + d
  OBVIOUS
<1> HIDE DEF p, q
<1> SUFFICES ASSUME q + 1 <= p PROVE FALSE
  BY <1>1 DEF p, q
<1>2. d * (q + 1) <= d * p
  BY <1>1
<1>3. d * (q + 1) = d * q + d
  BY <1>1
<1> QED BY <1>1, <1>2, <1>3

(* A nonempty set of natural numbers has a least element. *)
LEMMA LeastNatural ==
  ASSUME NEW S \in SUBSET Nat, S # {}
  PROVE  \E least \in S : \A n \in S : least <= n
<1> DEFINE R == {pair \in Nat \X Nat : pair[1] < pair[2]}
<1>1. IsWellFoundedOn(R, Nat)
  BY NatLessThanWellFounded DEF OpToRel
<1>2. \A m, n \in Nat : <<m, n>> \in R <=> m < n
  OBVIOUS
<1> HIDE DEF R
<1>3. PICK least \in S : \A n \in S : ~(<<n, least>> \in R)
  <2>1. S \subseteq Nat
    OBVIOUS
  <2> QED BY <1>1, <2>1, WFMin
<1>4. \A n \in S : n \in Nat /\ least \in Nat /\ ~(n < least)
  BY <1>2, <1>3
<1> QED BY <1>4

(* A set of natural numbers that holds 0 and with each number the next one
   holds them all. *)
LEMMA SetInduction ==
  ASSUME NEW S \in SUBSET Nat, 0 \in S, \A n \in S : n + 1 \in S
  PROVE  S = Nat
<1> SUFFICES ASSUME Nat \ S # {} PROVE FALSE
  OBVIOUS
<1>1. Nat \ S \in SUBSET Nat
  OBVIOUS
<1>2. PICK least \in Nat \ S : \A n \in Nat \ S : least <= n
  BY <1>1, LeastNatural
<1>3. least # 0 /\ least - 1 \in Nat
  BY <1>2
<1>4. least - 1 \in S
  BY <1>2, <1>3
<1>5. least - 1 + 1 = least
  BY <1>2
<1> QED BY <1>2, <1>4, <1>5

(* The running sums of a sequence of numbers form a function. *)
LEMMA RunningSumExists ==
  ASSUME NEW d \in [Nat -> Nat]
  PROVE  \E f : f = [i \in Nat |-> IF i = 0 THEN 0 ELSE f[i - 1] + d[i - 1]]
<1> DEFINE Sums(n) == {g \in [0 .. n -> Nat] :
                         \A i \in 0 .. n : g[i] = IF i = 0 THEN 0 ELSE g[i - 1] + d[i - 1]}
           Have == {n \in Nat : Sums(n) # {}}
           Same == {i \in Nat : \A n, m \in Nat : \A g \in Sums(n), h \in Sums(m) :
                                  i <= n /\ i <= m => g[i] = h[i]}
<1>0. ASSUME NEW n \in Nat, NEW g \in Sums(n)
      PROVE  /\ g \in [0 .. n -> Nat] /\ g[0] = 0
             /\ \A i \in Nat : i + 1 <= n => g[i + 1] = g[i] + d[i]
             /\ \A i \in 0 .. n : g[i] = IF i = 0 THEN 0 ELSE g[i - 1] + d[i - 1]
  <2>1. \A i \in 0 .. n : g[i] = IF i = 0 THEN 0 ELSE g[i - 1] + d[i - 1]
    OBVIOUS
  <2>2. g \in [0 .. n -> Nat]
    OBVIOUS
  <2> HIDE DEF Sums
  <2>3. ASSUME NEW i \in Nat, i + 1 <= n
        PROVE  g[i + 1] = g[i] + d[i]
    <3>1. i + 1 \in 0 .. n /\ i + 1 # 0 /\ i + 1 - 1 = i
      BY <2>3
    <3>2. g[i + 1] = g[i + 1 - 1] + d[i + 1 - 1]
      BY <2>1, <3>1
    <3> QED BY <3>1, <3>2
  <2>4. g[0] = 0
    <3>1. 0 \in 0 .. n
      OBVIOUS
    <3> QED BY <2>1, <3>1
  <2> QED BY <2>1, <2>2, <2>3, <2>4
<1>1. Have = Nat
  <2>1. 0 \in Have
    <3>1. [i \in 0 .. 0 |-> 0] \in Sums(0)
      OBVIOUS
    <3> QED BY <3>1
  <2>2. ASSUME NEW n \in Have
        PROVE  n + 1 \in Have
    <3>1. PICK g : g \in Sums(n)
      OBVIOUS
    <3> DEFINE h == [i \in 0 .. n + 1 |-> IF i = n + 1 THEN g[n] + d[n] ELSE g[i]]
    <3>2. /\ n \in Nat /\ g \in [0 .. n -> Nat] /\ d[n] \in Nat
          /\ \A i \in 0 .. n : g[i] = IF i = 0 THEN 0 ELSE g[i - 1] + d[i - 1]
      <4>1. n \in Nat
        OBVIOUS
      <4> QED BY <3>1, <4>1, <1>0
    <3> HIDE DEF Sums, Have
    <3>3. h \in [0 .. n + 1 -> Nat]
      <4>1. n \in 0 .. n /\ g[n] + d[n] \in Nat
        BY <3>2
      <4>2. \A i \in 0 .. n + 1 : i # n + 1 => i \in 0 .. n
        BY <3>2
      <4> QED BY <3>2, <4>1, <4>2
    <3>4. ASSUME NEW i \in 0 .. n + 1
          PROVE  h[i] = IF i = 0 THEN 0 ELSE h[i - 1] + d[i - 1]
      <4>1. CASE i = n + 1
        <5>1. i # 0 /\ i - 1 = n /\ n \in 0 .. n + 1 /\ n # n + 1
          BY <3>2, <4>1
        <5> QED BY <3>2, <4>1, <5>1
      <4>2. CASE i # n + 1
        <5>1. i \in 0 .. n /\ (i # 0 => i - 1 \in 0 .. n + 1 /\ i - 1 # n + 1)
          BY <3>2, <4>2
        <5>2. g[i] = IF i = 0 THEN 0 ELSE g[i - 1] + d[i - 1]
          BY <3>2, <5>1
        <5> QED BY <3>2, <4>2, <5>1, <5>2
      <4> QED BY <4>1, <4>2
    <3> HIDE DEF h
    <3>5. h \in Sums(n + 1)
      BY <3>3, <3>4 DEF Sums
    <3> QED BY <3>2, <3>5 DEF Have
  <2> HIDE DEF Sums
  <2>3. Have \in SUBSET Nat
    OBVIOUS
  <2> HIDE DEF Have
  <2> QED BY <2>1, <2>2, <2>3, SetInduction
<1> HIDE DEF Sums
<1>2. Same = Nat
  <2>1. 0 \in Same
    BY <1>0
  <2>2. ASSUME NEW i \in Same
        PROVE  i + 1 \in Same
    <3>1. i \in Nat /\ i + 1 \in Nat
      OBVIOUS
    <3>2. ASSUME NEW n \in Nat, NEW m \in Nat, NEW g \in Sums(n), NEW h \in Sums(m),
                 i + 1 <= n, i + 1 <= m
          PROVE  g[i + 1] = h[i + 1]
      <4>1. i <= n /\ i <= m
        BY <3>1, <3>2
      <4>2. g[i] = h[i]
        BY <4>1
      <4>3. g[i + 1] = g[i] + d[i] /\ h[i + 1] = h[i] + d[i]
        BY <1>0, <3>1, <3>2
      <4> QED BY <4>2, <4>3
    <3> QED BY <3>1, <3>2
  <2>3. Same \in SUBSET Nat
    OBVIOUS
  <2> HIDE DEF Same
  <2> QED BY <2>1, <2>2, <2>3, SetInduction
<1>3. ASSUME NEW i \in Nat, NEW n \in Nat, NEW m \in Nat, NEW g \in Sums(n), NEW h \in Sums(m),
             i <= n, i <= m
      PROVE  g[i] = h[i]
  <2>1. i \in Same
    BY <1>2
  <2> QED BY <1>3, <2>1
<1> HIDE DEF Same
<1> DEFINE G == [n \in Nat |-> CHOOSE g : g \in Sums(n)]
           f == [n \in Nat |-> G[n][n]]
<1>4. \A n \in Nat : G[n] \in Sums(n)
  BY <1>1
<1> HIDE DEF G
<1>5. ASSUME NEW n \in Nat
      PROVE  f[n] = IF n = 0 THEN 0 ELSE f[n - 1] + d[n - 1]
  <2>1. G[n][n] = IF n = 0 THEN 0 ELSE G[n][n - 1] + d[n - 1]
    <3>1. n \in 0 .. n /\ G[n] \in Sums(n)
      BY <1>4
    <3> QED BY <1>0, <3>1
  <2>2. ASSUME n # 0
        PROVE  G[n][n - 1] = G[n - 1][n - 1] /\ n - 1 \in Nat
    <3>1. n - 1 \in Nat /\ n - 1 <= n /\ n - 1 <= n - 1
      BY <2>2
    <3>2. G[n] \in Sums(n) /\ G[n - 1] \in Sums(n - 1)
      BY <1>4, <3>1
    <3> QED BY <1>3, <3>1, <3>2
  <2> QED BY <2>1, <2>2
<1>6. f = [i \in Nat |-> IF i = 0 THEN 0 ELSE f[i - 1] + d[i - 1]]
  <2> DEFINE rhs == [i \in Nat |-> IF i = 0 THEN 0 ELSE f[i - 1] + d[i - 1]]
  <2>1. f = [i \in Nat |-> f[i]]
    OBVIOUS
  <2> HIDE DEF f
  <2>2. \A i \in Nat : f[i] = rhs[i]
    BY <1>5
  <2> QED BY <2>1, <2>2
<1> QED BY <1>6

(* They are numbers, and grow. *)
LEMMA RunningSum ==
  ASSUME NEW d \in [Nat -> Nat]
  PROVE  \E f \in [Nat -> Nat] :
           /\ f[0] = 0 /\ \A i \in Nat : f[i + 1] = f[i] + d[i]
           /\ \A i, j \in Nat : i <= j => f[i] <= f[j]
<1>1. PICK f : f = [i \in Nat |-> IF i = 0 THEN 0 ELSE f[i - 1] + d[i - 1]]
  BY RunningSumExists
<1>2. f[0] = 0 /\ DOMAIN f = Nat
  <2>1. 0 \in Nat
    OBVIOUS
  <2> QED BY <1>1, <2>1
<1>3. ASSUME NEW i \in Nat
      PROVE  f[i + 1] = f[i] + d[i]
  <2>1. \A n \in Nat : f[n] = IF n = 0 THEN 0 ELSE f[n - 1] + d[n - 1]
    BY <1>1
  <2>2. i + 1 \in Nat /\ i + 1 # 0 /\ i + 1 - 1 = i
    OBVIOUS
  <2> QED BY <2>1, <2>2
<1> DEFINE Sums == {n \in Nat : f[n] \in Nat}
<1>4. Sums = Nat
  <2>1. 0 \in Sums /\ \A n \in Sums : n + 1 \in Sums
    BY <1>2, <1>3
  <2>2. Sums \in SUBSET Nat
    OBVIOUS
  <2> HIDE DEF Sums
  <2> QED BY <2>1, <2>2, SetInduction
<1>5. f \in [Nat -> Nat]
  <2>1. \A n \in Nat : f[n] \in Nat
    BY <1>4
  <2>2. f = [n \in Nat |-> f[n]]
    BY <1>1, <1>2
  <2> QED BY <2>1, <2>2
<1>6. ASSUME NEW i \in Nat
      PROVE  \A j \in Nat : i <= j => f[i] <= f[j]
  <2> DEFINE Above == {k \in Nat : f[i] <= f[i + k]}
  <2>1. 0 \in Above
    BY <1>5
  <2>2. ASSUME NEW k \in Above
        PROVE  k + 1 \in Above
    <3>1. k \in Nat /\ f[i] <= f[i + k] /\ i + k \in Nat /\ (i + k) + 1 = i + (k + 1)
      OBVIOUS
    <3>2. f[(i + k) + 1] = f[i + k] + d[i + k]
      BY <1>3, <3>1
    <3>3. f[i] \in Nat /\ f[i + k] \in Nat /\ d[i + k] \in Nat
      BY <1>5, <3>1
    <3>4. f[i] <= f[i + (k + 1)]
      BY <3>1, <3>2, <3>3
    <3> QED BY <3>1, <3>4
  <2>3. Above \in SUBSET Nat
    OBVIOUS
  <2> HIDE DEF Above
  <2>4. Above = Nat
    BY <2>1, <2>2, <2>3, SetInduction
  <2>5. ASSUME NEW j \in Nat, i <= j
        PROVE  f[i] <= f[j]
    <3>1. j - i \in Above /\ i + (j - i) = j
      BY <2>4, <2>5
    <3> QED BY <3>1 DEF Above
  <2> QED BY <2>5
<1> QED BY <1>2, <1>3, <1>5, <1>6

-----------------------------------------------------------------------------
(* sorted() lists every element of a finite set once, in order.            *)

StrictOrder(S, precedes) ==
  /\ \A x \in S : <<x, x>> \notin precedes
  /\ \A x, y, z \in S : <<x, y>> \in precedes /\ <<y, z>> \in precedes => <<x, z>> \in precedes
  /\ \A x, y \in S : x # y => <<x, y>> \in precedes \/ <<y, x>> \in precedes

Below(S, precedes, x) == {y \in S : <<y, x>> \in precedes}

LEMMA InOrderLists ==
  ASSUME NEW S, NEW precedes, IsFiniteSet(S), StrictOrder(S, precedes)
  PROVE  /\ Cardinality(S) \in Nat
         /\ InOrder(S, precedes) \in [1 .. Cardinality(S) -> S]
         /\ \A i \in 1 .. Cardinality(S) :
              Cardinality(Below(S, precedes, InOrder(S, precedes)[i])) = i - 1
         /\ \A x \in S : \E i \in 1 .. Cardinality(S) : InOrder(S, precedes)[i] = x
<1> DEFINE n == Cardinality(S)
           rank == [x \in S |-> Cardinality(Below(S, precedes, x))]
<1>1. n \in Nat
  BY FS_CardinalityType
<1>2. ASSUME NEW x \in S
      PROVE  IsFiniteSet(Below(S, precedes, x)) /\ rank[x] \in Nat /\ rank[x] < n
  <2>1. Below(S, precedes, x) \subseteq S /\ x \notin Below(S, precedes, x)
    BY DEF Below, StrictOrder
  <2>2. /\ IsFiniteSet(Below(S, precedes, x))
        /\ Cardinality(Below(S, precedes, x)) <= n
        /\ Cardinality(Below(S, precedes, x)) = n => Below(S, precedes, x) = S
    BY <2>1, FS_Subset
  <2>3. Cardinality(Below(S, precedes, x)) \in Nat
    BY <2>2, FS_CardinalityType
  <2> QED  BY <1>1, <2>1, <2>2, <2>3
<1>3. ASSUME NEW x \in S, NEW y \in S, <<x, y>> \in precedes
      PROVE  rank[x] < rank[y]
  <2>1. /\ Below(S, precedes, x) \subseteq Below(S, precedes, y)
        /\ x \in Below(S, precedes, y) /\ x \notin Below(S, precedes, x)
    BY <1>3 DEF Below, StrictOrder
  <2>2. /\ Cardinality(Below(S, precedes, x)) <= Cardinality(Below(S, precedes, y))
        /\ Cardinality(Below(S, precedes, x)) # Cardinality(Below(S, precedes, y))
    BY <1>2, <2>1, FS_Subset
  <2> QED  BY <1>2, <2>2
<1>4. ASSUME NEW x \in S, NEW y \in S, rank[x] = rank[y]
      PROVE  x = y
  <2> SUFFICES ASSUME x # y  PROVE FALSE
    OBVIOUS
  <2>1. rank[x] < rank[y] \/ rank[y] < rank[x]
    BY <1>3 DEF StrictOrder
  <2> QED  BY <1>2, <1>4, <2>1
<1> HIDE DEF rank
<1>5. ASSUME NEW i \in 1 .. n
      PROVE  \E x \in S : rank[x] = i - 1
  <2> SUFFICES ASSUME \A x \in S : rank[x] # i - 1  PROVE FALSE
    OBVIOUS
  <2> DEFINE T == (0 .. n - 1) \ {i - 1}
             f == [x \in S |-> rank[x]]
  <2>1. IsFiniteSet(0 .. n - 1) /\ Cardinality(0 .. n - 1) = n /\ i - 1 \in 0 .. n - 1
    <3>1. 0 \in Int /\ n - 1 \in Int /\ ~(0 > n - 1) /\ n - 1 - 0 + 1 = n /\ i - 1 \in 0 .. n - 1
      BY <1>1
    <3> HIDE DEF n
    <3> QED  BY <3>1, FS_Interval
  <2>2. IsFiniteSet(T) /\ Cardinality(T) = n - 1
    <3> DEFINE U == 0 .. n - 1
    <3>1. IsFiniteSet(U) /\ Cardinality(U) = n /\ i - 1 \in U
      BY <2>1
    <3> HIDE DEF U
    <3>2. IsFiniteSet(U \ {i - 1}) /\ Cardinality(U \ {i - 1}) = Cardinality(U) - 1
      BY <3>1, FS_RemoveElement
    <3> QED  BY <3>1, <3>2 DEF U
  <2>3. f \in [S -> T]
    <3>1. \A x \in S : rank[x] \in 0 .. n - 1
      BY <1>1, <1>2
    <3> QED  BY <3>1
  <2>4. Cardinality(T) < Cardinality(S)
    BY <1>1, <2>2
  <2> HIDE DEF T, f
  <2>5. \E x, y \in S : x # y /\ f[x] = f[y]
    BY <2>2, <2>3, <2>4, FS_PigeonHole
  <2> QED  BY <1>4, <2>5 DEF f
<1>6. ASSUME NEW i \in 1 .. n
      PROVE  InOrder(S, precedes)[i] \in S /\ rank[InOrder(S, precedes)[i]] = i - 1
  <2>1. InOrder(S, precedes)[i] = CHOOSE x \in S : Cardinality(Below(S, precedes, x)) = i - 1
    BY DEF InOrder, Below
  <2>2. \E x \in S : Cardinality(Below(S, precedes, x)) = i - 1
    BY <1>5 DEF rank
  <2> QED  BY <2>1, <2>2 DEF rank
<1>7. ASSUME NEW x \in S
      PROVE  \E i \in 1 .. n : InOrder(S, precedes)[i] = x
  <2>1. PICK before \in Nat : before = rank[x] /\ before < n
    BY <1>2
  <2>2. before + 1 \in 1 .. n /\ before + 1 - 1 = before
    BY <1>1, <2>1
  <2>3. InOrder(S, precedes)[before + 1] \in S
        /\ rank[InOrder(S, precedes)[before + 1]] = before + 1 - 1
    BY <1>6, <2>2
  <2>4. InOrder(S, precedes)[before + 1] = x
    BY <1>4, <2>1, <2>2, <2>3
  <2> QED  BY <2>2, <2>4
<1>8. InOrder(S, precedes) \in [1 .. n -> S]
  <2> DEFINE listed == InOrder(S, precedes)
  <2>1. listed = [i \in DOMAIN listed |-> listed[i]] /\ DOMAIN listed = 1 .. n
    <3> DEFINE at(i) == CHOOSE x \in S : Cardinality({y \in S : <<y, x>> \in precedes}) = i - 1
    <3>1. listed = [i \in 1 .. n |-> at(i)]
      BY DEF InOrder
    <3> HIDE DEF at, listed
    <3> QED  BY <3>1
  <2>2. \A i \in 1 .. n : listed[i] \in S
    BY <1>6
  <2> HIDE DEF n, listed
  <2>3. listed \in [1 .. n -> S]
    BY <2>1, <2>2
  <2> QED  BY <2>3 DEF listed
<1> QED  BY <1>1, <1>6, <1>7, <1>8 DEF rank

LEMMA AscendingLists ==
  ASSUME NEW S \in SUBSET Int, IsFiniteSet(S)
  PROVE  /\ Ascending(S) \in [1 .. Cardinality(S) -> S]
         /\ DOMAIN Ascending(S) = 1 .. Cardinality(S) /\ Cardinality(S) \in Nat
         /\ \A i \in DOMAIN Ascending(S) : Ascending(S)[i] \in S
         /\ \A x \in S : \E i \in DOMAIN Ascending(S) : Ascending(S)[i] = x
<1> DEFINE less == {p \in S \X S : p[1] < p[2]}
<1>1. \A x, y \in S : <<x, y>> \in less <=> x < y
  OBVIOUS
<1>2. StrictOrder(S, less)
  <2> HIDE DEF less
  <2> QED  BY <1>1 DEF StrictOrder
<1>3. Ascending(S) = InOrder(S, less)
  BY DEF Ascending
<1> HIDE DEF less
<1>4. /\ Cardinality(S) \in Nat
      /\ InOrder(S, less) \in [1 .. Cardinality(S) -> S]
      /\ \A x \in S : \E i \in 1 .. Cardinality(S) : InOrder(S, less)[i] = x
  BY <1>2, InOrderLists
<1> QED  BY <1>3, <1>4

(* What precedes an element is listed before it.                           *)
LEMMA InOrderAscends ==
  ASSUME NEW S, NEW precedes, IsFiniteSet(S), StrictOrder(S, precedes),
         NEW i \in 1 .. Cardinality(S), NEW j \in 1 .. Cardinality(S),
         <<InOrder(S, precedes)[i], InOrder(S, precedes)[j]>> \in precedes
  PROVE  i < j
<1> DEFINE x == InOrder(S, precedes)[i]
           y == InOrder(S, precedes)[j]
<1>1. /\ Cardinality(S) \in Nat /\ x \in S /\ y \in S
      /\ Cardinality(Below(S, precedes, x)) = i - 1
      /\ Cardinality(Below(S, precedes, y)) = j - 1
  BY InOrderLists
<1> HIDE DEF x, y
<1>2. Below(S, precedes, x) \subseteq Below(S, precedes, y)
  BY <1>1 DEF Below, StrictOrder, x, y
<1>3. x \in Below(S, precedes, y) /\ x \notin Below(S, precedes, x)
  BY <1>1 DEF Below, StrictOrder, x, y
<1>4. IsFiniteSet(Below(S, precedes, y))
  BY FS_Subset DEF Below
<1>5. Cardinality(Below(S, precedes, x)) < Cardinality(Below(S, precedes, y))
  BY <1>2, <1>3, <1>4, FS_Subset, FS_CardinalityType
<1> QED  BY <1>1, <1>5

LEMMA AscendingStrictly ==
  ASSUME NEW S \in SUBSET Int, IsFiniteSet(S),
         NEW i \in 1 .. Cardinality(S), NEW j \in 1 .. Cardinality(S), i < j
  PROVE  Ascending(S)[i] < Ascending(S)[j]
<1> DEFINE less == {p \in S \X S : p[1] < p[2]}
<1>1. \A x, y \in S : <<x, y>> \in less <=> x < y
  OBVIOUS
<1>2. StrictOrder(S, less)
  <2> HIDE DEF less
  <2> QED  BY <1>1 DEF StrictOrder
<1>3. Ascending(S) = InOrder(S, less)
  BY DEF Ascending
<1> HIDE DEF less
<1>4. /\ InOrder(S, less)[i] \in S /\ InOrder(S, less)[j] \in S
      /\ Cardinality(Below(S, less, InOrder(S, less)[i])) = i - 1
      /\ Cardinality(Below(S, less, InOrder(S, less)[j])) = j - 1
  BY <1>2, InOrderLists
<1>5. <<InOrder(S, less)[j], InOrder(S, less)[i]>> \notin less
  BY <1>2, InOrderAscends
<1>6. InOrder(S, less)[i] # InOrder(S, less)[j]
  BY <1>4
<1> DEFINE x == InOrder(S, less)[i]
           y == InOrder(S, less)[j]
<1>7. x \in S /\ y \in S /\ x \in Int /\ y \in Int /\ x # y /\ ~(y < x)
  BY <1>1, <1>4, <1>5, <1>6
<1> HIDE DEF x, y
<1>8. x < y
  BY <1>7
<1> QED  BY <1>3, <1>8 DEF x, y

-----------------------------------------------------------------------------
(* Sums over finite sets, as the folds of the community modules take them. *)

(* The element a fold takes next. *)
Picked(T) == CHOOSE x \in T : TRUE

(* h folds the sum of g over the subsets of S. *)
SumFold(h, g, S) ==
  h = [T \in SUBSET S |-> IF T = {} THEN 0 ELSE g[Picked(T)] + h[T \ {Picked(T)}]]

LEMMA PickedIsIn == \A T : T # {} => Picked(T) \in T
BY DEF Picked

(* Taking one element from a set leaves a smaller one. *)
LEMMA OneLess ==
  ASSUME NEW S, IsFiniteSet(S), NEW T \in SUBSET S, NEW x \in T
  PROVE  /\ IsFiniteSet(T) /\ Cardinality(T) \in Nat \ {0}
         /\ T \ {x} \in SUBSET S /\ Cardinality(T \ {x}) = Cardinality(T) - 1
<1>1. IsFiniteSet(T)
  BY FS_Subset
<1>2. Cardinality(T) \in Nat /\ Cardinality(T) # 0
  BY <1>1, FS_CardinalityType, FS_EmptySet
<1> QED  BY <1>1, <1>2, FS_RemoveElement

(* What holds of the empty set, and of a set when it holds of the set without
   any one of its elements, holds of all subsets of a finite set. *)
LEMMA SubsetInduction ==
  ASSUME NEW S, IsFiniteSet(S), NEW Good, {} \in Good,
         \A T \in SUBSET S : T # {} /\ (\A x \in T : T \ {x} \in Good) => T \in Good
  PROVE  SUBSET S \subseteq Good
<1> DEFINE Sizes == {n \in Nat : \A T \in SUBSET S : Cardinality(T) = n => T \in Good}
<1>1. 0 \in Sizes
  <2>1. \A T \in SUBSET S : Cardinality(T) = 0 => T = {}
    BY FS_Subset, FS_EmptySet
  <2> QED  BY <2>1
<1>2. ASSUME NEW n \in Sizes
      PROVE  n + 1 \in Sizes
  <2>1. ASSUME NEW T \in SUBSET S, Cardinality(T) = n + 1
        PROVE  T \in Good
    <3>1. n \in Nat /\ \A U \in SUBSET S : Cardinality(U) = n => U \in Good
      OBVIOUS
    <3> HIDE DEF Sizes
    <3>2. T # {}
      <4>1. Cardinality({}) # n + 1
        BY <3>1, FS_EmptySet
      <4> QED  BY <2>1, <4>1
    <3>3. ASSUME NEW x \in T
          PROVE  T \ {x} \in Good
      <4>1. T \ {x} \in SUBSET S /\ Cardinality(T \ {x}) = Cardinality(T) - 1
        BY OneLess
      <4>2. Cardinality(T \ {x}) = n
        BY <2>1, <3>1, <4>1
      <4> QED  BY <3>1, <4>1, <4>2
    <3> QED  BY <3>2, <3>3
  <2> QED  BY <2>1
<1>3. Sizes \in SUBSET Nat
  OBVIOUS
<1> HIDE DEF Sizes
<1>4. Sizes = Nat
  BY <1>1, <1>2, <1>3, SetInduction
<1>5. ASSUME NEW T \in SUBSET S
      PROVE  T \in Good
  <2>1. Cardinality(T) \in Sizes
    BY <1>4, FS_Subset, FS_CardinalityType
  <2> QED  BY <2>1 DEF Sizes
<1> QED  BY <1>5

(* A fold over numbers exists. *)
LEMMA FoldExists ==
  ASSUME NEW S, IsFiniteSet(S), NEW g, \A x \in S : g[x] \in Int
  PROVE  \E h : SumFold(h, g, S)
<1> DEFINE Within(n) == {T \in SUBSET S : Cardinality(T) <= n}
           Sol(n) == {h \in [Within(n) -> Int] : \A T \in Within(n) :
                        h[T] = IF T = {} THEN 0 ELSE g[Picked(T)] + h[T \ {Picked(T)}]}
           Have == {n \in Nat : Sol(n) # {}}
<1>0. ASSUME NEW T \in SUBSET S
      PROVE  IsFiniteSet(T) /\ Cardinality(T) \in Nat
  BY FS_Subset, FS_CardinalityType
<1>1. 0 \in Have
  <2>1. \A T \in Within(0) : T = {}
    BY <1>0, FS_EmptySet
  <2>2. [T \in Within(0) |-> 0] \in Sol(0)
    BY <2>1
  <2> QED  BY <2>2
<1>2. ASSUME NEW n \in Have
      PROVE  n + 1 \in Have
  <2>1. n \in Nat
    OBVIOUS
  <2>2. PICK h \in Sol(n) : TRUE
    OBVIOUS
  <2>3. /\ h \in [Within(n) -> Int]
        /\ \A T \in Within(n) : h[T] = IF T = {} THEN 0 ELSE g[Picked(T)] + h[T \ {Picked(T)}]
    OBVIOUS
  <2> DEFINE k == [T \in Within(n + 1) |->
                     IF T = {} THEN 0 ELSE g[Picked(T)] + h[T \ {Picked(T)}]]
  <2>4. ASSUME NEW T \in Within(n + 1), T # {}
        PROVE  /\ T \ {Picked(T)} \in Within(n) /\ T \ {Picked(T)} \in Within(n + 1)
               /\ g[Picked(T)] \in Int
    <3>1. Picked(T) \in T /\ T \in SUBSET S
      BY <2>4, PickedIsIn
    <3>2. T \ {Picked(T)} \in SUBSET S /\ Cardinality(T \ {Picked(T)}) = Cardinality(T) - 1
          /\ Cardinality(T) \in Nat /\ Cardinality(T) <= n + 1
      BY <3>1, OneLess
    <3> QED  BY <2>1, <3>1, <3>2
  <2> HIDE DEF Sol
  <2>5. k \in [Within(n + 1) -> Int]
    <3> HIDE DEF Within
    <3> QED  BY <2>3, <2>4
  <2>6. \A T \in Within(n + 1) : T \in Within(n) => h[T] = k[T]
    <3> HIDE DEF Within
    <3> QED  BY <2>3
  <2>7. \A T \in Within(n + 1) :
          k[T] = IF T = {} THEN 0 ELSE g[Picked(T)] + k[T \ {Picked(T)}]
    <3> HIDE DEF Within
    <3> QED  BY <2>4, <2>6
  <2>8. k \in Sol(n + 1)
    <3> HIDE DEF k, Within
    <3> QED  BY <2>5, <2>7 DEF Sol
  <2> HIDE DEF Have
  <2> QED  BY <2>1, <2>8 DEF Have
<1>3. Have \in SUBSET Nat
  OBVIOUS
<1> HIDE DEF Have
<1>4. Have = Nat
  BY <1>1, <1>2, <1>3, SetInduction
<1>5. Within(Cardinality(S)) = SUBSET S
  BY <1>0, FS_Subset
<1>6. PICK h : h \in Sol(Cardinality(S))
  <2>1. Cardinality(S) \in Have
    BY <1>4, FS_CardinalityType
  <2> QED  BY <2>1 DEF Have
<1>7. /\ h \in [SUBSET S -> Int]
      /\ \A T \in SUBSET S : h[T] = IF T = {} THEN 0 ELSE g[Picked(T)] + h[T \ {Picked(T)}]
  BY <1>5, <1>6
<1> QED  BY <1>7 DEF SumFold

(* It is unique, also on the subsets of a smaller set. *)
LEMMA FoldUnique ==
  ASSUME NEW S, IsFiniteSet(S), NEW U \in SUBSET S, NEW g, NEW h, NEW k,
         SumFold(h, g, S), SumFold(k, g, U)
  PROVE  \A T \in SUBSET U : h[T] = k[T]
<1> DEFINE Good == {T \in SUBSET U : h[T] = k[T]}
<1>1. \A T \in SUBSET U : h[T] = IF T = {} THEN 0 ELSE g[Picked(T)] + h[T \ {Picked(T)}]
  BY DEF SumFold
<1>2. \A T \in SUBSET U : k[T] = IF T = {} THEN 0 ELSE g[Picked(T)] + k[T \ {Picked(T)}]
  BY DEF SumFold
<1>3. {} \in Good
  BY <1>1, <1>2
<1>4. ASSUME NEW T \in SUBSET U, T # {}, \A x \in T : T \ {x} \in Good
      PROVE  T \in Good
  <2>1. T \ {Picked(T)} \in Good
    BY <1>4, PickedIsIn
  <2> QED  BY <1>1, <1>2, <1>4, <2>1
<1>5. IsFiniteSet(U)
  BY FS_Subset
<1> HIDE DEF Good
<1>6. SUBSET U \subseteq Good
  BY <1>3, <1>4, <1>5, SubsetInduction
<1> QED  BY <1>6 DEF Good

(* SumFunctionOnSet takes its fold where it says. *)
LEMMA SumIsFold ==
  ASSUME NEW S, IsFiniteSet(S), NEW g, \A x \in S : g[x] \in Int
  PROVE  \E h : SumFold(h, g, S) /\ \A T \in SUBSET S : SumFunctionOnSet(g, T) = h[T]
<1>1. PICK h : SumFold(h, g, S)
  BY FoldExists
<1>2. ASSUME NEW T \in SUBSET S
      PROVE  SumFunctionOnSet(g, T) = h[T]
  <2> DEFINE F(k) == [U \in SUBSET T |-> IF U = {} THEN 0 ELSE g[Picked(U)] + k[U \ {Picked(U)}]]
             iter == CHOOSE k : k = F(k)
  <2>1. SumFunctionOnSet(g, T) = iter[T]
    BY DEF SumFunctionOnSet, FoldFunctionOnSet, MapThenFoldSet, Picked
  <2>2. \E k : k = F(k)
    <3>1. IsFiniteSet(T) /\ \A x \in T : g[x] \in Int
      BY FS_Subset
    <3>2. PICK k : SumFold(k, g, T)
      BY <3>1, FoldExists
    <3> QED  BY <3>2 DEF SumFold
  <2>3. iter = F(iter)
    <3> HIDE DEF F
    <3> QED  BY <2>2
  <2>4. SumFold(iter, g, T)
    <3> HIDE DEF iter
    <3> QED  BY <2>3 DEF SumFold
  <2> HIDE DEF iter
  <2>5. \A U \in SUBSET T : h[U] = iter[U]
    BY <1>1, <2>4, FoldUnique
  <2> QED  BY <2>1, <2>5
<1> QED  BY <1>1, <1>2

(* Nothing sums up to zero. *)
LEMMA SumEmpty == \A g : SumFunctionOnSet(g, {}) = 0
<1> SUFFICES ASSUME NEW g PROVE SumFunctionOnSet(g, {}) = 0
  OBVIOUS
<1>1. PICK h : SumFold(h, g, {}) /\ SumFunctionOnSet(g, {}) = h[{}]
  BY SumIsFold, FS_EmptySet
<1> QED  BY <1>1 DEF SumFold

(* A sum of numbers is a number, and any element may be added last. *)
LEMMA SumTakesOut ==
  ASSUME NEW S, IsFiniteSet(S), NEW g, \A x \in S : g[x] \in Int
  PROVE  /\ SumFunctionOnSet(g, S) \in Int
         /\ \A x \in S : SumFunctionOnSet(g, S) = g[x] + SumFunctionOnSet(g, S \ {x})
<1>1. PICK h : SumFold(h, g, S) /\ \A T \in SUBSET S : SumFunctionOnSet(g, T) = h[T]
  BY SumIsFold
<1>2. \A T \in SUBSET S : h[T] = IF T = {} THEN 0 ELSE g[Picked(T)] + h[T \ {Picked(T)}]
  BY <1>1 DEF SumFold
<1> DEFINE Whole == {T \in SUBSET S : h[T] \in Int}
           Good == {T \in SUBSET S : \A x \in T : h[T] = g[x] + h[T \ {x}]}
<1>3. \A T \in SUBSET S : h[T] \in Int
  <2>1. {} \in Whole
    BY <1>2
  <2>2. ASSUME NEW T \in SUBSET S, T # {}, \A x \in T : T \ {x} \in Whole
        PROVE  T \in Whole
    <3>1. Picked(T) \in T
      BY <2>2, PickedIsIn
    <3>2. h[T] = g[Picked(T)] + h[T \ {Picked(T)}]
      BY <1>2, <2>2
    <3>3. h[T \ {Picked(T)}] \in Int /\ g[Picked(T)] \in Int
      BY <2>2, <3>1
    <3>4. h[T] \in Int
      BY <3>2, <3>3
    <3> QED  BY <3>4
  <2> HIDE DEF Whole
  <2>3. SUBSET S \subseteq Whole
    BY <2>1, <2>2, SubsetInduction
  <2> QED  BY <2>3 DEF Whole
<1>4. {} \in Good
  OBVIOUS
<1>5. ASSUME NEW T \in SUBSET S, T # {}, \A x \in T : T \ {x} \in Good
      PROVE  T \in Good
  <2>1. \A x \in T : \A y \in T \ {x} : h[T \ {x}] = g[y] + h[(T \ {x}) \ {y}]
    BY <1>5
  <2> HIDE DEF Good
  <2> DEFINE y == Picked(T)
  <2>2. y \in T /\ h[T] = g[y] + h[T \ {y}]
    BY <1>2, <1>5, PickedIsIn
  <2> HIDE DEF y
  <2>3. ASSUME NEW x \in T, x # y
        PROVE  h[T] = g[x] + h[T \ {x}]
    <3>1. x \in T \ {y} /\ y \in T \ {x}
      BY <2>2, <2>3
    <3>2. h[T \ {y}] = g[x] + h[(T \ {y}) \ {x}]
      BY <2>1, <2>2, <3>1
    <3>3. h[T \ {x}] = g[y] + h[(T \ {x}) \ {y}]
      BY <2>1, <3>1
    <3>4. (T \ {y}) \ {x} = (T \ {x}) \ {y}
      OBVIOUS
    <3>5. g[x] \in Int /\ g[y] \in Int /\ h[(T \ {x}) \ {y}] \in Int
      BY <1>3, <2>2
    <3>6. h[(T \ {y}) \ {x}] = h[(T \ {x}) \ {y}]
      BY <3>4
    <3> DEFINE c == h[(T \ {x}) \ {y}]
               b == h[T \ {y}]
               d == h[T \ {x}]
    <3>7. b = g[x] + c /\ d = g[y] + c /\ h[T] = g[y] + b /\ c \in Int
      BY <2>2, <3>2, <3>3, <3>5, <3>6
    <3>8. SUFFICES h[T] = g[x] + d
      OBVIOUS
    <3> HIDE DEF b, c, d
    <3> QED  BY <3>5, <3>7
  <2>4. \A x \in T : h[T] = g[x] + h[T \ {x}]
    BY <2>2, <2>3
  <2> QED  BY <2>4 DEF Good
<1> HIDE DEF Good
<1>6. S \in Good
  BY <1>4, <1>5, SubsetInduction
<1> QED  BY <1>1, <1>3, <1>6 DEF Good

(* A sum of natural numbers is one. *)
LEMMA SumNatural ==
  ASSUME NEW S, IsFiniteSet(S), NEW g, \A x \in S : g[x] \in Nat
  PROVE  SumFunctionOnSet(g, S) \in Nat
<1> DEFINE Good == {T \in SUBSET S : SumFunctionOnSet(g, T) \in Nat}
<1>1. {} \in Good
  BY SumEmpty
<1>2. ASSUME NEW T \in SUBSET S, T # {}, \A x \in T : T \ {x} \in Good
      PROVE  T \in Good
  <2>1. PICK x \in T : TRUE
    BY <1>2
  <2>2. SumFunctionOnSet(g, T) = g[x] + SumFunctionOnSet(g, T \ {x})
    <3>1. IsFiniteSet(T) /\ \A y \in T : g[y] \in Int
      BY FS_Subset
    <3> QED  BY <3>1, SumTakesOut
  <2>3. SumFunctionOnSet(g, T \ {x}) \in Nat /\ g[x] \in Nat
    BY <1>2
  <2>4. SumFunctionOnSet(g, T) \in Nat
    BY <2>2, <2>3
  <2> QED  BY <2>4
<1> HIDE DEF Good
<1>3. S \in Good
  BY <1>1, <1>2, SubsetInduction
<1> QED  BY <1>3 DEF Good

(* Only the values on the set count. *)
LEMMA SumSame ==
  ASSUME NEW S, IsFiniteSet(S), NEW f, NEW g, \A x \in S : f[x] \in Int /\ f[x] = g[x]
  PROVE  SumFunctionOnSet(f, S) = SumFunctionOnSet(g, S)
<1> DEFINE Good == {T \in SUBSET S : SumFunctionOnSet(f, T) = SumFunctionOnSet(g, T)}
<1>1. {} \in Good
  BY SumEmpty
<1>2. ASSUME NEW T \in SUBSET S, T # {}, \A x \in T : T \ {x} \in Good
      PROVE  T \in Good
  <2>1. PICK x \in T : TRUE
    BY <1>2
  <2>2. IsFiniteSet(T) /\ (\A y \in T : f[y] \in Int) /\ (\A y \in T : g[y] \in Int)
    BY FS_Subset
  <2>3. SumFunctionOnSet(f, T) = f[x] + SumFunctionOnSet(f, T \ {x})
    BY <2>2, SumTakesOut
  <2>4. SumFunctionOnSet(g, T) = g[x] + SumFunctionOnSet(g, T \ {x})
    BY <2>2, SumTakesOut
  <2>5. SumFunctionOnSet(f, T \ {x}) = SumFunctionOnSet(g, T \ {x}) /\ f[x] = g[x]
    BY <1>2
  <2> QED  BY <2>3, <2>4, <2>5
<1> HIDE DEF Good
<1>3. S \in Good
  BY <1>1, <1>2, SubsetInduction
<1> QED  BY <1>3 DEF Good

(* A finite set of numbers has a greatest element. *)
LEMMA GreatestExists ==
  ASSUME NEW S \in SUBSET Nat, IsFiniteSet(S), S # {}
  PROVE  \E greatest \in S : \A n \in S : n <= greatest
<1> DEFINE Good == {T \in SUBSET S : T # {} => \E greatest \in T : \A n \in T : n <= greatest}
<1>1. {} \in Good
  OBVIOUS
<1>2. ASSUME NEW T \in SUBSET S, T # {}, \A x \in T : T \ {x} \in Good
      PROVE  T \in Good
  <2>1. PICK x \in T : TRUE
    BY <1>2
  <2>2. \A n \in T : n \in Nat
    OBVIOUS
  <2>3. CASE T \ {x} = {}
    BY <2>1, <2>2, <2>3
  <2>4. CASE T \ {x} # {}
    <3>1. PICK g \in T \ {x} : \A n \in T \ {x} : n <= g
      BY <1>2, <2>4
    <3>2. CASE x <= g
      BY <2>2, <3>1, <3>2
    <3>3. CASE ~(x <= g)
      <4>1. \A n \in T : n <= x
        BY <2>1, <2>2, <3>1, <3>3
      <4> QED  BY <4>1
    <3> QED  BY <3>2, <3>3
  <2> QED  BY <2>3, <2>4
<1> HIDE DEF Good
<1>3. S \in Good
  BY <1>1, <1>2, SubsetInduction
<1> QED  BY <1>3 DEF Good

LEMMA MaxIsGreatest ==
  ASSUME NEW S \in SUBSET Nat, IsFiniteSet(S), S # {}
  PROVE  Max(S) \in S /\ \A n \in S : n <= Max(S)
<1>1. \E greatest \in S : \A n \in S : greatest >= n
  <2>1. PICK greatest \in S : \A n \in S : n <= greatest
    BY GreatestExists
  <2>2. \A n \in S : greatest >= n
    BY <2>1
  <2> QED  BY <2>2
<1>2. Max(S) \in S /\ \A n \in S : Max(S) >= n
  BY <1>1 DEF Max
<1> QED  BY <1>2

(* Two parts add up to the whole. *)
LEMMA SumUnion ==
  ASSUME NEW A, IsFiniteSet(A), NEW B, IsFiniteSet(B), A \cap B = {},
         NEW g, \A x \in A \cup B : g[x] \in Int
  PROVE  SumFunctionOnSet(g, A \cup B) = SumFunctionOnSet(g, A) + SumFunctionOnSet(g, B)
<1> DEFINE Good == {T \in SUBSET A :
             SumFunctionOnSet(g, T \cup B) = SumFunctionOnSet(g, T) + SumFunctionOnSet(g, B)}
<1>1. SumFunctionOnSet(g, B) \in Int
  BY SumTakesOut
<1>2. {} \in Good
  <2>1. SumFunctionOnSet(g, {}) = 0 /\ {} \cup B = B
    BY SumEmpty
  <2> QED  BY <1>1, <2>1
<1>3. ASSUME NEW T \in SUBSET A, T # {}, \A x \in T : T \ {x} \in Good
      PROVE  T \in Good
  <2>1. PICK x \in T : TRUE
    BY <1>3
  <2>2. IsFiniteSet(T) /\ IsFiniteSet(T \cup B) /\ IsFiniteSet(T \ {x})
    <3>1. IsFiniteSet(T)
      BY FS_Subset
    <3> QED  BY <3>1, FS_Union, FS_Subset
  <2>3. (T \cup B) \ {x} = (T \ {x}) \cup B
    OBVIOUS
  <2>4. SumFunctionOnSet(g, T \cup B) = g[x] + SumFunctionOnSet(g, (T \cup B) \ {x})
    BY <2>2, SumTakesOut
  <2>5. SumFunctionOnSet(g, T) = g[x] + SumFunctionOnSet(g, T \ {x})
    BY <2>2, SumTakesOut
  <2>6. SumFunctionOnSet(g, (T \ {x}) \cup B)
          = SumFunctionOnSet(g, T \ {x}) + SumFunctionOnSet(g, B)
    BY <1>3
  <2>7. SumFunctionOnSet(g, T \ {x}) \in Int /\ g[x] \in Int
    BY <2>2, SumTakesOut
  <2>8. SumFunctionOnSet(g, T \cup B)
          = g[x] + SumFunctionOnSet(g, (T \ {x}) \cup B)
    BY <2>3, <2>4
  <2>9. SumFunctionOnSet(g, T \cup B) = SumFunctionOnSet(g, T) + SumFunctionOnSet(g, B)
    BY <1>1, <2>5, <2>6, <2>7, <2>8
  <2> QED  BY <2>9
<1> HIDE DEF Good
<1>4. A \in Good
  BY <1>2, <1>3, SubsetInduction
<1> QED  BY <1>4 DEF Good

(* The order in which values are added does not matter, nor how they are   *)
(* numbered.                                                               *)
IsRenumbering(f, S, g, T, h) ==
  /\ \A x \in S : f[x] \in Int /\ f[x] = g[h[x]]
  /\ \A x, y \in S : h[x] = h[y] => x = y
  /\ T = {h[x] : x \in S}

LEMMA SumReindexed ==
  ASSUME NEW S, IsFiniteSet(S), NEW R, NEW h, NEW f, NEW g, IsRenumbering(f, S, g, R, h)
  PROVE  SumFunctionOnSet(f, S) = SumFunctionOnSet(g, R)
<1> USE DEF IsRenumbering
<1> DEFINE Onto(T) == {h[x] : x \in T}
           Good == {T \in SUBSET S : /\ SumFunctionOnSet(f, T) = SumFunctionOnSet(g, Onto(T))
                                     /\ IsFiniteSet(Onto(T))}
<1>1. {} \in Good
  <2>1. Onto({}) = {}
    OBVIOUS
  <2>2. SumFunctionOnSet(f, {}) = 0 /\ SumFunctionOnSet(g, Onto({})) = 0
    BY <2>1, SumEmpty
  <2>3. IsFiniteSet(Onto({}))
    BY <2>1, FS_EmptySet
  <2> QED  BY <2>2, <2>3
<1>2. ASSUME NEW T \in SUBSET S, T # {}, \A x \in T : T \ {x} \in Good
      PROVE  T \in Good
  <2>1. PICK x \in T : TRUE
    BY <1>2
  <2>2. Onto(T) \ {h[x]} = Onto(T \ {x}) /\ h[x] \in Onto(T)
        /\ Onto(T) = Onto(T \ {x}) \cup {h[x]}
    OBVIOUS
  <2>3. /\ SumFunctionOnSet(f, T \ {x}) = SumFunctionOnSet(g, Onto(T \ {x}))
        /\ IsFiniteSet(Onto(T \ {x}))
    BY <1>2, <2>1
  <2>4. IsFiniteSet(T) /\ IsFiniteSet(Onto(T))
    BY <2>2, <2>3, FS_Subset, FS_AddElement
  <2>5. \A y \in Onto(T) : g[y] \in Int
    OBVIOUS
  <2>6. SumFunctionOnSet(f, T) = f[x] + SumFunctionOnSet(f, T \ {x})
    BY <2>4, SumTakesOut
  <2> HIDE DEF Onto
  <2>7. SumFunctionOnSet(g, Onto(T)) = g[h[x]] + SumFunctionOnSet(g, Onto(T) \ {h[x]})
    BY <2>2, <2>4, <2>5, SumTakesOut
  <2>8. SumFunctionOnSet(g, Onto(T)) = f[x] + SumFunctionOnSet(g, Onto(T \ {x}))
    BY <2>2, <2>7
  <2>9. SumFunctionOnSet(f, T) = SumFunctionOnSet(g, Onto(T))
    BY <2>3, <2>6, <2>8
  <2> QED  BY <2>4, <2>9
<1> HIDE DEF Good
<1>3. S \in Good
  BY <1>1, <1>2, SubsetInduction
<1> QED  BY <1>3 DEF Good

(* A sum of sums, and of larger values. *)
LEMMA SumPlus ==
  ASSUME NEW S, IsFiniteSet(S), NEW f, NEW g, NEW h,
         \A x \in S : f[x] \in Int /\ g[x] \in Int /\ h[x] = f[x] + g[x]
  PROVE  SumFunctionOnSet(h, S) = SumFunctionOnSet(f, S) + SumFunctionOnSet(g, S)
<1> DEFINE Good == {T \in SUBSET S :
             SumFunctionOnSet(h, T) = SumFunctionOnSet(f, T) + SumFunctionOnSet(g, T)}
<1>1. {} \in Good
  BY SumEmpty
<1>2. ASSUME NEW T \in SUBSET S, T # {}, \A x \in T : T \ {x} \in Good
      PROVE  T \in Good
  <2>1. PICK x \in T : TRUE
    BY <1>2
  <2>2. IsFiniteSet(T) /\ IsFiniteSet(T \ {x})
        /\ \A y \in T : f[y] \in Int /\ g[y] \in Int /\ h[y] \in Int
    BY FS_Subset
  <2>3. /\ SumFunctionOnSet(f, T) = f[x] + SumFunctionOnSet(f, T \ {x})
        /\ SumFunctionOnSet(f, T \ {x}) \in Int
    BY <2>2, SumTakesOut
  <2>4. /\ SumFunctionOnSet(g, T) = g[x] + SumFunctionOnSet(g, T \ {x})
        /\ SumFunctionOnSet(g, T \ {x}) \in Int
    BY <2>2, SumTakesOut
  <2>5. SumFunctionOnSet(h, T) = h[x] + SumFunctionOnSet(h, T \ {x})
    BY <2>2, SumTakesOut
  <2>6. SumFunctionOnSet(h, T \ {x})
          = SumFunctionOnSet(f, T \ {x}) + SumFunctionOnSet(g, T \ {x})
    BY <1>2
  <2>7. h[x] = f[x] + g[x] /\ f[x] \in Int /\ g[x] \in Int
    OBVIOUS
  <2>8. SumFunctionOnSet(h, T) = SumFunctionOnSet(f, T) + SumFunctionOnSet(g, T)
    BY <2>3, <2>4, <2>5, <2>6, <2>7
  <2> QED  BY <2>8
<1> HIDE DEF Good
<1>3. S \in Good
  BY <1>1, <1>2, SubsetInduction
<1> QED  BY <1>3 DEF Good

LEMMA SumMonotone ==
  ASSUME NEW S, IsFiniteSet(S), NEW f, NEW g,
         \A x \in S : f[x] \in Int /\ g[x] \in Int /\ f[x] <= g[x]
  PROVE  SumFunctionOnSet(f, S) <= SumFunctionOnSet(g, S)
<1> DEFINE Good == {T \in SUBSET S : SumFunctionOnSet(f, T) <= SumFunctionOnSet(g, T)}
<1>1. {} \in Good
  BY SumEmpty
<1>2. ASSUME NEW T \in SUBSET S, T # {}, \A x \in T : T \ {x} \in Good
      PROVE  T \in Good
  <2>1. PICK x \in T : TRUE
    BY <1>2
  <2>2. IsFiniteSet(T) /\ IsFiniteSet(T \ {x})
        /\ \A y \in T : f[y] \in Int /\ g[y] \in Int
    BY FS_Subset
  <2>3. /\ SumFunctionOnSet(f, T) = f[x] + SumFunctionOnSet(f, T \ {x})
        /\ SumFunctionOnSet(f, T \ {x}) \in Int
    BY <2>2, SumTakesOut
  <2>4. /\ SumFunctionOnSet(g, T) = g[x] + SumFunctionOnSet(g, T \ {x})
        /\ SumFunctionOnSet(g, T \ {x}) \in Int
    BY <2>2, SumTakesOut
  <2>5. SumFunctionOnSet(f, T \ {x}) <= SumFunctionOnSet(g, T \ {x})
        /\ f[x] <= g[x] /\ f[x] \in Int /\ g[x] \in Int
    BY <1>2
  <2>6. SumFunctionOnSet(f, T) <= SumFunctionOnSet(g, T)
    BY <2>3, <2>4, <2>5
  <2> QED  BY <2>6
<1> HIDE DEF Good
<1>3. S \in Good
  BY <1>1, <1>2, SubsetInduction
<1> QED  BY <1>3 DEF Good

(* When one value changes, so does the sum. *)
LEMMA SumChanged ==
  ASSUME NEW S, IsFiniteSet(S), NEW a \in S, NEW f, NEW g,
         \A x \in S : f[x] \in Int /\ g[x] \in Int,
         \A x \in S \ {a} : f[x] = g[x]
  PROVE  SumFunctionOnSet(g, S) = SumFunctionOnSet(f, S) - f[a] + g[a]
<1>1. /\ SumFunctionOnSet(f, S) = f[a] + SumFunctionOnSet(f, S \ {a})
      /\ SumFunctionOnSet(f, S) \in Int
  BY SumTakesOut
<1>2. SumFunctionOnSet(g, S) = g[a] + SumFunctionOnSet(g, S \ {a})
  BY SumTakesOut
<1>3. IsFiniteSet(S \ {a})
  BY FS_Subset
<1>4. SumFunctionOnSet(f, S \ {a}) = SumFunctionOnSet(g, S \ {a})
  BY <1>3, SumSame
<1>5. SumFunctionOnSet(f, S \ {a}) \in Int
  BY <1>3, SumTakesOut
<1> QED  BY <1>1, <1>2, <1>4, <1>5

(* Pairs can be added row by row. *)
IsRows(g, f, rows, A, B) ==
  /\ \A a \in A : \A b \in B : f[a][b] \in Int /\ g[<<a, b>>] = f[a][b]
  /\ \A a \in A : rows[a] = SumFunctionOnSet(f[a], B)

LEMMA SumRows ==
  ASSUME NEW A, IsFiniteSet(A), NEW B, IsFiniteSet(B),
         NEW f, NEW g, NEW rows, IsRows(g, f, rows, A, B)
  PROVE  SumFunctionOnSet(g, A \X B) = SumFunctionOnSet(rows, A)
<1> USE DEF IsRows
<1> DEFINE Good == {T \in SUBSET A : SumFunctionOnSet(g, T \X B) = SumFunctionOnSet(rows, T)}
<1>1. {} \in Good
  <2>1. {} \X B = {}
    OBVIOUS
  <2>2. SumFunctionOnSet(g, {} \X B) = 0 /\ SumFunctionOnSet(rows, {}) = 0
    BY <2>1, SumEmpty
  <2> QED  BY <2>2
<1>2. \A a \in A : rows[a] \in Int /\ rows[a] = SumFunctionOnSet(g, {a} \X B)
  <2> SUFFICES ASSUME NEW a \in A
               PROVE  rows[a] \in Int /\ rows[a] = SumFunctionOnSet(g, {a} \X B)
    OBVIOUS
  <2> DEFINE row == f[a]
             place == [b \in B |-> <<a, b>>]
  <2>1. \A b \in B : row[b] \in Int /\ row[b] = g[place[b]]
    OBVIOUS
  <2>2. \A b, c \in B : place[b] = place[c] => b = c
    OBVIOUS
  <2>3. IsRenumbering(row, B, g, {a} \X B, place)
    <3>1. {place[b] : b \in B} = {a} \X B
      OBVIOUS
    <3> HIDE DEF row, place
    <3> QED  BY <2>1, <2>2, <3>1 DEF IsRenumbering
  <2>4. rows[a] = SumFunctionOnSet(row, B)
    OBVIOUS
  <2> HIDE DEF row, place
  <2>5. SumFunctionOnSet(row, B) = SumFunctionOnSet(g, {a} \X B)
    BY <2>3, SumReindexed
  <2>6. SumFunctionOnSet(row, B) \in Int
    BY <2>1, SumTakesOut
  <2> QED  BY <2>4, <2>5, <2>6
<1>3. ASSUME NEW T \in SUBSET A, T # {}, \A x \in T : T \ {x} \in Good
      PROVE  T \in Good
  <2>1. PICK a \in T : TRUE
    BY <1>3
  <2>2. IsFiniteSet(T) /\ IsFiniteSet(T \ {a}) /\ \A x \in T : rows[x] \in Int
    BY <1>2, FS_Subset
  <2>3. IsFiniteSet({a} \X B) /\ IsFiniteSet((T \ {a}) \X B)
    BY <2>2, FS_Product, FS_Singleton
  <2>4. T \X B = ({a} \X B) \cup ((T \ {a}) \X B) /\ ({a} \X B) \cap ((T \ {a}) \X B) = {}
    OBVIOUS
  <2>5. \A p \in T \X B : g[p] \in Int
    OBVIOUS
  <2>6. SumFunctionOnSet(g, ({a} \X B) \cup ((T \ {a}) \X B))
          = SumFunctionOnSet(g, {a} \X B) + SumFunctionOnSet(g, (T \ {a}) \X B)
    BY <2>3, <2>4, <2>5, SumUnion
  <2>7. SumFunctionOnSet(g, (T \ {a}) \X B) = SumFunctionOnSet(rows, T \ {a})
    BY <1>3
  <2>8. SumFunctionOnSet(rows, T) = rows[a] + SumFunctionOnSet(rows, T \ {a})
    BY <2>2, SumTakesOut
  <2>9. rows[a] = SumFunctionOnSet(g, {a} \X B)
    BY <1>2
  <2>10. SumFunctionOnSet(g, T \X B) = SumFunctionOnSet(rows, T)
    BY <2>4, <2>6, <2>7, <2>8, <2>9
  <2> QED  BY <2>10
<1> HIDE DEF Good
<1>4. A \in Good
  BY <1>1, <1>3, SubsetInduction
<1> QED  BY <1>4 DEF Good

(* Rows first or columns first. *)
IsTable(f, t, rows, columns, A, B) ==
  /\ \A a \in A : \A b \in B : f[a][b] \in Int /\ t[b][a] = f[a][b]
  /\ \A a \in A : rows[a] = SumFunctionOnSet(f[a], B)
  /\ \A b \in B : columns[b] = SumFunctionOnSet(t[b], A)

LEMMA SumExchanged ==
  ASSUME NEW A, IsFiniteSet(A), NEW B, IsFiniteSet(B),
         NEW f, NEW t, NEW rows, NEW columns, IsTable(f, t, rows, columns, A, B)
  PROVE  SumFunctionOnSet(rows, A) = SumFunctionOnSet(columns, B)
<1> USE DEF IsTable
<1> DEFINE S == A \X B
           T == B \X A
           g == [p \in S |-> f[p[1]][p[2]]]
           h == [p \in T |-> f[p[2]][p[1]]]
           turned == [p \in S |-> <<p[2], p[1]>>]
<1>1. \A p \in S : g[p] \in Int /\ g[p] = h[turned[p]]
  <2>1. \A p \in S : turned[p] \in T
    OBVIOUS
  <2>2. \A p \in S : g[p] = f[p[1]][p[2]] /\ h[turned[p]] = f[p[1]][p[2]]
    OBVIOUS
  <2> QED  BY <2>2
<1>2. \A p, q \in S : turned[p] = turned[q] => p = q
  OBVIOUS
<1>3. {turned[p] : p \in S} = T
  <2>1. \A q \in T : <<q[2], q[1]>> \in S /\ turned[<<q[2], q[1]>>] = q
    OBVIOUS
  <2>2. \A p \in S : turned[p] \in T
    OBVIOUS
  <2> HIDE DEF S, T, turned
  <2> QED  BY <2>1, <2>2
<1>4. IsRows(g, f, rows, A, B)
  BY DEF IsRows
<1>5. IsRows(h, t, columns, B, A)
  BY DEF IsRows
<1>6. IsFiniteSet(S)
  BY FS_Product
<1> HIDE DEF g, h, turned
<1>7. SumFunctionOnSet(g, S) = SumFunctionOnSet(rows, A)
  BY <1>4, SumRows
<1>8. SumFunctionOnSet(h, T) = SumFunctionOnSet(columns, B)
  BY <1>5, SumRows
<1>9. IsRenumbering(g, S, h, T, turned)
  <2> HIDE DEF S, T
  <2> QED  BY <1>1, <1>2, <1>3 DEF IsRenumbering
<1>10. SumFunctionOnSet(g, S) = SumFunctionOnSet(h, T)
  BY <1>6, <1>9, SumReindexed
<1> QED  BY <1>7, <1>8, <1>10

(* Zeros do not count. *)
LEMMA SumZero ==
  ASSUME NEW S, IsFiniteSet(S), NEW g, \A x \in S : g[x] = 0
  PROVE  SumFunctionOnSet(g, S) = 0
<1> DEFINE Good == {T \in SUBSET S : SumFunctionOnSet(g, T) = 0}
<1>1. {} \in Good
  BY SumEmpty
<1>2. ASSUME NEW T \in SUBSET S, T # {}, \A x \in T : T \ {x} \in Good
      PROVE  T \in Good
  <2>1. PICK x \in T : TRUE
    BY <1>2
  <2>2. IsFiniteSet(T) /\ \A y \in T : g[y] \in Int
    BY FS_Subset
  <2>3. SumFunctionOnSet(g, T) = g[x] + SumFunctionOnSet(g, T \ {x})
    BY <2>2, SumTakesOut
  <2>4. SumFunctionOnSet(g, T \ {x}) = 0 /\ g[x] = 0
    BY <1>2
  <2> QED  BY <2>3, <2>4
<1> HIDE DEF Good
<1>3. S \in Good
  BY <1>1, <1>2, SubsetInduction
<1> QED  BY <1>3 DEF Good

(* Nor do they when only one of two sums takes them in. *)
LEMMA SumSkipsZeros ==
  ASSUME NEW T, IsFiniteSet(T), NEW S \in SUBSET T, NEW f, NEW g,
         \A x \in S : f[x] \in Int /\ f[x] = g[x],
         \A x \in T \ S : g[x] = 0
  PROVE  SumFunctionOnSet(f, S) = SumFunctionOnSet(g, T)
<1>1. IsFiniteSet(S) /\ IsFiniteSet(T \ S)
  BY FS_Subset
<1>2. SumFunctionOnSet(f, S) = SumFunctionOnSet(g, S)
  BY <1>1, SumSame
<1>3. SumFunctionOnSet(g, T \ S) = 0
  BY <1>1, SumZero
<1>4. SumFunctionOnSet(g, S \cup (T \ S)) = SumFunctionOnSet(g, S) + SumFunctionOnSet(g, T \ S)
  <2>1. S \cap (T \ S) = {} /\ \A x \in S \cup (T \ S) : g[x] \in Int
    OBVIOUS
  <2> QED  BY <1>1, <2>1, SumUnion
<1>5. S \cup (T \ S) = T
  OBVIOUS
<1>6. SumFunctionOnSet(g, S) \in Int
  <2>1. \A x \in S : g[x] \in Int
    OBVIOUS
  <2> QED  BY <1>1, <2>1, SumTakesOut
<1> QED  BY <1>2, <1>3, <1>4, <1>5, <1>6

(* A factor may be taken out of a sum. *)
LEMMA SumScaled ==
  ASSUME NEW S, IsFiniteSet(S), NEW c \in Nat, NEW f, NEW h,
         \A x \in S : f[x] \in Nat /\ h[x] = c * f[x]
  PROVE  SumFunctionOnSet(h, S) = c * SumFunctionOnSet(f, S)
<1> DEFINE Good == {T \in SUBSET S : SumFunctionOnSet(h, T) = c * SumFunctionOnSet(f, T)}
<1>1. {} \in Good
  BY SumEmpty
<1>2. ASSUME NEW T \in SUBSET S, T # {}, \A x \in T : T \ {x} \in Good
      PROVE  T \in Good
  <2>1. PICK x \in T : TRUE
    BY <1>2
  <2>2. IsFiniteSet(T) /\ IsFiniteSet(T \ {x}) /\ \A y \in T : f[y] \in Nat /\ h[y] \in Int
    BY FS_Subset
  <2>3. SumFunctionOnSet(f, T) = f[x] + SumFunctionOnSet(f, T \ {x})
    BY <2>2, SumTakesOut
  <2>4. SumFunctionOnSet(f, T \ {x}) \in Int
    BY <2>2, SumTakesOut
  <2>5. SumFunctionOnSet(h, T) = h[x] + SumFunctionOnSet(h, T \ {x})
    BY <2>2, SumTakesOut
  <2>6. SumFunctionOnSet(h, T \ {x}) = c * SumFunctionOnSet(f, T \ {x}) /\ h[x] = c * f[x]
        /\ f[x] \in Nat
    BY <1>2
  <2>7. ASSUME NEW a \in Int, NEW b \in Int
        PROVE  c * (a + b) = c * a + c * b
    OBVIOUS
  <2>8. c * (f[x] + SumFunctionOnSet(f, T \ {x})) = c * f[x] + c * SumFunctionOnSet(f, T \ {x})
    BY <2>4, <2>6, <2>7
  <2> QED  BY <2>3, <2>5, <2>6, <2>8
<1> HIDE DEF Good
<1>3. S \in Good
  BY <1>1, <1>2, SubsetInduction
<1> QED  BY <1>3 DEF Good

(* A finite set is counted class by class: the classes of k are numbered   *)
(* by K and sizes tells how many elements each has.                        *)
IsClassified(A, k, K, sizes) ==
  /\ \A a \in A : k[a] \in K
  /\ \A x \in K : sizes[x] = Cardinality({a \in A : k[a] = x})

(* The classes together are the set. *)
LEMMA CountByClasses ==
  ASSUME NEW A, IsFiniteSet(A), NEW K, IsFiniteSet(K), NEW k, NEW sizes,
         IsClassified(A, k, K, sizes)
  PROVE  Cardinality(A) = SumFunctionOnSet(sizes, K)
<1> USE DEF IsClassified
<1> DEFINE Within(T) == {a \in A : k[a] \in T}
           Good == {T \in SUBSET K : Cardinality(Within(T)) = SumFunctionOnSet(sizes, T)}
<1>1. {} \in Good
  <2>1. Within({}) = {}
    OBVIOUS
  <2> QED  BY <2>1, SumEmpty, FS_EmptySet
<1>2. ASSUME NEW T \in SUBSET K, T # {}, \A x \in T : T \ {x} \in Good
      PROVE  T \in Good
  <2>1. PICK x \in T : TRUE
    BY <1>2
  <2> DEFINE one == {a \in A : k[a] = x}
  <2>2. IsFiniteSet(T) /\ IsFiniteSet(one) /\ IsFiniteSet(Within(T \ {x}))
    BY FS_Subset
  <2>3. \A y \in T : sizes[y] \in Int
    <3>1. ASSUME NEW y \in T
          PROVE  sizes[y] \in Int
      <4>1. y \in K /\ sizes[y] = Cardinality({a \in A : k[a] = y})
        OBVIOUS
      <4>2. IsFiniteSet({a \in A : k[a] = y})
        BY FS_Subset
      <4> QED  BY <4>1, <4>2, FS_CardinalityType
    <3> QED  BY <3>1
  <2>4. SumFunctionOnSet(sizes, T) = sizes[x] + SumFunctionOnSet(sizes, T \ {x})
    BY <2>2, <2>3, SumTakesOut
  <2>5. Within(T) = one \cup Within(T \ {x}) /\ one \cap Within(T \ {x}) = {}
    OBVIOUS
  <2>6. Cardinality(one) \in Nat /\ Cardinality(Within(T \ {x})) \in Nat
    BY <2>2, FS_CardinalityType
  <2>7. Cardinality(Within(T)) = Cardinality(one) + Cardinality(Within(T \ {x}))
    <3> HIDE DEF one, Within
    <3>1. Cardinality(one \cup Within(T \ {x}))
            = Cardinality(one) + Cardinality(Within(T \ {x})) - Cardinality({})
      BY <2>2, <2>5, FS_Union
    <3> QED  BY <2>5, <2>6, <3>1, FS_EmptySet
  <2>8. Cardinality(Within(T \ {x})) = SumFunctionOnSet(sizes, T \ {x})
    BY <1>2
  <2>9. sizes[x] = Cardinality(one)
    OBVIOUS
  <2> HIDE DEF one, Within
  <2> QED  BY <2>4, <2>7, <2>8, <2>9
<1> HIDE DEF Good
<1>3. K \in Good
  BY <1>1, <1>2, SubsetInduction
<1>4. Within(K) = A
  OBVIOUS
<1> QED  BY <1>3, <1>4 DEF Good

(* Counting adds up ones. *)
LEMMA CountIsSum ==
  ASSUME NEW S, IsFiniteSet(S), NEW T \in SUBSET S, NEW ones,
         \A x \in S : ones[x] = IF x \in T THEN 1 ELSE 0
  PROVE  Cardinality(T) = SumFunctionOnSet(ones, S)
<1> DEFINE k == [x \in T |-> x]
<1>1. IsFiniteSet(T)
  BY FS_Subset
<1>2. ASSUME NEW x \in S
      PROVE  ones[x] = Cardinality({a \in T : k[a] = x})
  <2>1. CASE x \in T
    <3>1. {a \in T : k[a] = x} = {x}
      BY <2>1
    <3> QED  BY <2>1, <3>1, FS_Singleton
  <2>2. CASE x \notin T
    <3>1. {a \in T : k[a] = x} = {}
      BY <2>2
    <3> QED  BY <2>2, <3>1, FS_EmptySet
  <2> QED  BY <2>1, <2>2
<1>3. IsClassified(T, k, S, ones)
  BY <1>2 DEF IsClassified
<1> HIDE DEF k
<1> QED  BY <1>1, <1>3, CountByClasses
-----------------------------------------------------------------------------
(* A recursive function over the numbers up to N exists when every step    *)
(* leads from a value to a value; the step is given as a function.         *)
Recursive(f, N, base, step) ==
  f = [i \in 0 .. N |-> IF i = 0 THEN base ELSE step[i][f[i - 1]]]

LEMMA RecursionExists ==
  ASSUME NEW V, NEW N \in Nat, NEW base \in V, NEW step \in [1 .. N -> [V -> V]]
  PROVE  \E f \in [0 .. N -> V] : Recursive(f, N, base, step)
<1> DEFINE Sol(n) == {f \in [0 .. N -> V] :
                        f[0] = base /\ \A i \in 1 .. n : f[i] = step[i][f[i - 1]]}
           Have == {n \in Nat : n <= N => Sol(n) # {}}
<1>1. 0 \in Have
  <2>1. [i \in 0 .. N |-> base] \in Sol(0)
    OBVIOUS
  <2> QED  BY <2>1
<1>2. ASSUME NEW n \in Have
      PROVE  n + 1 \in Have
  <2>1. n \in Nat
    OBVIOUS
  <2>2. SUFFICES ASSUME n + 1 <= N PROVE Sol(n + 1) # {}
    BY <2>1
  <2>3. PICK f \in Sol(n) : TRUE
    BY <2>1, <2>2
  <2>4. f \in [0 .. N -> V] /\ f[0] = base /\ \A i \in 1 .. n : f[i] = step[i][f[i - 1]]
    BY <2>3
  <2> DEFINE g == [f EXCEPT ![n + 1] = step[n + 1][f[n]]]
  <2>5. step[n + 1][f[n]] \in V
    <3>1. n \in 0 .. N /\ n + 1 \in 1 .. N
      BY <2>1, <2>2
    <3> QED  BY <2>4, <3>1
  <2>6. g \in [0 .. N -> V] /\ g[0] = base /\ g[n + 1] = step[n + 1][f[n]]
        /\ \A i \in 0 .. n : g[i] = f[i]
    BY <2>1, <2>2, <2>4, <2>5
  <2>7. \A i \in 1 .. n + 1 : g[i] = step[i][g[i - 1]]
    <3> SUFFICES ASSUME NEW i \in 1 .. n + 1 PROVE g[i] = step[i][g[i - 1]]
      OBVIOUS
    <3> HIDE DEF g
    <3>1. CASE i = n + 1
      <4>1. i - 1 = n /\ n \in 0 .. n
        BY <2>1, <3>1
      <4> QED  BY <2>6, <3>1, <4>1
    <3>2. CASE i # n + 1
      <4>1. i \in 1 .. n /\ i \in 0 .. n /\ i - 1 \in 0 .. n
        BY <2>1, <3>2
      <4> QED  BY <2>4, <2>6, <4>1
    <3> QED  BY <3>1, <3>2
  <2> HIDE DEF g
  <2>8. g \in Sol(n + 1)
    BY <2>6, <2>7
  <2> QED  BY <2>8
<1>3. Have \in SUBSET Nat
  OBVIOUS
<1>4. N \in Have
  <2> HIDE DEF Have
  <2> QED  BY <1>1, <1>2, <1>3, SetInduction
<1>5. PICK f \in Sol(N) : TRUE
  BY <1>4
<1>6. f \in [0 .. N -> V] /\ f[0] = base /\ \A i \in 1 .. N : f[i] = step[i][f[i - 1]]
  BY <1>5
<1>7. \A i \in 0 .. N : f[i] = IF i = 0 THEN base ELSE step[i][f[i - 1]]
  BY <1>6
<1> QED  BY <1>6, <1>7 DEF Recursive

===============================================================================
