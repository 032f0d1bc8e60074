------------------------------ MODULE Numbers ------------------------------
(***************************************************************************)
(* Division with remainder by page sizes and by numbers of columns, least  *)
(* and greatest elements, and the positions of numbers in a finite set in  *)
(* ascending order.                                                        *)
(***************************************************************************)
EXTENDS Integers, FiniteSetTheorems, WellFoundedInduction, TLAPS

\* The position of a number in a set, and the number at a position.
Position(S, n) == Cardinality({m \in S : m < n})
AtPosition(S, i) == CHOOSE n \in S : Position(S, n) = i

-----------------------------------------------------------------------------
(* Division with remainder.                                                  *)

\* Every address is a multiple of the page size and an offset.
LEMMA Divides ==
  ASSUME NEW P \in Nat \ {0}, NEW a \in Nat
  PROVE  /\ a % P \in 0 .. P - 1
         /\ a \div P \in Nat
         /\ a = P * (a \div P) + (a % P)
OBVIOUS

\* A positive multiple of a number is no smaller than the number.
LEMMA AtLeastOnce ==
  ASSUME NEW P \in Nat \ {0}, NEW d \in Nat \ {0}
  PROVE  P * d >= P
OBVIOUS

\* The distributive law, for provers that do not find it in a larger context.
LEMMA Distributes ==
  ASSUME NEW P \in Nat, NEW a \in Int, NEW b \in Int
  PROVE  P * (a - b) = P * a - P * b
OBVIOUS

\* The quotient and the offset are unique.
LEMMA UniqueDivision ==
  ASSUME NEW P \in Nat \ {0}, NEW q \in Nat, NEW r \in 0 .. P - 1
  PROVE  /\ (P * q + r) % P = r
         /\ (P * q + r) \div P = q
<1> DEFINE x == P * q + r
           k == x \div P
           m == x % P
<1>1. x \in Nat
  OBVIOUS
<1>2. m \in 0 .. P - 1 /\ k \in Nat /\ x = P * k + m
  BY <1>1, Divides
<1>3. P * k \in Nat /\ P * q \in Nat
  BY <1>2
<1>4. P * k + m = P * q + r
  BY <1>2
<1> HIDE DEF x, k, m
<1>5. CASE k = q
  BY <1>2, <1>3, <1>4, <1>5 DEF m, k, x
<1>6. CASE k < q
  <2>1. P * (q - k) >= P
    BY <1>2, <1>6, AtLeastOnce
  <2>2. P * (q - k) = P * q - P * k
    BY <1>2, Distributes
  <2> QED
    BY <1>2, <1>3, <1>4, <2>1, <2>2
<1>7. CASE q < k
  <2>1. P * (k - q) >= P
    BY <1>2, <1>7, AtLeastOnce
  <2>2. P * (k - q) = P * k - P * q
    BY <1>2, Distributes
  <2> QED
    BY <1>2, <1>3, <1>4, <2>1, <2>2
<1>8. k \in Int /\ q \in Int
  BY <1>2
<1>9. k < q \/ k = q \/ q < k
  BY <1>8
<1> QED
  BY <1>5, <1>6, <1>7, <1>9

\* A multiple leaves no remainder.
LEMMA Multiple ==
  ASSUME NEW P \in Nat \ {0}, NEW q \in Nat
  PROVE  (P * q) % P = 0 /\ (P * q) \div P = q
<1>1. 0 \in 0 .. P - 1 /\ P * q + 0 = P * q
  OBVIOUS
<1>2. (P * q + 0) % P = 0 /\ (P * q + 0) \div P = q
  BY <1>1, UniqueDivision
<1> QED
  BY <1>1, <1>2

\* A number below the divisor is its own remainder.
LEMMA SmallRemainder ==
  ASSUME NEW P \in Nat, NEW a \in Nat, a < P
  PROVE  a % P = a
OBVIOUS

\* What lies before multiple n of P has a quotient below n.
LEMMA DivisionBelow ==
  ASSUME NEW P \in Nat \ {0}, NEW n \in Nat, NEW a \in Nat, a < P * n
  PROVE  a \div P < n
<1> DEFINE q == a \div P
<1>1. q \in Nat /\ a % P \in 0 .. P - 1 /\ a = P * q + (a % P)
  BY Divides
<1> HIDE DEF q
<1>2. P * q \in Nat /\ P * n \in Nat
  BY <1>1
<1>3. CASE q >= n
  <2>1. q - n \in Nat
    BY <1>1, <1>3
  <2>2. P * (q - n) \in Nat /\ P * (q - n) = P * q - P * n
    BY <1>1, <2>1, Distributes
  <2> QED BY <1>1, <1>2, <2>2
<1> QED BY <1>1, <1>3 DEF q

\* Multiples of P are in the order of their factors.
LEMMA MultiplesOrdered ==
  ASSUME NEW P \in Nat \ {0}, NEW a \in Nat, NEW b \in Nat, a < b
  PROVE  P * a \in Nat /\ P * b \in Nat /\ P * a < P * b
<1>1. b - a \in Nat \ {0}
  OBVIOUS
<1>2. P * (b - a) >= P /\ P * (b - a) = P * b - P * a
  BY <1>1, AtLeastOnce, Distributes
<1>3. P * a \in Nat /\ P * b \in Nat
  OBVIOUS
<1> QED BY <1>2, <1>3

\* Division is monotonic.
LEMMA DivisionMonotonic ==
  ASSUME NEW P \in Nat \ {0}, NEW a \in Nat, NEW b \in Nat, a <= b
  PROVE  a \div P <= b \div P
<1> DEFINE q == a \div P
           k == b \div P
           m == a % P
           n == b % P
<1>1. /\ q \in Nat /\ m \in 0 .. P - 1 /\ a = P * q + m
      /\ k \in Nat /\ n \in 0 .. P - 1 /\ b = P * k + n
  BY Divides
<1> HIDE DEF q, k, m, n
<1>2. CASE k < q
  <2>1. P * (q - k) >= P
    BY <1>1, <1>2, AtLeastOnce
  <2>2. P * (q - k) = P * q - P * k
    BY <1>1, Distributes
  <2>3. P * q \in Nat /\ P * k \in Nat
    BY <1>1
  <2> QED
    BY <1>1, <2>1, <2>2, <2>3
<1>3. q <= k
  BY <1>1, <1>2
<1> QED
  BY <1>3 DEF q, k

\* The page after a page is a page.
LEMMA NextPage ==
  ASSUME NEW P \in Nat \ {0}, NEW a \in Nat, a % P = 0
  PROVE  (a + P) % P = 0
<1> DEFINE q == a \div P
<1>1. q \in Nat /\ a + P = P * (q + 1)
  BY Divides
<1>2. (P * (q + 1)) % P = 0
  BY <1>1, Multiple
<1> QED
  BY <1>1, <1>2

\* No page starts between a page and the next.
LEMMA Gap ==
  ASSUME NEW P \in Nat \ {0}, NEW a \in Nat, NEW b \in Nat,
         a % P = 0, b % P = 0, a < b
  PROVE  a + P <= b
<1> DEFINE q == a \div P
           k == b \div P
<1>1. q \in Nat /\ k \in Nat /\ a = P * q /\ b = P * k
  BY Divides
<1>2. P * (k - q) = b - a
  BY <1>1
<1>3. k - q \in Nat \ {0}
  <2>1. CASE k <= q
    <3>1. P * (q - k) >= 0
      BY <1>1, <2>1
    <3>2. P * (q - k) = P * q - P * k
      BY <1>1
    <3> QED
      BY <3>1, <3>2, <1>1
  <2> QED
    BY <1>1, <2>1
<1> QED
  BY <1>2, <1>3, AtLeastOnce

-----------------------------------------------------------------------------
(* Least and greatest elements.                                              *)

\* A set of numbers that is not empty has a least one.
LEMMA LeastElement ==
  ASSUME NEW A \in SUBSET Nat, A # {}
  PROVE  \E i \in A : \A j \in A : i <= j
<1>1. PICK i \in A : \A j \in A : <<j, i>> \notin OpToRel(<, Nat)
  BY NatLessThanWellFounded, WFMin
<1>2. \A j \in A : ~(j < i)
  BY <1>1 DEF OpToRel
<1> QED
  BY <1>2

\* A set of numbers with an upper bound has a greatest one.
LEMMA GreatestElement ==
  ASSUME NEW n \in Nat, NEW A \in SUBSET (0 .. n), A # {}
  PROVE  \E i \in A : \A j \in A : i >= j
<1> DEFINE B == {n - i : i \in A}
<1>1. B \in SUBSET Nat /\ B # {}
  <2>1. \A i \in A : i \in 0 .. n
    OBVIOUS
  <2>2. \A i \in A : n - i \in Nat
    BY <2>1
  <2> QED
    BY <2>2
<1>2. PICK k \in B : \A l \in B : k <= l
  BY <1>1, LeastElement
<1>3. PICK i \in A : k = n - i
  BY <1>2
<1>4. \A j \in A : n - j \in B
  OBVIOUS
<1>5. \A j \in A : n - i <= n - j
  BY <1>2, <1>3, <1>4
<1>6. \A j \in A : j \in Int
  OBVIOUS
<1> QED
  BY <1>5, <1>6

-----------------------------------------------------------------------------
(* Positions in a finite set of numbers.                                     *)

\* Positions are below the number of elements.
LEMMA PositionRange ==
  ASSUME NEW S \in SUBSET Nat, IsFiniteSet(S), NEW p \in S
  PROVE  Position(S, p) \in 0 .. Cardinality(S) - 1 /\ Cardinality(S) \in Nat
<1> DEFINE below == {q \in S : q < p}
<1>1. below \in SUBSET S /\ below # S
  OBVIOUS
<1>2. /\ IsFiniteSet(below) /\ Cardinality(below) <= Cardinality(S)
      /\ Cardinality(S) = Cardinality(below) => S = below
  BY <1>1, FS_Subset
<1>3. Cardinality(below) \in Nat /\ Cardinality(S) \in Nat
  BY <1>2, FS_CardinalityType
<1> HIDE DEF below
<1>4. Cardinality(below) \in 0 .. Cardinality(S) - 1
  BY <1>1, <1>2, <1>3
<1> QED
  BY <1>3, <1>4 DEF Position, below

\* A greater number has a higher position.
LEMMA PositionMonotonic ==
  ASSUME NEW S \in SUBSET Nat, IsFiniteSet(S), NEW p \in S, NEW q \in S, p < q
  PROVE  Position(S, p) < Position(S, q)
<1> DEFINE below == {r \in S : r < q}
<1>1. below \in SUBSET Nat /\ p \in below /\ below \in SUBSET S
  OBVIOUS
<1>2. IsFiniteSet(below)
  BY <1>1, FS_Subset
<1>3. Position(below, p) \in 0 .. Cardinality(below) - 1 /\ Cardinality(below) \in Nat
  BY <1>1, <1>2, PositionRange
<1>4. {r \in below : r < p} = {r \in S : r < p}
  <2>1. \A r \in S : r < p => r < q
    OBVIOUS
  <2> QED
    BY <2>1
<1>5. Position(below, p) = Position(S, p) /\ Cardinality(below) = Position(S, q)
  BY <1>4 DEF Position
<1> QED
  BY <1>3, <1>5

\* A number is what is at its position.
LEMMA AtPositionOf ==
  ASSUME NEW S \in SUBSET Nat, IsFiniteSet(S), NEW p \in S
  PROVE  AtPosition(S, Position(S, p)) = p
<1> DEFINE i == Position(S, p)
           q == AtPosition(S, i)
<1>1. q \in S /\ Position(S, q) = i
  BY DEF AtPosition
<1> HIDE DEF q
<1>2. Position(S, p) \in 0 .. Cardinality(S) - 1 /\ Cardinality(S) \in Nat
  BY PositionRange
<1>3. ~(p < q)
  <2>1. p < q => Position(S, p) < Position(S, q)
    BY <1>1, PositionMonotonic
  <2> QED
    BY <1>1, <1>2, <2>1
<1>4. ~(q < p)
  <2>1. q < p => Position(S, q) < Position(S, p)
    BY <1>1, PositionMonotonic
  <2> QED
    BY <1>1, <1>2, <2>1
<1>5. q = p
  BY <1>1, <1>3, <1>4
<1> QED
  BY <1>5 DEF q

\* Every position below the number of elements is that of an element: positions
\* are an injection into as many numbers as there are elements.
LEMMA AtPositionType ==
  ASSUME NEW S \in SUBSET Nat, IsFiniteSet(S), NEW i \in Nat, i < Cardinality(S)
  PROVE  AtPosition(S, i) \in S /\ Position(S, AtPosition(S, i)) = i
<1> DEFINE n == Cardinality(S)
           T == 0 .. n - 1
           position == [p \in S |-> Position(S, p)]
<1>1. n \in Nat
  BY FS_CardinalityType
<1> HIDE DEF n
<1>2. IsFiniteSet(T) /\ Cardinality(T) = n
  <2>1. 0 \in Int /\ n - 1 \in Int
    BY <1>1
  <2>2. IsFiniteSet(0 .. n - 1) /\ Cardinality(0 .. n - 1) = IF 0 > n - 1 THEN 0 ELSE (n - 1) - 0 + 1
    BY <2>1, FS_Interval
  <2> QED BY <1>1, <2>2
<1>3. \A p \in S : Position(S, p) \in T
  BY PositionRange DEF n
<1>4. ASSUME NEW p \in S, NEW q \in S, Position(S, p) = Position(S, q)
      PROVE  p = q
  <2>1. AtPosition(S, Position(S, p)) = p /\ AtPosition(S, Position(S, q)) = q
    BY AtPositionOf
  <2> QED BY <1>4, <2>1
<1>5. position \in Injection(S, T)
  BY <1>3, <1>4 DEF Injection, IsInjective
<1> HIDE DEF position
<1>6. position \in Surjection(S, T)
  BY <1>2, <1>5, FS_Injection DEF n
<1>7. i \in T
  BY <1>1 DEF n
<1>8. PICK p \in S : position[p] = i
  BY <1>6, <1>7 DEF Surjection
<1>9. Position(S, p) = i
  BY <1>8 DEF position
<1> QED BY <1>9 DEF AtPosition
=============================================================================
