--------------------------- MODULE QuantileProofs ---------------------------
(* Facts about intervals and quantiles that hold for every value of the       *)
(* constants: the strongest bound exists, bisection splits a sorted list, and *)
(* a parameter the generator takes from the quantiles lies inside of the      *)
(* interval of the query.                                                     *)
EXTENDS Quantiles, FiniteSetTheorems, WellFoundedInduction, SequenceTheorems, TLAPS

-----------------------------------------------------------------------------
(* Numbers and finite sets of numbers *)

(* A non-empty set of naturals has a least element.                           *)
LEMMA LeastNatural ==
    ASSUME NEW S \in SUBSET Nat, S # {}
    PROVE  \E n \in S : \A m \in S : n <= m
<1>1. PICK n \in S : \A m \in S : ~ (<<m, n>> \in OpToRel(<, Nat))
  BY NatLessThanWellFounded, WFMin
<1>2. ASSUME NEW m \in S, m < n PROVE FALSE
  <2>1. m \in Nat /\ n \in Nat
    OBVIOUS
  <2>2. <<m, n>> \in OpToRel(<, Nat)
    BY <2>1, <1>2, Zenon DEF OpToRel
  <2> QED BY <1>1, <2>2
<1>3. \A m \in S : n <= m
  BY <1>2
<1> QED BY <1>3

(* A non-empty finite set of integers has a greatest element: the one with    *)
(* the fewest elements above it.                                              *)
LEMMA FiniteMax ==
    ASSUME NEW S \in SUBSET Int, IsFiniteSet(S), S # {}
    PROVE  \E m \in S : \A x \in S : x <= m
<1> DEFINE Above(x) == {y \in S : y > x}
           C(x) == Cardinality(Above(x))
           T == {C(x) : x \in S}
<1>1. \A x \in S : IsFiniteSet(Above(x)) /\ C(x) \in Nat
  BY FS_Subset, FS_CardinalityType
<1>2. PICK m \in S : \A x \in S : C(m) <= C(x)
  <2>1. T \in SUBSET Nat /\ T # {}
    BY <1>1
  <2>2. PICK n \in T : \A k \in T : n <= k
    BY <2>1, LeastNatural
  <2> QED BY <2>2
<1>3. ASSUME NEW y \in S, y > m PROVE FALSE
  <2>1. Above(y) \in SUBSET Above(m)
    <3> SUFFICES ASSUME NEW z \in Above(y) PROVE z \in Above(m)
      OBVIOUS
    <3>1. z \in Int /\ y \in Int /\ m \in Int
      OBVIOUS
    <3> QED BY <1>3, <3>1
  <2>2. y \in Above(m) /\ y \notin Above(y)
    BY <1>3
  <2>3. C(y) < C(m)
    <3> HIDE DEF Above
    <3> USE <1>1
    <3>1. C(y) <= C(m) /\ (C(m) = C(y) => Above(m) = Above(y))
      BY <2>1, FS_Subset
    <3> QED BY <2>2, <3>1
  <2>4. C(m) <= C(y)
    BY <1>2
  <2>5. C(m) \in Nat /\ C(y) \in Nat
    BY <1>1
  <2> HIDE DEF C
  <2> QED BY <2>3, <2>4, <2>5
<1> QED BY <1>3

(* ... and a least element.                                                   *)
LEMMA FiniteMin ==
    ASSUME NEW S \in SUBSET Int, IsFiniteSet(S), S # {}
    PROVE  \E m \in S : \A x \in S : m <= x
<1> DEFINE Below(x) == {y \in S : y < x}
           C(x) == Cardinality(Below(x))
           T == {C(x) : x \in S}
<1>1. \A x \in S : IsFiniteSet(Below(x)) /\ C(x) \in Nat
  BY FS_Subset, FS_CardinalityType
<1>2. PICK m \in S : \A x \in S : C(m) <= C(x)
  <2>1. T \in SUBSET Nat /\ T # {}
    BY <1>1
  <2>2. PICK n \in T : \A k \in T : n <= k
    BY <2>1, LeastNatural
  <2> QED BY <2>2
<1>3. ASSUME NEW y \in S, y < m PROVE FALSE
  <2>1. Below(y) \in SUBSET Below(m)
    <3> SUFFICES ASSUME NEW z \in Below(y) PROVE z \in Below(m)
      OBVIOUS
    <3>1. z \in Int /\ y \in Int /\ m \in Int
      OBVIOUS
    <3> QED BY <1>3, <3>1
  <2>2. y \in Below(m) /\ y \notin Below(y)
    BY <1>3
  <2>3. C(y) < C(m)
    <3> HIDE DEF Below
    <3> USE <1>1
    <3>1. C(y) <= C(m) /\ (C(m) = C(y) => Below(m) = Below(y))
      BY <2>1, FS_Subset
    <3> QED BY <2>2, <3>1
  <2>4. C(m) <= C(y)
    BY <1>2
  <2>5. C(m) \in Nat /\ C(y) \in Nat
    BY <1>1
  <2> HIDE DEF C
  <2> QED BY <2>3, <2>4, <2>5
<1> QED BY <1>3

(* The indices up to n are n in number.                                       *)
LEMMA InitialSegment ==
    ASSUME NEW n \in Nat
    PROVE  IsFiniteSet(1..n) /\ Cardinality(1..n) = n
<1>1. n \in Int /\ 1 \in Int
  OBVIOUS
<1>2. IsFiniteSet(1..n) /\ Cardinality(1..n) = IF 1 > n THEN 0 ELSE n - 1 + 1
  BY <1>1, FS_Interval
<1> QED BY <1>2

(* Cutting a quantity in two or more parts takes at most half of it.          *)
LEMMA PartOf ==
    ASSUME NEW m \in Nat, NEW n \in Nat, n >= 2
    PROVE  m \div n \in Nat /\ 2 * (m \div n) <= m
<1>1. m \div n \in Nat /\ n * (m \div n) <= m
  BY SMT
<1>2. 2 * (m \div n) <= n * (m \div n)
  BY <1>1, SMT
<1> QED BY <1>1, <1>2, SMT

-----------------------------------------------------------------------------
(* Intervals *)

(* The loop over the filters of a field ends with an interval whose bounds    *)
(* are the strongest ones, each taken from one of the filters.                *)
LEMMA IntersectAllBounds ==
    ASSUME NEW S \in SUBSET Intervals, IsFiniteSet(S)
    PROVE  LET I == IntersectAll(S)
           IN  /\ I \in Intervals
               /\ \A i \in S : i.lower_bound # NoBound =>
                     I.lower_bound # NoBound /\ i.lower_bound <= I.lower_bound
               /\ \A i \in S : i.upper_bound # NoBound =>
                     I.upper_bound # NoBound /\ I.upper_bound <= i.upper_bound
               /\ I.lower_bound # NoBound => \E i \in S : i.lower_bound = I.lower_bound
               /\ I.upper_bound # NoBound => \E i \in S : i.upper_bound = I.upper_bound
<1> DEFINE I == IntersectAll(S)
           L == {i.lower_bound : i \in S}
           U == {i.upper_bound : i \in S}
           lowers == L \ {NoBound}
           uppers == U \ {NoBound}
<1>1. IsFiniteSet(L) /\ IsFiniteSet(U)
  <2>1. [i \in S |-> i.lower_bound] \in Surjection(S, L)
    BY DEF Surjection
  <2>2. [i \in S |-> i.upper_bound] \in Surjection(S, U)
    BY DEF Surjection
  <2> QED BY <2>1, <2>2, FS_Surjection
<1>2. IsFiniteSet(lowers) /\ IsFiniteSet(uppers)
  BY <1>1, FS_Subset
<1>3. lowers \in SUBSET Int /\ uppers \in SUBSET Int
  BY DEF Intervals, Bounds
<1>4. lowers # {} => \E m \in lowers : \A x \in lowers : x <= m
  BY <1>2, <1>3, FiniteMax
<1>5. uppers # {} => \E m \in uppers : \A x \in uppers : m <= x
  BY <1>2, <1>3, FiniteMin
<1>6. /\ lowers = {} => I.lower_bound = NoBound
      /\ lowers # {} => I.lower_bound \in lowers /\ \A x \in lowers : x <= I.lower_bound
  BY <1>4 DEF IntersectAll
<1>7. /\ uppers = {} => I.upper_bound = NoBound
      /\ uppers # {} => I.upper_bound \in uppers /\ \A x \in uppers : I.upper_bound <= x
  BY <1>5 DEF IntersectAll
<1>8. I \in Intervals
  <2>1. I = [lower_bound |-> I.lower_bound, upper_bound |-> I.upper_bound]
    BY DEF IntersectAll
  <2>2. I.lower_bound \in Bounds /\ I.upper_bound \in Bounds
    BY <1>3, <1>6, <1>7 DEF Bounds
  <2> QED BY <2>1, <2>2 DEF Intervals
<1> QED BY <1>6, <1>7, <1>8, NoBoundAssumption DEF Intervals, Bounds

-----------------------------------------------------------------------------
(* Bisection *)

(* Elements after the insertion point of bisect_right are larger.             *)
LEMMA BisectRightSplits ==
    ASSUME NEW s \in Seq(Int), Ascending(s), NEW x \in Int
    PROVE  /\ BisectRight(s, x) \in 0..Len(s)
           /\ \A i \in 1..Len(s) : i > BisectRight(s, x) => s[i] > x
<1> DEFINE P == {i \in 1..Len(s) : s[i] <= x}
           k == BisectRight(s, x)
<1>0. Len(s) \in Nat /\ \A i \in 1..Len(s) : s[i] \in Int
  BY LenProperties, ElementOfSeq
<1>1. IsFiniteSet(1..Len(s)) /\ Cardinality(1..Len(s)) = Len(s)
  BY <1>0, InitialSegment
<1>2. P \in SUBSET (1..Len(s)) /\ IsFiniteSet(P) /\ k = Cardinality(P) /\ k \in Nat /\ k <= Len(s)
  BY <1>1, FS_Subset, FS_CardinalityType DEF BisectRight
<1>3. ASSUME NEW i \in 1..Len(s), i > k, s[i] <= x PROVE FALSE
  <2>1. 1..i \in SUBSET P
    BY <1>0, <1>3 DEF Ascending
  <2>2. IsFiniteSet(1..i) /\ Cardinality(1..i) = i
    BY InitialSegment
  <2>3. i <= k
    BY <1>2, <2>1, <2>2, FS_Subset
  <2> QED BY <1>2, <1>3, <2>3
<1> QED BY <1>0, <1>2, <1>3

(* Elements up to the insertion point of bisect_left are smaller.             *)
LEMMA BisectLeftSplits ==
    ASSUME NEW s \in Seq(Int), Ascending(s), NEW x \in Int
    PROVE  /\ BisectLeft(s, x) \in 0..Len(s)
           /\ \A i \in 1..Len(s) : i <= BisectLeft(s, x) => s[i] < x
<1> DEFINE P == {i \in 1..Len(s) : s[i] < x}
           k == BisectLeft(s, x)
<1>0. Len(s) \in Nat /\ \A i \in 1..Len(s) : s[i] \in Int
  BY LenProperties, ElementOfSeq
<1>1. IsFiniteSet(1..Len(s)) /\ Cardinality(1..Len(s)) = Len(s)
  BY <1>0, InitialSegment
<1>2. P \in SUBSET (1..Len(s)) /\ IsFiniteSet(P) /\ k = Cardinality(P) /\ k \in Nat /\ k <= Len(s)
  BY <1>1, FS_Subset, FS_CardinalityType DEF BisectLeft
<1>3. ASSUME NEW i \in 1..Len(s), i <= k, ~(s[i] < x) PROVE FALSE
  <2>1. P \in SUBSET (1..(i - 1))
    BY <1>0, <1>3 DEF Ascending
  <2>2. IsFiniteSet(1..(i - 1)) /\ Cardinality(1..(i - 1)) = i - 1
    BY InitialSegment
  <2>3. k <= i - 1
    BY <1>2, <2>1, <2>2, FS_Subset
  <2> QED BY <1>2, <1>3, <2>3
<1> QED BY <1>0, <1>2, <1>3

-----------------------------------------------------------------------------
(* Page boundaries *)

(* A part of a sorted list is a sorted list.                                  *)
LEMMA SortedPart ==
    ASSUME NEW s \in Seq(Int), Ascending(s), NEW m \in 1..(Len(s) + 1), NEW n \in 0..Len(s)
    PROVE  LET t == SubSeq(s, m, n)
           IN  /\ t \in Seq(Int)
               /\ Ascending(t)
               /\ Len(t) = (IF m <= n THEN n - m + 1 ELSE 0)
               /\ \A i \in 1..Len(t) : m + i - 1 \in m..n /\ t[i] = s[m + i - 1]
<1> DEFINE t == SubSeq(s, m, n)
<1>0. Len(s) \in Nat /\ m \in Int /\ n \in Int /\ \A i \in 1..Len(s) : s[i] \in Int
  BY LenProperties, ElementOfSeq
<1>1. \A i \in m..n : s[i] \in Int
  BY <1>0
<1>2. /\ t \in Seq(Int)
      /\ Len(t) = IF m <= n THEN n - m + 1 ELSE 0
      /\ \A i \in 1..(n - m + 1) : t[i] = s[m + i - 1]
  <2>1. m \in Int /\ n \in Int
    BY <1>0
  <2>2. \A a, b \in Int : (\A i \in a..b : s[i] \in Int) =>
           /\ SubSeq(s, a, b) \in Seq(Int)
           /\ Len(SubSeq(s, a, b)) = IF a <= b THEN b - a + 1 ELSE 0
           /\ \A i \in 1..(b - a + 1) : SubSeq(s, a, b)[i] = s[a + i - 1]
    BY SubSeqProperties
  <2> QED BY <1>1, <2>1, <2>2
<1>3. \A i \in 1..Len(t) : m + i - 1 \in m..n /\ t[i] = s[m + i - 1]
  BY <1>0, <1>2
<1>4. Ascending(t)
  <2> SUFFICES ASSUME NEW i \in 1..Len(t), NEW j \in 1..Len(t), i <= j
               PROVE  t[i] <= t[j]
    BY DEF Ascending
  <2>1. m + i - 1 \in 1..Len(s) /\ m + j - 1 \in 1..Len(s) /\ m + i - 1 <= m + j - 1
    BY <1>0, <1>3
  <2>2. s[m + i - 1] <= s[m + j - 1]
    BY <2>1 DEF Ascending
  <2> QED BY <1>3, <2>2
<1> QED BY <1>2, <1>3, <1>4

(* Every quantile the generator may cut at lies strictly inside the interval. *)
LEMMA RelevantQuantilesInside ==
    ASSUME NEW quantiles \in Seq(Int), Ascending(quantiles), Len(quantiles) >= 2,
           NEW I \in Intervals
    PROVE  LET relevant == RelevantQuantiles(quantiles, I)
           IN  /\ relevant \in Seq(Int)
               /\ \A i \in 1..Len(relevant) :
                     /\ I.lower_bound # NoBound => I.lower_bound < relevant[i]
                     /\ I.upper_bound # NoBound => relevant[i] < I.upper_bound
<1> DEFINE proper == ProperQuantiles(quantiles)
           from == IF I.lower_bound = NoBound THEN 0 ELSE BisectRight(proper, I.lower_bound)
           to == UpperQuantile(proper, I)
           relevant == SubSeq(proper, from + 1, to)
<1>1. relevant = RelevantQuantiles(quantiles, I)
  BY DEF RelevantQuantiles, Slice
<1>2. proper \in Seq(Int) /\ Ascending(proper) /\ Len(proper) \in Nat
  <2>1. Len(quantiles) \in Nat
    BY LenProperties
  <2>2. 2 \in 1..(Len(quantiles) + 1) /\ Len(quantiles) - 1 \in 0..Len(quantiles)
    BY <2>1
  <2>3. proper \in Seq(Int) /\ Ascending(proper)
    BY <2>2, SortedPart DEF ProperQuantiles
  <2> QED BY <2>3, LenProperties
<1>3. I.lower_bound \in Bounds /\ I.upper_bound \in Bounds
  BY DEF Intervals
<1> HIDE DEF proper
<1>4. /\ from \in 0..Len(proper)
      /\ I.lower_bound # NoBound =>
            \A i \in 1..Len(proper) : i > from => proper[i] > I.lower_bound
  <2>1. CASE I.lower_bound = NoBound
    BY <1>2, <2>1
  <2>2. CASE I.lower_bound # NoBound
    <3>1. I.lower_bound \in Int
      BY <1>3, <2>2 DEF Bounds
    <3> QED BY <1>2, <2>2, <3>1, BisectRightSplits
  <2> QED BY <2>1, <2>2
<1>5. /\ to \in 0..Len(proper)
      /\ I.upper_bound # NoBound =>
            \A i \in 1..Len(proper) : i <= to => proper[i] < I.upper_bound
  <2>1. CASE I.upper_bound = NoBound
    BY <1>2, <2>1 DEF UpperQuantile
  <2>2. CASE I.upper_bound # NoBound
    <3>1. I.upper_bound \in Int
      BY <1>3, <2>2 DEF Bounds
    <3> QED BY <1>2, <2>2, <3>1, BisectLeftSplits DEF UpperQuantile
  <2> QED BY <2>1, <2>2
<1> HIDE DEF from, to
<1>6. /\ relevant \in Seq(Int)
      /\ \A i \in 1..Len(relevant) : from + 1 + i - 1 \in (from + 1)..to
                                     /\ relevant[i] = proper[from + 1 + i - 1]
  <2>1. from + 1 \in 1..(Len(proper) + 1)
    BY <1>2, <1>4
  <2> QED BY <1>2, <1>5, <2>1, SortedPart
<1>7. ASSUME NEW i \in 1..Len(relevant)
      PROVE  /\ I.lower_bound # NoBound => I.lower_bound < relevant[i]
             /\ I.upper_bound # NoBound => relevant[i] < I.upper_bound
  <2> DEFINE k == from + 1 + i - 1
  <2>1. k \in 1..Len(proper) /\ k > from /\ k <= to /\ relevant[i] = proper[k]
    BY <1>2, <1>4, <1>5, <1>6
  <2>2. proper[k] \in Int
    BY <1>2, <2>1, ElementOfSeq
  <2> HIDE DEF k
  <2>3. I.lower_bound # NoBound => I.lower_bound < relevant[i]
    BY <1>3, <1>4, <2>1, <2>2 DEF Bounds
  <2>4. I.upper_bound # NoBound => relevant[i] < I.upper_bound
    BY <1>5, <2>1
  <2> QED BY <2>3, <2>4
<1> QED BY <1>1, <1>6, <1>7

(* Every boundary of a cut into fewer splits than regions is a quantile.      *)
LEMMA SplitIndexInRange ==
    ASSUME NEW regions \in Nat, NEW n \in Nat, n >= 1, n < regions, NEW j \in 1..(n - 1)
    PROVE  SplitIndex(regions, n, j) \in 1..(regions - 1)
<1> DEFINE small == regions \div n
           large == regions - small * n
<1>1. small \in Nat /\ small * n <= regions /\ regions < (small + 1) * n
  BY SMT
<1>2. small >= 1
  <2> SUFFICES ASSUME small = 0 PROVE FALSE
    BY <1>1
  <2> QED BY <1>1
<1>3. large \in Nat /\ small * n + large = regions
  BY <1>1
<1>4. j * small >= 1 /\ j * small <= (n - 1) * small
  BY <1>2, <1>1
<1>5. (n - 1) * small = small * n - small
  BY <1>1
<1>6. j * small \in Int /\ small * n \in Int
  BY <1>1
<1>7. SplitIndex(regions, n, j) = j * small + (IF j <= large THEN j ELSE large)
  BY DEF SplitIndex
<1> DEFINE up_to_j == j * small
           all == small * n
           index == up_to_j + (IF j <= large THEN j ELSE large)
<1>8. /\ small \in Nat /\ large \in Nat /\ up_to_j \in Int /\ all \in Int /\ j \in Nat
      /\ small >= 1 /\ j >= 1 /\ all + large = regions
      /\ up_to_j >= 1 /\ up_to_j <= all - small
  BY <1>1, <1>2, <1>3, <1>4, <1>5, <1>6
<1> HIDE DEF small, large, up_to_j, all
<1>9. index \in Int /\ index >= 1 /\ index <= regions - 1
  BY <1>8
<1> QED BY <1>7, <1>9 DEF up_to_j

(* What _choose_parameter_values returns are quantiles of the list it is      *)
(* given: no page boundary is invented.                                       *)
LEMMA SplitValuesAreQuantiles ==
    ASSUME NEW relevant \in Seq(Int), NEW n \in Nat, n >= 1,
           NEW i \in 1..Len(SplitValues(relevant, n))
    PROVE  \E k \in 1..Len(relevant) : SplitValues(relevant, n)[i] = relevant[k]
<1> DEFINE regions == Len(relevant) + 1
<1>1. Len(relevant) \in Nat /\ regions \in Nat
  BY LenProperties
<1>2. CASE n >= regions
  BY <1>2 DEF SplitValues
<1>3. CASE ~(n >= regions)
  <2> DEFINE values == [j \in 1..(n - 1) |-> relevant[SplitIndex(regions, n, j)]]
  <2>1. SplitValues(relevant, n) = values
    BY <1>3 DEF SplitValues
  <2>2. Len(values) = n - 1
    BY SMT
  <2>3. i \in 1..(n - 1) /\ values[i] = relevant[SplitIndex(regions, n, i)]
    BY <2>1, <2>2
  <2>4. SplitIndex(regions, n, i) \in 1..(regions - 1)
    BY <1>1, <1>3, <2>3, SplitIndexInRange
  <2> QED BY <1>1, <2>1, <2>3, <2>4
<1> QED BY <1>1, <1>2, <1>3

(* A page boundary taken from the quantiles lies strictly inside the interval *)
(* the filters of the query leave on the pagination field.                    *)
THEOREM BoundariesInside ==
    ASSUME NEW quantiles \in Seq(Int), Ascending(quantiles), Len(quantiles) >= 2,
           NEW I \in Intervals, NEW n \in Nat, n >= 1,
           NEW i \in 1..Len(SplitValues(RelevantQuantiles(quantiles, I), n))
    PROVE  LET v == SplitValues(RelevantQuantiles(quantiles, I), n)[i]
           IN  /\ v \in Int
               /\ I.lower_bound # NoBound => I.lower_bound < v
               /\ I.upper_bound # NoBound => v < I.upper_bound
<1> DEFINE relevant == RelevantQuantiles(quantiles, I)
<1>1. /\ relevant \in Seq(Int)
      /\ \A k \in 1..Len(relevant) :
            /\ I.lower_bound # NoBound => I.lower_bound < relevant[k]
            /\ I.upper_bound # NoBound => relevant[k] < I.upper_bound
  BY RelevantQuantilesInside
<1>2. PICK k \in 1..Len(relevant) : SplitValues(relevant, n)[i] = relevant[k]
  BY <1>1, SplitValuesAreQuantiles
<1>3. relevant[k] \in Int
  BY <1>1, ElementOfSeq
<1> QED BY <1>1, <1>2, <1>3

-----------------------------------------------------------------------------
(* Estimates *)

(* Products keep order.                                                       *)
LEMMA ProductsGrow ==
    ASSUME NEW a \in Nat, NEW b \in Nat, NEW c \in Nat, NEW d \in Nat, a <= b, c <= d
    PROVE  a * c \in Nat /\ b * d \in Nat /\ a * c <= b * d
<1>1. a * c \in Nat /\ b * c \in Nat /\ b * d \in Nat
  BY SMT
<1>2. a * c <= b * c
  BY SMT
<1>3. b * c <= b * d
  BY SMT
<1> QED BY <1>1, <1>2, <1>3

(* The insertion point of a larger value is not further left.                 *)
LEMMA BisectLeftMonotone ==
    ASSUME NEW s \in Seq(Int), NEW x \in Int, NEW y \in Int, x <= y
    PROVE  /\ BisectLeft(s, x) \in Nat /\ BisectLeft(s, y) \in Nat
           /\ BisectLeft(s, x) <= BisectLeft(s, y) /\ BisectLeft(s, y) <= Len(s)
<1> DEFINE P(z) == {i \in 1..Len(s) : s[i] < z}
<1>0. Len(s) \in Nat /\ \A i \in 1..Len(s) : s[i] \in Int
  BY LenProperties, ElementOfSeq
<1>1. IsFiniteSet(1..Len(s)) /\ Cardinality(1..Len(s)) = Len(s)
  BY <1>0, InitialSegment
<1>2. P(x) \in SUBSET P(y) /\ P(y) \in SUBSET (1..Len(s))
  BY <1>0
<1>3. IsFiniteSet(P(y)) /\ Cardinality(P(y)) <= Len(s) /\ Cardinality(P(y)) \in Nat
  BY <1>1, <1>2, FS_Subset, FS_CardinalityType
<1>4. Cardinality(P(x)) <= Cardinality(P(y)) /\ Cardinality(P(x)) \in Nat
  BY <1>2, <1>3, FS_Subset, FS_CardinalityType
<1> QED BY <1>3, <1>4 DEF BisectLeft

(* The quantiles without their ends.                                          *)
LEMMA ProperQuantilesType ==
    ASSUME NEW quantiles \in Seq(Int)
    PROVE  /\ ProperQuantiles(quantiles) \in Seq(Int)
           /\ Len(ProperQuantiles(quantiles)) \in Nat
           /\ Len(quantiles) \in Nat
           /\ Len(ProperQuantiles(quantiles))
                = (IF Len(quantiles) >= 2 THEN Len(quantiles) - 2 ELSE 0)
<1>1. Len(quantiles) \in Nat /\ \A i \in 1..Len(quantiles) : quantiles[i] \in Int
  BY LenProperties, ElementOfSeq
<1>2. 2 \in Int /\ Len(quantiles) - 1 \in Int
      /\ \A i \in 2..(Len(quantiles) - 1) : quantiles[i] \in Int
  BY <1>1
<1>3. \A a, b \in Int : (\A i \in a..b : quantiles[i] \in Int) =>
         /\ SubSeq(quantiles, a, b) \in Seq(Int)
         /\ Len(SubSeq(quantiles, a, b)) = IF a <= b THEN b - a + 1 ELSE 0
  BY SubSeqProperties
<1>4. /\ ProperQuantiles(quantiles) \in Seq(Int)
      /\ Len(ProperQuantiles(quantiles))
           = IF 2 <= Len(quantiles) - 1 THEN Len(quantiles) - 1 - 2 + 1 ELSE 0
  BY <1>2, <1>3 DEF ProperQuantiles
<1> QED BY <1>1, <1>4, LenProperties

(* The estimator never counts more quantiles than there are.                  *)
LEMMA CapacityIsBounded ==
    ASSUME NEW quantiles \in Seq(Int), NEW I \in Intervals
    PROVE  LET regions == Len(CapacityQuantiles(quantiles, I)) + 1
           IN  /\ regions \in Nat
               /\ regions >= 2 => regions < Len(quantiles)
<1> DEFINE proper == ProperQuantiles(quantiles)
           from == IF I.lower_bound = NoBound THEN 0 ELSE BisectLeft(proper, I.lower_bound)
           to == UpperQuantile(proper, I)
<1>1. /\ proper \in Seq(Int) /\ Len(proper) \in Nat /\ Len(quantiles) \in Nat
      /\ Len(proper) = IF Len(quantiles) >= 2 THEN Len(quantiles) - 2 ELSE 0
  BY ProperQuantilesType
<1>2. I.lower_bound \in Bounds /\ I.upper_bound \in Bounds
  BY DEF Intervals
<1>3. CapacityQuantiles(quantiles, I) = SubSeq(proper, from + 1, to)
  BY DEF CapacityQuantiles, Slice
<1> HIDE DEF proper
<1>4. from \in 0..Len(proper) /\ to \in 0..Len(proper)
  <2>1. ASSUME NEW x \in Int PROVE BisectLeft(proper, x) \in 0..Len(proper)
    BY <1>1, BisectLeftMonotone
  <2>2. from \in 0..Len(proper)
    <3>1. CASE I.lower_bound = NoBound
      BY <1>1, <3>1
    <3>2. CASE I.lower_bound # NoBound
      <4>1. BisectLeft(proper, I.lower_bound) \in 0..Len(proper)
        BY <1>2, <2>1, <3>2 DEF Bounds
      <4> QED BY <3>2, <4>1
    <3> QED BY <3>1, <3>2
  <2>3. to \in 0..Len(proper)
    <3>1. CASE I.upper_bound = NoBound
      BY <1>1, <3>1 DEF UpperQuantile
    <3>2. CASE I.upper_bound # NoBound
      <4>1. BisectLeft(proper, I.upper_bound) \in 0..Len(proper)
        BY <1>2, <2>1, <3>2 DEF Bounds
      <4> QED BY <3>2, <4>1 DEF UpperQuantile
    <3> QED BY <3>1, <3>2
  <2> QED BY <2>2, <2>3
<1> HIDE DEF from, to
<1>5. Len(SubSeq(proper, from + 1, to)) = IF from + 1 <= to THEN to - (from + 1) + 1 ELSE 0
  <2>1. from + 1 \in Int /\ to \in Int /\ \A i \in (from + 1)..to : proper[i] \in Int
    BY <1>1, <1>4, ElementOfSeq
  <2>2. \A a, b \in Int : (\A i \in a..b : proper[i] \in Int) =>
           Len(SubSeq(proper, a, b)) = IF a <= b THEN b - a + 1 ELSE 0
    BY SubSeqProperties
  <2> QED BY <2>1, <2>2
<1> QED BY <1>1, <1>3, <1>4, <1>5

(* The estimated share of an interval is a fraction of at most one.           *)
LEMMA QuantileFraction ==
    ASSUME NEW quantiles \in Seq(Int), NEW I \in Intervals
    PROVE  LET fraction == SelectivityFractionOfInterval(I, quantiles)
           IN  /\ fraction.num \in Nat /\ fraction.den \in Nat \ {0}
               /\ fraction.num <= fraction.den
<1> DEFINE proper == ProperQuantiles(quantiles)
           domain == 6 * (Len(proper) + 1)
           lower == BisectLeft(proper, I.lower_bound)
           upper == BisectLeft(proper, I.upper_bound)
           size == IF I.lower_bound = NoBound /\ I.upper_bound = NoBound
                   THEN domain
                   ELSE IF I.lower_bound = NoBound THEN 3 + 6 * upper
                   ELSE IF I.upper_bound = NoBound THEN 3 + 6 * (Len(proper) - lower)
                   ELSE SizeBetween(lower, upper)
<1>1. proper \in Seq(Int) /\ Len(proper) \in Nat
  BY ProperQuantilesType
<1>2. /\ I.lower_bound # NoBound => I.lower_bound \in Int
      /\ I.upper_bound # NoBound => I.upper_bound \in Int
  BY DEF Intervals, Bounds
<1>3. SelectivityFractionOfInterval(I, quantiles)
        = IF IsEmpty(I) THEN [num |-> 0, den |-> 1] ELSE [num |-> size, den |-> domain]
  BY DEF SelectivityFractionOfInterval
<1> HIDE DEF proper
<1>4. /\ I.lower_bound # NoBound => lower \in 0..Len(proper)
      /\ I.upper_bound # NoBound => upper \in 0..Len(proper)
      /\ I.lower_bound # NoBound /\ I.upper_bound # NoBound /\ ~IsEmpty(I) => lower <= upper
  <2>1. \A x \in Int : BisectLeft(proper, x) \in 0..Len(proper)
    BY <1>1, BisectLeftMonotone
  <2>2. I.lower_bound # NoBound /\ I.upper_bound # NoBound /\ ~IsEmpty(I) =>
           I.lower_bound <= I.upper_bound
    BY <1>2 DEF IsEmpty
  <2>3. \A x, y \in Int : x <= y => BisectLeft(proper, x) <= BisectLeft(proper, y)
    BY <1>1, BisectLeftMonotone
  <2> QED BY <1>2, <2>1, <2>2, <2>3
<1> HIDE DEF lower, upper
<1>5. domain \in Nat \ {0}
  BY <1>1
<1>6. ~IsEmpty(I) => size \in Nat /\ size <= domain
  BY <1>1, <1>4, <1>5 DEF SizeBetween
<1> HIDE DEF domain, size
<1> QED BY <1>3, <1>5, <1>6
=============================================================================
