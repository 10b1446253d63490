------------------------ MODULE QuantileSplitProofs ------------------------
(* What holds of page boundaries and estimates for any quantiles, interval    *)
(* and number of splits.                                                      *)
EXTENDS QuantileSplits, QuantileProofs

-----------------------------------------------------------------------------
(* Removing repetitions *)

(* The first value stays the first when repetitions are removed: a client     *)
(* that takes one page needs no more of the generator.                        *)
LEMMA FirstIsKept ==
    ASSUME NEW s \in Seq(Int)
    PROVE  LET t == DeduplicateSorted(s)
           IN  /\ (t = <<>>) <=> (s = <<>>)
               /\ Len(t) \in Nat /\ s # <<>> => t[1] = s[1] /\ t[1] \in Int
<1> DEFINE kept == {i \in 1..Len(s) : i = 1 \/ s[i] # s[i - 1]}
           upto(i) == {k \in kept : k <= i}
           n == Cardinality(kept)
           index(j) == CHOOSE i \in kept : Cardinality(upto(i)) = j
           t == [j \in 1..n |-> s[index(j)]]
<1>1. DeduplicateSorted(s) = t
  BY DEF DeduplicateSorted
<1>2. Len(s) \in Nat /\ (s = <<>> <=> Len(s) = 0) /\ \A i \in 1..Len(s) : s[i] \in Int
  BY LenProperties, ElementOfSeq, EmptySeq
<1>3. IsFiniteSet(kept) /\ n \in Nat
  <2>1. IsFiniteSet(1..Len(s))
    BY <1>2, InitialSegment
  <2> QED BY <2>1, FS_Subset, FS_CardinalityType
<1>4. Len(t) = n
  BY <1>3, SMT
<1>5. CASE s = <<>>
  <2>1. kept = {}
    BY <1>2, <1>5
  <2>2. n = 0
    BY <2>1, FS_EmptySet
  <2> HIDE DEF index, n
  <2>3. t = <<>>
    BY <2>2
  <2> QED BY <1>1, <1>4, <1>5, <2>2, <2>3
<1>6. CASE s # <<>>
  <2>1. 1 \in kept
    BY <1>2, <1>6
  <2>2. n # 0
    BY <1>3, <2>1, FS_EmptySet
  <2>3. upto(1) = {1}
    BY <1>2, <2>1
  <2>4. Cardinality(upto(1)) = 1
    BY <2>3, FS_Singleton
  <2>5. ASSUME NEW i \in kept, Cardinality(upto(i)) = 1 PROVE i = 1
    <3>1. upto(i) \in SUBSET kept
      OBVIOUS
    <3>2. IsFiniteSet(upto(i))
      BY <1>3, <3>1, FS_Subset
    <3>3. 1 \in upto(i) /\ i \in upto(i)
      BY <1>2, <2>1
    <3> HIDE DEF upto
    <3>4. PICK x : upto(i) = {x}
      BY <2>5, <3>2, FS_Singleton
    <3> QED BY <3>3, <3>4
  <2> HIDE DEF kept, upto
  <2>6. index(1) = 1
    BY <2>1, <2>4, <2>5
  <2> HIDE DEF index, n
  <2>7. t[1] = s[1]
    BY <1>3, <2>2, <2>6
  <2>8. s[1] \in Int
    BY <1>2, <1>6
  <2>9. t # <<>>
    BY <1>4, <2>2
  <2> QED BY <1>1, <1>3, <1>4, <1>6, <2>7, <2>8, <2>9
<1> QED BY <1>5, <1>6

-----------------------------------------------------------------------------
(* The variables *)

(* The quantiles are sorted, and a remainder starts at an integer.            *)
SplitsInv ==
    /\ quantiles \in Seq(Int) /\ Ascending(quantiles) /\ Len(quantiles) >= 2
    /\ interval \in Intervals
    /\ splits \in Nat /\ splits >= 2

LEMMA RelevantType ==
    ASSUME SplitsInv
    PROVE  /\ Relevant \in Seq(Int) /\ Len(Relevant) \in Nat
           /\ SplitValues(Relevant, splits) \in Seq(Int)
<1>1. Relevant \in Seq(Int)
  BY RelevantQuantilesInside DEF SplitsInv, Relevant
<1>2. Len(Relevant) \in Nat /\ \A i \in 1..Len(Relevant) : Relevant[i] \in Int
  BY <1>1, LenProperties, ElementOfSeq
<1>3. CASE splits >= Len(Relevant) + 1
  BY <1>1, <1>3 DEF SplitValues
<1>4. CASE ~(splits >= Len(Relevant) + 1)
  <2> DEFINE values == [j \in 1..(splits - 1) |->
                          Relevant[SplitIndex(Len(Relevant) + 1, splits, j)]]
  <2>1. SplitValues(Relevant, splits) = values
    BY <1>4 DEF SplitValues
  <2>2. splits - 1 \in Nat /\ splits \in Nat /\ splits >= 1
    BY DEF SplitsInv
  <2>3. \A j \in 1..(splits - 1) : values[j] \in Int
    <3>1. ASSUME NEW j \in 1..(splits - 1)
          PROVE  SplitIndex(Len(Relevant) + 1, splits, j) \in 1..Len(Relevant)
      <4>1. /\ Len(Relevant) + 1 \in Nat /\ splits < Len(Relevant) + 1
            /\ Len(Relevant) + 1 - 1 = Len(Relevant)
        BY <1>2, <1>4, <2>2
      <4> QED BY <2>2, <4>1, SplitIndexInRange
    <3> QED BY <1>2, <3>1
  <2> HIDE DEF values
  <2>4. values = [j \in 1..(splits - 1) |-> values[j]]
    BY DEF values
  <2>5. values \in Seq(Int)
    BY <2>2, <2>3, <2>4
  <2> QED BY <1>1, <1>2, <2>1, <2>5
<1> QED BY <1>1, <1>2, <1>3, <1>4

LEMMA SplitsInit == Init => SplitsInv
<1> SUFFICES ASSUME Init PROVE SplitsInv
  OBVIOUS
<1>1. Values \subseteq Int
  BY SplitsAssumption DEF Values
<1>2. quantiles \in SortedSequences(Values, MaxLength) /\ Len(quantiles) >= 2
  BY DEF Init
<1>3. PICK k \in 0..MaxLength : quantiles \in [1..k -> Values] /\ Ascending(quantiles)
  BY <1>2 DEF SortedSequences
<1>4. quantiles \in Seq(Int)
  <2>1. k \in Nat
    BY SplitsAssumption
  <2> HIDE DEF Values
  <2>2. quantiles \in [1..k -> Int]
    BY <1>1, <1>3
  <2> QED BY <2>1, <2>2
<1>5. interval \in Intervals
  BY <1>1 DEF Init, Intervals, Bounds
<1>6. splits \in Nat /\ splits >= 2
  BY SplitsAssumption DEF Init
<1> QED BY <1>2, <1>3, <1>4, <1>5, <1>6 DEF SplitsInv

LEMMA SplitsNext == SplitsInv /\ [Next]_vars => SplitsInv'
<1> SUFFICES ASSUME SplitsInv, TakeFirstPage PROVE SplitsInv'
  BY DEF Next, vars, SplitsInv
<1>1. Chosen[1] \in Int
  BY RelevantType, FirstIsKept DEF TakeFirstPage, Chosen, ChooseParameterValues
<1>2. interval' \in Intervals
  BY <1>1 DEF TakeFirstPage, SplitsInv, Intervals, Bounds
<1> QED BY <1>2 DEF TakeFirstPage, SplitsInv

LEMMA SplitsInvariant == Spec => []SplitsInv
BY SplitsInit, SplitsNext, PTL DEF Spec

-----------------------------------------------------------------------------
(* Even splits *)

(* Quotient and remainder determine each other.                               *)
LEMMA Division ==
    ASSUME NEW regions \in Nat, NEW n \in Nat \ {0}
    PROVE  /\ regions \div n \in Nat /\ (regions \div n) * n \in Nat
           /\ (regions \div n) * n <= regions /\ regions < (regions \div n) * n + n
<1>1. /\ regions \div n \in Nat /\ (regions \div n) * n <= regions
      /\ regions < ((regions \div n) + 1) * n
  BY SMT
<1> DEFINE q == regions \div n
<1> HIDE DEF q
<1>2. q \in Nat => (q + 1) * n = q * n + n /\ q * n \in Nat
  BY SMT
<1> QED BY <1>1, <1>2 DEF q

LEMMA DivisionIsUnique ==
    ASSUME NEW regions \in Nat, NEW n \in Nat \ {0}, NEW q \in Nat, NEW r \in 0..(n - 1),
           regions = q * n + r
    PROVE  regions \div n = q
<1> DEFINE p == regions \div n
<1>1. p \in Nat /\ p * n \in Nat /\ p * n <= regions /\ regions < p * n + n
  BY Division
<1> HIDE DEF p
<1>2. q * n \in Nat /\ (q + 1) * n = q * n + n /\ (p + 1) * n = p * n + n
  BY <1>1, SMT
<1>3. ~(p >= q + 1)
  <2> SUFFICES ASSUME p >= q + 1 PROVE FALSE
    OBVIOUS
  <2>1. (q + 1) * n <= p * n
    BY <1>1, ProductsGrow
  <2> QED BY <1>1, <1>2, <2>1
<1>4. ~(q >= p + 1)
  <2> SUFFICES ASSUME q >= p + 1 PROVE FALSE
    OBVIOUS
  <2>1. (p + 1) * n <= q * n
    BY <1>1, ProductsGrow
  <2> QED BY <1>1, <1>2, <2>1
<1> QED BY <1>1, <1>3, <1>4 DEF p

(* The boundaries go from nothing to everything in steps of the quotient, the *)
(* first few of them one longer.                                              *)
LEMMA SplitIndexSteps ==
    ASSUME NEW regions \in Nat, NEW n \in Nat \ {0}
    PROVE  LET small == regions \div n
               large == regions - small * n
           IN  /\ small \in Nat /\ large \in 0..(n - 1)
               /\ regions >= n => small >= 1
               /\ SplitIndex(regions, n, 0) = 0 /\ SplitIndex(regions, n, n) = regions
               /\ \A j \in Nat : SplitIndex(regions, n, j) \in Nat
               /\ \A j \in Nat : SplitIndex(regions, n, j + 1) - SplitIndex(regions, n, j)
                                   = small + (IF j + 1 <= large THEN 1 ELSE 0)
<1> DEFINE small == regions \div n
           all == small * n
           large == regions - all
<1>1. small \in Nat /\ all \in Nat /\ all <= regions /\ regions < all + n
  BY Division
<1>2. small = 0 => all = 0
  BY SMT
<1>3. \A j \in Nat : SplitIndex(regions, n, j) = j * small + (IF j <= large THEN j ELSE large)
  BY DEF SplitIndex
<1> HIDE DEF small
<1>4. n * small = all
  BY <1>1, SMT
<1>5. 0 * small = 0 /\ \A j \in Nat : j * small \in Nat /\ (j + 1) * small = j * small + small
  BY <1>1, SMT
<1> HIDE DEF all
<1>6. large \in 0..(n - 1) /\ large + all = regions
  BY <1>1
<1> HIDE DEF large
<1>7. \A j \in Nat : SplitIndex(regions, n, j) \in Nat
  BY <1>3, <1>5, <1>6
<1>8. SplitIndex(regions, n, 0) = 0
  BY <1>3, <1>5, <1>6
<1>9. SplitIndex(regions, n, n) = regions
  <2>1. SplitIndex(regions, n, n) = n * small + (IF n <= large THEN n ELSE large)
    BY <1>3
  <2> QED BY <1>1, <1>4, <1>6, <2>1
<1>10. ASSUME NEW j \in Nat
       PROVE  SplitIndex(regions, n, j + 1) - SplitIndex(regions, n, j)
                = small + (IF j + 1 <= large THEN 1 ELSE 0)
  <2> DEFINE here == j * small
             next == (j + 1) * small
  <2>1. /\ SplitIndex(regions, n, j) = here + (IF j <= large THEN j ELSE large)
        /\ SplitIndex(regions, n, j + 1) = next + (IF j + 1 <= large THEN j + 1 ELSE large)
    BY <1>3
  <2>2. here \in Nat /\ next = here + small
    BY <1>5
  <2> HIDE DEF here, next
  <2> QED BY <1>1, <1>6, <2>1, <2>2
<1> QED BY <1>1, <1>2, <1>6, <1>7, <1>8, <1>9, <1>10 DEF small, all, large

(* Whatever the quantiles, the interval and the number of splits, no split    *)
(* has two regions more than another, and none has no region.                 *)
THEOREM SplitsStayEven == Spec => []SplitsAreEven
<1>1. SplitsInv => SplitsAreEven
  <2> SUFFICES ASSUME SplitsInv PROVE SplitsAreEven
    OBVIOUS
  <2> DEFINE regions == Len(Relevant) + 1
             at(j) == SplitIndex(regions, splits, j)
             cut == [j \in 0..splits |-> CASE j = 0 -> 0
                                           [] j = splits -> regions
                                           [] OTHER -> at(j)]
             size == [j \in 1..splits |-> cut[j] - cut[j - 1]]
             small == regions \div splits
             large == regions - small * splits
  <2>1. regions \in Nat /\ splits \in Nat \ {0}
    BY RelevantType DEF SplitsInv
  <2>2. /\ small \in Nat /\ large \in 0..(splits - 1) /\ (regions >= splits => small >= 1)
        /\ at(0) = 0 /\ at(splits) = regions
        /\ \A j \in Nat : at(j + 1) - at(j) = small + (IF j + 1 <= large THEN 1 ELSE 0)
    <3> HIDE DEF regions
    <3> QED BY <2>1, SplitIndexSteps
  <2> HIDE DEF regions, at, small, large
  <2>3. \A j \in 0..splits : cut[j] = at(j)
    BY <2>1, <2>2
  <2>4. \A j \in 1..splits : size[j] = small + (IF j <= large THEN 1 ELSE 0)
    <3>1. ASSUME NEW j \in 1..splits PROVE size[j] = small + (IF j <= large THEN 1 ELSE 0)
      <4>1. j \in 0..splits /\ j - 1 \in 0..splits /\ j - 1 \in Nat /\ (j - 1) + 1 = j
        BY <2>1
      <4>2. at((j - 1) + 1) - at(j - 1) = small + (IF (j - 1) + 1 <= large THEN 1 ELSE 0)
        BY <2>2, <4>1
      <4>3. at(j) - at(j - 1) = small + (IF j <= large THEN 1 ELSE 0)
        BY <4>1, <4>2
      <4>4. size[j] = cut[j] - cut[j - 1]
        OBVIOUS
      <4> HIDE DEF cut, size
      <4> QED BY <2>3, <4>1, <4>3, <4>4
    <3> QED BY <3>1
  <2> HIDE DEF size
  <2>5. splits < regions =>
          /\ \A j \in 1..splits : size[j] >= 1
          /\ \A i, j \in 1..splits : size[i] - size[j] \in {-1, 0, 1}
    BY <2>1, <2>2, <2>4
  <2> QED BY <2>5 DEF SplitsAreEven, size, cut, at, regions
<1> QED BY <1>1, SplitsInvariant, PTL

-----------------------------------------------------------------------------
(* Estimates *)

(* The bounds of an intersection are no weaker than those of its parts.       *)
LEMMA IntersectionIsNarrower ==
    ASSUME NEW I \in Intervals, NEW J \in Intervals
    PROVE  LET N == IntersectIntIntervals(I, J)
           IN  /\ N \in Intervals
               /\ I.lower_bound # NoBound =>
                     N.lower_bound # NoBound /\ I.lower_bound <= N.lower_bound
               /\ I.upper_bound # NoBound =>
                     N.upper_bound # NoBound /\ N.upper_bound <= I.upper_bound
<1>1. /\ I.lower_bound \in Bounds /\ I.upper_bound \in Bounds
      /\ J.lower_bound \in Bounds /\ J.upper_bound \in Bounds
  BY DEF Intervals
<1> QED
  BY <1>1, NoBoundAssumption
  DEF IntersectIntIntervals, StrongerLowerBound, StrongerUpperBound, Intervals, Bounds

(* The share an interval is estimated to hold does not grow when the interval *)
(* gets narrower.                                                             *)
LEMMA NarrowerHoldsLess ==
    ASSUME NEW q \in Seq(Int), NEW I \in Intervals, NEW N \in Intervals,
           I.lower_bound # NoBound => N.lower_bound # NoBound /\ I.lower_bound <= N.lower_bound,
           I.upper_bound # NoBound => N.upper_bound # NoBound /\ N.upper_bound <= I.upper_bound
    PROVE  LET narrow == SelectivityFractionOfInterval(N, q)
               wide == SelectivityFractionOfInterval(I, q)
           IN  narrow.num * wide.den <= wide.num * narrow.den
<1> DEFINE proper == ProperQuantiles(q)
           domain == 6 * (Len(proper) + 1)
           at(b) == BisectLeft(proper, b)
           size(i) == IF i.lower_bound = NoBound /\ i.upper_bound = NoBound THEN domain
                      ELSE IF i.lower_bound = NoBound THEN 3 + 6 * at(i.upper_bound)
                      ELSE IF i.upper_bound = NoBound
                      THEN 3 + 6 * (Len(proper) - at(i.lower_bound))
                      ELSE SizeBetween(at(i.lower_bound), at(i.upper_bound))
           narrow == SelectivityFractionOfInterval(N, q)
           wide == SelectivityFractionOfInterval(I, q)
<1>1. proper \in Seq(Int) /\ Len(proper) \in Nat
  BY ProperQuantilesType
<1>2. /\ I.lower_bound # NoBound => I.lower_bound \in Int
      /\ I.upper_bound # NoBound => I.upper_bound \in Int
      /\ N.lower_bound # NoBound => N.lower_bound \in Int
      /\ N.upper_bound # NoBound => N.upper_bound \in Int
  BY DEF Intervals, Bounds
<1>3. \A i : SelectivityFractionOfInterval(i, q)
               = IF IsEmpty(i) THEN [num |-> 0, den |-> 1] ELSE [num |-> size(i), den |-> domain]
  BY DEF SelectivityFractionOfInterval
<1>4. narrow.num \in Nat /\ narrow.den \in Nat /\ wide.num \in Nat /\ wide.den \in Nat
  BY QuantileFraction
<1> HIDE DEF proper
<1>5. \A x \in Int : at(x) \in 0..Len(proper)
  BY <1>1, BisectLeftMonotone
<1>6. \A x, y \in Int : x <= y => at(x) <= at(y)
  BY <1>1, BisectLeftMonotone
<1>7. CASE IsEmpty(N)
  <2>1. narrow.num = 0
    BY <1>3, <1>7
  <2> HIDE DEF narrow, wide
  <2>2. narrow.num * wide.den = 0 /\ wide.num * narrow.den \in Nat
    BY <1>4, <2>1, SMT
  <2> QED BY <2>2 DEF narrow, wide
<1>8. CASE ~IsEmpty(N)
  <2>1. ~IsEmpty(I) /\ (N.lower_bound # NoBound /\ N.upper_bound # NoBound =>
                            N.lower_bound <= N.upper_bound)
    BY <1>2, <1>8 DEF IsEmpty
  <2>2. /\ narrow.num = size(N) /\ narrow.den = domain
        /\ wide.num = size(I) /\ wide.den = domain
    BY <1>3, <1>8, <2>1
  <2>3. size(N) <= size(I)
    <3> DEFINE n_lower == at(N.lower_bound)
               n_upper == at(N.upper_bound)
               i_lower == at(I.lower_bound)
               i_upper == at(I.upper_bound)
    <3>1. /\ N.lower_bound # NoBound => n_lower \in 0..Len(proper)
          /\ N.upper_bound # NoBound => n_upper \in 0..Len(proper)
          /\ I.lower_bound # NoBound => i_lower \in 0..Len(proper) /\ i_lower <= n_lower
          /\ I.upper_bound # NoBound => i_upper \in 0..Len(proper) /\ n_upper <= i_upper
          /\ N.lower_bound # NoBound /\ N.upper_bound # NoBound => n_lower <= n_upper
      BY <1>2, <1>5, <1>6, <2>1
    <3> HIDE DEF at
    <3> QED BY <1>1, <3>1 DEF SizeBetween
  <2> HIDE DEF narrow, wide, size, domain
  <2> QED BY <1>4, <2>2, <2>3, ProductsGrow DEF narrow, wide
<1> QED BY <1>7, <1>8

(* No remainder is estimated to be larger than the query it came from,        *)
(* whatever the quantiles say.                                                *)
THEOREM EstimatesStayMonotone == Spec => []EstimatesShrink
<1>1. SplitsInv => EstimatesShrink
  <2> SUFFICES ASSUME SplitsInv, NEW l \in Values \cup {NoBound}, NEW u \in Values \cup {NoBound}
               PROVE  LET narrow == IntersectIntIntervals(interval, [lower_bound |-> l,
                                                                     upper_bound |-> u])
                      IN  Fraction(narrow).num * Fraction(interval).den
                            <= Fraction(interval).num * Fraction(narrow).den
    BY DEF EstimatesShrink
  <2> DEFINE J == [lower_bound |-> l, upper_bound |-> u]
  <2>1. J \in Intervals /\ interval \in Intervals /\ quantiles \in Seq(Int)
    BY SplitsAssumption DEF Values, Intervals, Bounds, SplitsInv
  <2> HIDE DEF J
  <2>2. LET N == IntersectIntIntervals(interval, J)
        IN  /\ N \in Intervals
            /\ interval.lower_bound # NoBound =>
                  N.lower_bound # NoBound /\ interval.lower_bound <= N.lower_bound
            /\ interval.upper_bound # NoBound =>
                  N.upper_bound # NoBound /\ N.upper_bound <= interval.upper_bound
    BY <2>1, IntersectionIsNarrower
  <2> QED BY <2>1, <2>2, NarrowerHoldsLess DEF Fraction, J
<1> QED BY <1>1, SplitsInvariant, PTL

-----------------------------------------------------------------------------
(* Plans compose *)

StrictlyAscending(s) == \A i, j \in 1..Len(s) : i < j => s[i] < s[j]

(* A sorted list without repetition is strictly ascending.                    *)
LEMMA WithoutRepetition ==
    ASSUME NEW s \in Seq(Int), Ascending(s), Cardinality(ToSet(s)) = Len(s)
    PROVE  StrictlyAscending(s)
<1>1. Len(s) \in Nat /\ \A i \in 1..Len(s) : s[i] \in Int
  BY LenProperties, ElementOfSeq
<1>2. ToSet(s) = {s[i] : i \in 1..Len(s)}
  BY DEF ToSet
<1>3. s \in Surjection(1..Len(s), ToSet(s))
  <2>1. s = [i \in 1..Len(s) |-> s[i]]
    BY <1>1
  <2>2. \A i \in 1..Len(s) : s[i] \in ToSet(s)
    BY <1>2
  <2>3. s \in [1..Len(s) -> ToSet(s)]
    BY <2>1, <2>2, Zenon
  <2> QED BY <1>2, <2>3 DEF Surjection
<1>4. IsFiniteSet(1..Len(s)) /\ Cardinality(1..Len(s)) = Len(s)
  BY <1>1, InitialSegment
<1>5. s \in Injection(1..Len(s), ToSet(s))
  BY <1>3, <1>4, FS_Surjection
<1>6. \A i, j \in 1..Len(s) : s[i] = s[j] => i = j
  BY <1>5 DEF Injection, IsInjective
<1>7. ASSUME NEW i \in 1..Len(s), NEW j \in 1..Len(s), i < j PROVE s[i] < s[j]
  <2>1. s[i] <= s[j] /\ s[i] # s[j]
    BY <1>1, <1>6, <1>7 DEF Ascending
  <2> QED BY <1>1, <2>1
<1> QED BY <1>7 DEF StrictlyAscending

(* Nothing is removed from a list without repetition.                         *)
LEMMA NothingToRemove ==
    ASSUME NEW s \in Seq(Int), StrictlyAscending(s)
    PROVE  DeduplicateSorted(s) = s
<1> DEFINE kept == {i \in 1..Len(s) : i = 1 \/ s[i] # s[i - 1]}
           upto(i) == {k \in kept : k <= i}
           n == Cardinality(kept)
           index(j) == CHOOSE i \in kept : Cardinality(upto(i)) = j
           t == [j \in 1..n |-> s[index(j)]]
<1>1. DeduplicateSorted(s) = t
  BY DEF DeduplicateSorted
<1>2. Len(s) \in Nat /\ \A i \in 1..Len(s) : s[i] \in Int
  BY LenProperties, ElementOfSeq
<1>3. kept = 1..Len(s)
  <2>1. ASSUME NEW i \in 1..Len(s), i # 1 PROVE s[i] # s[i - 1]
    <3>1. i - 1 \in 1..Len(s) /\ i - 1 < i
      BY <1>2, <2>1
    <3>2. s[i - 1] < s[i]
      BY <3>1 DEF StrictlyAscending
    <3> QED BY <1>2, <3>1, <3>2
  <2> QED BY <2>1
<1> HIDE DEF kept
<1>4. n = Len(s)
  BY <1>2, <1>3, InitialSegment
<1>5. ASSUME NEW i \in 1..Len(s) PROVE Cardinality(upto(i)) = i
  <2>1. upto(i) = 1..i
    BY <1>2, <1>3
  <2> HIDE DEF upto
  <2> QED BY <1>2, <2>1, InitialSegment
<1> HIDE DEF upto, n
<1>6. ASSUME NEW j \in 1..Len(s) PROVE index(j) = j
  <2>1. \A i \in kept : Cardinality(upto(i)) = j <=> i = j
    BY <1>3, <1>5
  <2> QED BY <1>3, <2>1
<1> HIDE DEF index
<1>7. t = [j \in 1..Len(s) |-> s[j]]
  BY <1>4, <1>6
<1>8. s = [j \in 1..Len(s) |-> s[j]]
  BY <1>2
<1> QED BY <1>1, <1>7, <1>8

(* Bisection right of an element of a list where the next one is larger.      *)
LEMMA BisectRightAt ==
    ASSUME NEW s \in Seq(Int), Ascending(s), NEW k \in 1..Len(s),
           k < Len(s) => s[k] < s[k + 1]
    PROVE  BisectRight(s, s[k]) = k
<1>1. Len(s) \in Nat /\ \A i \in 1..Len(s) : s[i] \in Int
  BY LenProperties, ElementOfSeq
<1>2. ASSUME NEW i \in 1..Len(s) PROVE s[i] <= s[k] <=> i <= k
  <2>1. CASE i <= k
    BY <1>1, <2>1 DEF Ascending
  <2>2. CASE i > k
    <3>1. k + 1 \in 1..Len(s) /\ k + 1 <= i
      BY <1>1, <2>2
    <3>2. s[k + 1] <= s[i] /\ s[k] < s[k + 1]
      BY <1>1, <3>1 DEF Ascending
    <3> QED BY <1>1, <2>2, <3>1, <3>2
  <2> QED BY <1>1, <2>1, <2>2
<1>3. {i \in 1..Len(s) : s[i] <= s[k]} = 1..k
  BY <1>1, <1>2
<1>4. k \in Nat
  BY <1>1
<1> QED BY <1>3, <1>4, InitialSegment DEF BisectRight

(* Elements after the insertion point of bisect_left are not smaller.         *)
LEMMA AfterBisectLeft ==
    ASSUME NEW s \in Seq(Int), Ascending(s), NEW x \in Int, NEW i \in 1..Len(s),
           i > BisectLeft(s, x)
    PROVE  s[i] >= x
<1>1. Len(s) \in Nat /\ \A j \in 1..Len(s) : s[j] \in Int
  BY LenProperties, ElementOfSeq
<1> SUFFICES ASSUME s[i] < x PROVE FALSE
  BY <1>1
<1> DEFINE P == {j \in 1..Len(s) : s[j] < x}
<1>2. 1..i \in SUBSET P
  BY <1>1 DEF Ascending
<1>3. IsFiniteSet(P)
  BY <1>1, InitialSegment, FS_Subset
<1>4. i \in Nat /\ IsFiniteSet(1..i) /\ Cardinality(1..i) = i
  BY <1>1, InitialSegment
<1>5. i <= Cardinality(P) /\ Cardinality(P) \in Nat
  BY <1>2, <1>3, <1>4, FS_Subset, FS_CardinalityType
<1> QED BY <1>4, <1>5 DEF BisectLeft

(* What lies above a quantile of the interval are the quantiles after it.     *)
LEMMA RelevantOfRemainder ==
    ASSUME NEW q \in Seq(Int), Ascending(q), Len(q) >= 2, NEW I \in Intervals,
           StrictlyAscending(RelevantQuantiles(q, I)),
           NEW k \in 1..Len(RelevantQuantiles(q, I))
    PROVE  LET R == RelevantQuantiles(q, I)
               S == RelevantQuantiles(q, [I EXCEPT !.lower_bound = R[k]])
           IN  /\ Len(S) = Len(R) - k
               /\ \A i \in 1..Len(S) : S[i] = R[k + i]
<1> DEFINE proper == ProperQuantiles(q)
           from == IF I.lower_bound = NoBound THEN 0 ELSE BisectRight(proper, I.lower_bound)
           to == UpperQuantile(proper, I)
           R == SubSeq(proper, from + 1, to)
           J == [I EXCEPT !.lower_bound = R[k]]
<1>1. RelevantQuantiles(q, I) = R
  BY DEF RelevantQuantiles, Slice
<1>2. proper \in Seq(Int) /\ Ascending(proper) /\ Len(proper) \in Nat
  <2>1. Len(q) \in Nat
    BY LenProperties
  <2>2. 2 \in 1..(Len(q) + 1) /\ Len(q) - 1 \in 0..Len(q)
    BY <2>1
  <2>3. proper \in Seq(Int) /\ Ascending(proper)
    BY <2>2, SortedPart DEF ProperQuantiles
  <2> QED BY <2>3, LenProperties
<1>3. /\ I.lower_bound # NoBound => I.lower_bound \in Int
      /\ I.upper_bound # NoBound => I.upper_bound \in Int
  BY DEF Intervals, Bounds
<1> HIDE DEF proper
<1>4. from \in 0..Len(proper)
  <2>1. \A x \in Int : BisectRight(proper, x) \in 0..Len(proper)
    BY <1>2, BisectRightSplits
  <2>2. CASE I.lower_bound = NoBound
    BY <1>2, <2>2
  <2>3. CASE I.lower_bound # NoBound
    BY <1>3, <2>1, <2>3
  <2> QED BY <2>2, <2>3
<1>5. to \in 0..Len(proper)
  <2>1. \A x \in Int : BisectLeft(proper, x) \in 0..Len(proper)
    BY <1>2, BisectLeftSplits
  <2>2. CASE I.upper_bound = NoBound
    BY <1>2, <2>2 DEF UpperQuantile
  <2>3. CASE I.upper_bound # NoBound
    BY <1>3, <2>1, <2>3 DEF UpperQuantile
  <2> QED BY <2>2, <2>3
<1>6. I.upper_bound # NoBound =>
         \A i \in 1..Len(proper) : IF i <= to THEN proper[i] < I.upper_bound
                                              ELSE proper[i] >= I.upper_bound
  <2> SUFFICES ASSUME I.upper_bound # NoBound, NEW i \in 1..Len(proper)
               PROVE  IF i <= to THEN proper[i] < I.upper_bound ELSE proper[i] >= I.upper_bound
    OBVIOUS
  <2>1. I.upper_bound \in Int /\ to = BisectLeft(proper, I.upper_bound)
    BY <1>3 DEF UpperQuantile
  <2>2. CASE i <= to
    BY <1>2, <2>1, <2>2, BisectLeftSplits
  <2>3. CASE ~(i <= to)
    BY <1>2, <1>5, <2>1, <2>3, AfterBisectLeft
  <2> QED BY <2>2, <2>3
<1>7. I.upper_bound = NoBound => to = Len(proper)
  BY DEF UpperQuantile
<1>8. J.lower_bound = R[k] /\ J.upper_bound = I.upper_bound
  BY DEF Intervals
<1>9. UpperQuantile(proper, J) = to
  BY <1>8 DEF UpperQuantile
<1> HIDE DEF from, to
<1>10. /\ Len(R) = (IF from + 1 <= to THEN to - from ELSE 0)
       /\ \A i \in 1..Len(R) : R[i] = proper[from + i]
  <2>1. from + 1 \in 1..(Len(proper) + 1)
    BY <1>2, <1>4
  <2>2. /\ Len(R) = (IF from + 1 <= to THEN to - (from + 1) + 1 ELSE 0)
        /\ \A i \in 1..Len(R) : R[i] = proper[from + 1 + i - 1]
    BY <1>2, <1>5, <2>1, SortedPart
  <2>3. Len(R) \in Nat /\ \A i \in 1..Len(R) : from + 1 + i - 1 = from + i
    BY <1>4, <1>5, <2>2
  <2> HIDE DEF R
  <2> QED BY <1>4, <1>5, <2>2, <2>3
<1>11. k \in 1..Len(R) /\ Len(R) = to - from /\ from < to /\ StrictlyAscending(R)
  BY <1>1, <1>4, <1>5, <1>10
<1> HIDE DEF R
<1>12. R[k] = proper[from + k] /\ from + k \in 1..Len(proper) /\ from + k <= to
  BY <1>4, <1>5, <1>10, <1>11
<1>13. from + k < Len(proper) => proper[from + k] < proper[from + k + 1]
  <2> SUFFICES ASSUME from + k < Len(proper) PROVE proper[from + k] < proper[from + k + 1]
    OBVIOUS
  <2>1. from + k + 1 \in 1..Len(proper)
    BY <1>2, <1>12
  <2>2. CASE from + k < to
    <3>1. k + 1 \in 1..Len(R) /\ k < k + 1
      BY <1>4, <1>5, <1>11, <2>2
    <3>2. R[k] < R[k + 1] /\ R[k + 1] = proper[from + (k + 1)] /\ from + (k + 1) = from + k + 1
      BY <1>4, <1>10, <1>11, <3>1 DEF StrictlyAscending
    <3> QED BY <1>12, <3>2
  <2>3. CASE ~(from + k < to)
    <3>1. I.upper_bound # NoBound /\ from + k = to
      BY <1>4, <1>5, <1>7, <1>12, <2>3
    <3>2. proper[from + k] < I.upper_bound /\ proper[from + k + 1] >= I.upper_bound
      BY <1>4, <1>5, <1>6, <1>12, <2>1, <3>1
    <3>3. I.upper_bound \in Int /\ proper[from + k] \in Int /\ proper[from + k + 1] \in Int
      BY <1>2, <1>3, <1>12, <2>1, <3>1, ElementOfSeq
    <3> QED BY <3>2, <3>3
  <2> QED BY <2>2, <2>3
<1>14. BisectRight(proper, R[k]) = from + k
  BY <1>2, <1>12, <1>13, BisectRightAt
<1>15. R[k] # NoBound
  BY <1>2, <1>12, ElementOfSeq, NoBoundAssumption
<1>16. RelevantQuantiles(q, J) = SubSeq(proper, from + k + 1, to)
  BY <1>8, <1>9, <1>14, <1>15 DEF RelevantQuantiles, Slice, proper
<1> DEFINE S == SubSeq(proper, from + k + 1, to)
<1>17. /\ Len(S) = (IF from + k + 1 <= to THEN to - (from + k + 1) + 1 ELSE 0)
       /\ \A i \in 1..Len(S) : S[i] = proper[from + k + 1 + i - 1]
  <2>1. from + k + 1 \in 1..(Len(proper) + 1)
    BY <1>2, <1>12
  <2> QED BY <1>2, <1>5, <2>1, SortedPart
<1> HIDE DEF S
<1>18. Len(S) = Len(R) - k
  BY <1>4, <1>5, <1>11, <1>12, <1>17
<1>19. ASSUME NEW i \in 1..Len(S) PROVE S[i] = R[k + i]
  <2>1. k + i \in 1..Len(R) /\ from + k + 1 + i - 1 = from + (k + i)
    BY <1>4, <1>5, <1>11, <1>18
  <2> QED BY <1>10, <1>17, <2>1
<1> HIDE DEF J
<1> QED BY <1>1, <1>16, <1>18, <1>19 DEF S, J

(* The split of what is left after the first page has its boundaries where    *)
(* the split of the whole has them.                                           *)
LEMMA SplitIndexOfRemainder ==
    ASSUME NEW regions \in Nat, NEW n \in Nat, n >= 2, n < regions
    PROVE  LET k == SplitIndex(regions, n, 1)
               rest == regions - k
           IN  /\ k \in Nat /\ rest \in Nat /\ rest >= n - 1
               /\ \A j \in Nat : SplitIndex(rest, n - 1, j) + k = SplitIndex(regions, n, j + 1)
               /\ rest = n - 1 => \A j \in 1..n : SplitIndex(rest, n - 1, j) = j
<1> DEFINE small == regions \div n
           all == small * n
           large == regions - all
           first == IF large >= 1 THEN 1 ELSE 0
           k == small + first
           rest == regions - k
           less == small * (n - 1)
<1>1. small \in Nat /\ all \in Nat /\ all <= regions /\ regions < all + n
  BY Division
<1>2. small = 0 => all = 0
  BY SMT
<1> HIDE DEF small
<1>3. less \in Nat /\ all = less + small
  BY <1>1, SMT
<1>4. 1 * small = small /\ \A j \in Nat : j * small \in Nat /\ (j + 1) * small = j * small + small
  BY <1>1, SMT
<1>5. SplitIndex(regions, n, 1) = k
  <2>1. SplitIndex(regions, n, 1) = 1 * small + (IF 1 <= large THEN 1 ELSE large)
    BY DEF SplitIndex, small
  <2> HIDE DEF all
  <2> QED BY <1>1, <1>4, <2>1
<1>6. less >= n - 1
  <2>1. small >= 1
    BY <1>1, <1>2
  <2>2. 1 \in Nat /\ n - 1 \in Nat
    OBVIOUS
  <2>3. 1 * (n - 1) <= small * (n - 1)
    BY <1>1, <2>1, <2>2, ProductsGrow
  <2> QED BY <2>3
<1> HIDE DEF all, less
<1>7. /\ large \in 0..(n - 1) /\ k \in Nat /\ rest \in Nat /\ rest >= n - 1
      /\ rest = less + (large - first) /\ large - first \in 0..((n - 1) - 1)
  BY <1>1, <1>3, <1>6
<1>8. rest \div (n - 1) = small
  <2> HIDE DEF large, first, rest
  <2>1. rest = small * (n - 1) + (large - first)
    BY <1>7 DEF less
  <2> QED BY <1>1, <1>7, <2>1, DivisionIsUnique
<1>9. rest - small * (n - 1) = large - first
  <2>1. rest - less = large - first
    BY <1>3, <1>7
  <2> QED BY <2>1 DEF less
<1>10. ASSUME NEW j \in Nat
       PROVE  SplitIndex(rest, n - 1, j)
                = j * small + (IF j <= large - first THEN j ELSE large - first)
  <2> HIDE DEF rest, first, large
  <2> QED BY <1>8, <1>9 DEF SplitIndex
<1>11. ASSUME NEW j \in Nat
       PROVE  SplitIndex(regions, n, j + 1)
                = (j + 1) * small + (IF j + 1 <= large THEN j + 1 ELSE large)
  BY DEF SplitIndex, small, all
<1>12. ASSUME NEW j \in Nat
       PROVE  SplitIndex(rest, n - 1, j) + k = SplitIndex(regions, n, j + 1)
  <2> DEFINE here == j * small
             next == (j + 1) * small
  <2>1. /\ SplitIndex(rest, n - 1, j)
             = here + (IF j <= large - first THEN j ELSE large - first)
        /\ SplitIndex(regions, n, j + 1) = next + (IF j + 1 <= large THEN j + 1 ELSE large)
    BY <1>10, <1>11
  <2>2. here \in Nat /\ next = here + small
    BY <1>4
  <2>3. large \in Nat /\ first = (IF large >= 1 THEN 1 ELSE 0)
    BY <1>7
  <2> HIDE DEF here, next, large, rest, first
  <2> QED BY <1>1, <2>1, <2>2, <2>3
<1>13. ASSUME rest = n - 1, NEW j \in 1..n PROVE SplitIndex(rest, n - 1, j) = j
  <2>1. small = 1 /\ large - first = 0
    <3>1. n - 1 \in Nat \ {0} /\ n - 1 = 1 * (n - 1) + 0 /\ 0 \in 0..((n - 1) - 1)
      BY SMT
    <3>2. (n - 1) \div (n - 1) = 1
      BY <3>1, DivisionIsUnique
    <3>3. small = 1
      BY <1>8, <1>13, <3>2
    <3> HIDE DEF rest, large, first
    <3>4. small * (n - 1) = n - 1
      BY <3>3, SMT
    <3> QED BY <1>7, <1>9, <1>13, <3>3, <3>4
  <2>2. j \in Nat /\ j * small = j
    BY <2>1
  <2> HIDE DEF large, rest, first
  <2> QED BY <1>10, <2>1, <2>2
<1> HIDE DEF k
<1> QED BY <1>5, <1>7, <1>12, <1>13

(* The values of a split of a list without repetition have no repetition.     *)
LEMMA SplitWithoutRepetition ==
    ASSUME NEW R \in Seq(Int), StrictlyAscending(R), NEW n \in Nat, n >= 2
    PROVE  LET V == SplitValues(R, n)
           IN  /\ V \in Seq(Int) /\ StrictlyAscending(V)
               /\ n >= Len(R) + 1 => V = R
               /\ n < Len(R) + 1 =>
                     /\ Len(V) = n - 1
                     /\ \A j \in 1..(n - 1) :
                           /\ SplitIndex(Len(R) + 1, n, j) \in 1..Len(R)
                           /\ V[j] = R[SplitIndex(Len(R) + 1, n, j)]
<1>1. Len(R) \in Nat /\ \A i \in 1..Len(R) : R[i] \in Int
  BY LenProperties, ElementOfSeq
<1>2. CASE n >= Len(R) + 1
  BY <1>1, <1>2 DEF SplitValues
<1>3. CASE n < Len(R) + 1
  <2> DEFINE regions == Len(R) + 1
             at(j) == SplitIndex(regions, n, j)
             V == [j \in 1..(n - 1) |-> R[at(j)]]
  <2>1. SplitValues(R, n) = V
    BY <1>1, <1>3 DEF SplitValues
  <2>2. regions \in Nat /\ n < regions /\ regions - 1 = Len(R)
    BY <1>1, <1>3
  <2>3. \A j \in 1..(n - 1) : at(j) \in 1..Len(R)
    <3> HIDE DEF regions
    <3>1. \A j \in 1..(n - 1) : at(j) \in 1..(regions - 1)
      BY <2>2, SplitIndexInRange
    <3> QED BY <2>2, <3>1
  <2>4. ASSUME NEW i \in 1..(n - 1), NEW j \in 1..(n - 1), i < j PROVE at(i) < at(j)
    <3> DEFINE small == regions \div n
               large == regions - small * n
               low == i * small
               high == j * small
    <3>1. small \in Nat /\ small * n \in Nat /\ small * n <= regions
          /\ large \in 0..(n - 1) /\ small >= 1
      <4> HIDE DEF regions
      <4>1. small \in Nat /\ small * n \in Nat /\ small * n <= regions /\ regions < small * n + n
        BY <2>2, Division
      <4>2. small = 0 => small * n = 0
        BY SMT
      <4> HIDE DEF small
      <4> QED BY <2>2, <4>1, <4>2
    <3>2. /\ at(i) = low + (IF i <= large THEN i ELSE large)
          /\ at(j) = high + (IF j <= large THEN j ELSE large)
      BY DEF SplitIndex
    <3> HIDE DEF small, large
    <3>3. low \in Nat /\ high \in Nat /\ low + small <= high
      <4>1. i \in Nat /\ j \in Nat /\ i + 1 \in Nat /\ i + 1 <= j /\ small <= small
        BY <2>4, <3>1
      <4>2. (i + 1) * small = i * small + small
        BY <3>1, <4>1, SMT
      <4>3. (i + 1) * small <= j * small
        BY <3>1, <4>1, ProductsGrow
      <4>4. low \in Nat /\ high \in Nat
        BY <3>1, <4>1, ProductsGrow
      <4> QED BY <4>2, <4>3, <4>4
    <3> HIDE DEF low, high, at
    <3> QED BY <2>4, <3>1, <3>2, <3>3
  <2> HIDE DEF at, regions
  <2>5. Len(V) = n - 1 /\ \A j \in 1..(n - 1) : V[j] = R[at(j)] /\ V[j] \in Int
    BY <1>1, <2>3, SMT
  <2>6. V \in Seq(Int)
    BY <1>1, <2>3, SMT
  <2> HIDE DEF V
  <2>7. StrictlyAscending(V)
    <3> SUFFICES ASSUME NEW i \in 1..Len(V), NEW j \in 1..Len(V), i < j PROVE V[i] < V[j]
      BY DEF StrictlyAscending
    <3>1. i \in 1..(n - 1) /\ j \in 1..(n - 1)
      BY <2>5
    <3>2. at(i) < at(j) /\ at(i) \in 1..Len(R) /\ at(j) \in 1..Len(R)
      BY <2>3, <2>4, <3>1
    <3>3. R[at(i)] < R[at(j)]
      BY <3>2 DEF StrictlyAscending
    <3> QED BY <2>5, <3>1, <3>3
  <2>8. ~(n >= Len(R) + 1)
    BY <1>1, <1>3
  <2> QED BY <1>3, <2>1, <2>3, <2>5, <2>6, <2>7, <2>8, Zenon DEF at, regions
<1> QED BY <1>1, <1>2, <1>3

(* Splitting the quantiles left after the first boundary gives the other      *)
(* boundaries.                                                                *)
LEMMA SplitsCompose ==
    ASSUME NEW R \in Seq(Int), StrictlyAscending(R), NEW n \in Nat, n > 2,
           SplitValues(R, n) # <<>>
    PROVE  \E k \in 1..Len(R) :
              /\ SplitValues(R, n)[1] = R[k]
              /\ \A S \in Seq(Int) :
                    /\ Len(S) = Len(R) - k
                    /\ \A i \in 1..Len(S) : S[i] = R[k + i]
                    => SplitValues(S, n - 1) = Tail(SplitValues(R, n))
<1> DEFINE V == SplitValues(R, n)
<1>1. /\ V \in Seq(Int) /\ Len(R) \in Nat /\ (n >= Len(R) + 1 => V = R)
      /\ n < Len(R) + 1 =>
            /\ Len(V) = n - 1
            /\ \A j \in 1..(n - 1) : /\ SplitIndex(Len(R) + 1, n, j) \in 1..Len(R)
                                     /\ V[j] = R[SplitIndex(Len(R) + 1, n, j)]
  <2>1. n >= 2
    OBVIOUS
  <2> QED BY <2>1, LenProperties, SplitWithoutRepetition
<1> HIDE DEF V
<1>2. V # <<>> /\ Tail(V) \in Seq(Int) /\ Len(Tail(V)) = Len(V) - 1
      /\ \A i \in 1..Len(Tail(V)) : Tail(V)[i] = V[i + 1]
  <2>1. V # <<>>
    BY DEF V
  <2> QED BY <1>1, <2>1, HeadTailProperties
<1>3. ASSUME NEW s \in Seq(Int), Len(s) = Len(V) - 1, \A i \in 1..Len(s) : s[i] = V[i + 1]
      PROVE  s = Tail(V)
  BY <1>2, <1>3, SeqEqual
<1>4. CASE n >= Len(R) + 1
  <2>1. V = R /\ 1 \in 1..Len(R)
    BY <1>1, <1>2, <1>4, EmptySeq
  <2>2. ASSUME NEW S \in Seq(Int), Len(S) = Len(R) - 1, \A i \in 1..Len(S) : S[i] = R[1 + i]
        PROVE  SplitValues(S, n - 1) = Tail(V)
    <3>1. SplitValues(S, n - 1) = S
      BY <1>1, <1>4, <2>2 DEF SplitValues
    <3>2. S = Tail(V)
      <4>1. \A i \in 1..Len(S) : S[i] = V[i + 1]
        BY <2>1, <2>2
      <4> QED BY <1>3, <2>1, <2>2, <4>1
    <3> QED BY <3>1, <3>2
  <2> QED BY <2>1, <2>2 DEF V
<1>5. CASE n < Len(R) + 1
  <2> DEFINE regions == Len(R) + 1
             k == SplitIndex(regions, n, 1)
             rest == regions - k
  <2>1. /\ Len(V) = n - 1
        /\ \A j \in 1..(n - 1) : /\ SplitIndex(regions, n, j) \in 1..Len(R)
                                 /\ V[j] = R[SplitIndex(regions, n, j)]
    BY <1>1, <1>5
  <2>2. regions \in Nat /\ n < regions /\ regions - 1 = Len(R)
    BY <1>1, <1>5
  <2> HIDE DEF regions
  <2>3. /\ k \in Nat /\ rest \in Nat /\ rest >= n - 1
        /\ \A j \in Nat : SplitIndex(rest, n - 1, j) + k = SplitIndex(regions, n, j + 1)
        /\ rest = n - 1 => \A j \in 1..n : SplitIndex(rest, n - 1, j) = j
    <3>1. n >= 2
      OBVIOUS
    <3> QED BY <2>2, <3>1, SplitIndexOfRemainder
  <2>4. k \in 1..Len(R) /\ V[1] = R[k]
    BY <2>1
  <2> HIDE DEF k
  <2>5. ASSUME NEW S \in Seq(Int), Len(S) = Len(R) - k, \A i \in 1..Len(S) : S[i] = R[k + i]
        PROVE  SplitValues(S, n - 1) = Tail(V)
    <3> DEFINE W == SplitValues(S, n - 1)
    <3>1. Len(S) + 1 = rest /\ Len(S) \in Nat
      BY <1>1, <2>2, <2>3, <2>4, <2>5
    <3>2. StrictlyAscending(S)
      <4> SUFFICES ASSUME NEW i \in 1..Len(S), NEW j \in 1..Len(S), i < j PROVE S[i] < S[j]
        BY DEF StrictlyAscending
      <4>1. k + i \in 1..Len(R) /\ k + j \in 1..Len(R) /\ k + i < k + j
        BY <1>1, <2>3, <2>4, <2>5, <3>1
      <4>2. R[k + i] < R[k + j]
        BY <4>1 DEF StrictlyAscending
      <4> QED BY <2>5, <4>2
    <3>3. /\ W \in Seq(Int)
          /\ n - 1 >= Len(S) + 1 => W = S
          /\ n - 1 < Len(S) + 1 =>
                /\ Len(W) = n - 2
                /\ \A j \in 1..(n - 2) : /\ SplitIndex(rest, n - 1, j) \in 1..Len(S)
                                         /\ W[j] = S[SplitIndex(rest, n - 1, j)]
      <4>1. n - 1 \in Nat /\ n - 1 >= 2 /\ (n - 1) - 1 = n - 2
        OBVIOUS
      <4> HIDE DEF rest
      <4> QED BY <3>1, <3>2, <4>1, SplitWithoutRepetition
    <3> HIDE DEF W
    <3>4. Len(W) = n - 2
          /\ \A j \in 1..(n - 2) : /\ SplitIndex(rest, n - 1, j) \in 1..Len(S)
                                   /\ W[j] = S[SplitIndex(rest, n - 1, j)]
      <4>1. CASE n - 1 < Len(S) + 1
        BY <3>3, <4>1
      <4>2. CASE n - 1 >= Len(S) + 1
        <5>1. rest = n - 1 /\ W = S /\ Len(S) = n - 2
          BY <2>3, <3>1, <3>3, <4>2
        <5>2. \A j \in 1..(n - 2) : SplitIndex(rest, n - 1, j) = j
          BY <2>3, <5>1
        <5> HIDE DEF rest
        <5> QED BY <5>1, <5>2
      <4> QED BY <3>1, <4>1, <4>2
    <3>5. Len(W) = Len(V) - 1
      BY <2>1, <3>4
    <3>6. ASSUME NEW i \in 1..Len(W) PROVE W[i] = V[i + 1]
      <4>1. i \in 1..(n - 2) /\ i \in Nat /\ i + 1 \in 1..(n - 1)
        BY <3>4
      <4> DEFINE m == SplitIndex(rest, n - 1, i)
      <4>2. m \in 1..Len(S) /\ W[i] = S[m] /\ m + k = SplitIndex(regions, n, i + 1)
        BY <2>3, <3>4, <4>1
      <4> HIDE DEF m
      <4>3. S[m] = R[k + m] /\ k + m = m + k
        BY <2>3, <2>5, <4>2
      <4>4. V[i + 1] = R[m + k]
        BY <2>1, <4>1, <4>2
      <4> QED BY <4>2, <4>3, <4>4
    <3>7. W = Tail(V)
      BY <1>3, <3>3, <3>5, <3>6
    <3> QED BY <3>7 DEF W
  <2> QED BY <2>4, <2>5 DEF V
<1>6. n >= Len(R) + 1 \/ n < Len(R) + 1
  BY <1>1
<1> QED BY <1>4, <1>5, <1>6, Zenon

(* The quantiles the generator may cut at are sorted.                         *)
LEMMA RelevantAscending ==
    ASSUME NEW q \in Seq(Int), Ascending(q), Len(q) >= 2, NEW I \in Intervals
    PROVE  Ascending(RelevantQuantiles(q, I))
<1> DEFINE proper == ProperQuantiles(q)
           from == IF I.lower_bound = NoBound THEN 0 ELSE BisectRight(proper, I.lower_bound)
           to == UpperQuantile(proper, I)
<1>1. RelevantQuantiles(q, I) = SubSeq(proper, from + 1, to)
  BY DEF RelevantQuantiles, Slice
<1>2. proper \in Seq(Int) /\ Ascending(proper) /\ Len(proper) \in Nat
  <2>1. Len(q) \in Nat
    BY LenProperties
  <2>2. 2 \in 1..(Len(q) + 1) /\ Len(q) - 1 \in 0..Len(q)
    BY <2>1
  <2>3. proper \in Seq(Int) /\ Ascending(proper)
    BY <2>2, SortedPart DEF ProperQuantiles
  <2> QED BY <2>3, LenProperties
<1> HIDE DEF proper
<1>3. /\ I.lower_bound # NoBound => I.lower_bound \in Int
      /\ I.upper_bound # NoBound => I.upper_bound \in Int
  BY DEF Intervals, Bounds
<1>4. from \in 0..Len(proper)
  <2>1. \A x \in Int : BisectRight(proper, x) \in 0..Len(proper)
    BY <1>2, BisectRightSplits
  <2>2. CASE I.lower_bound = NoBound
    BY <1>2, <2>2
  <2>3. CASE I.lower_bound # NoBound
    BY <1>3, <2>1, <2>3
  <2> QED BY <2>2, <2>3
<1>5. to \in 0..Len(proper)
  <2>1. \A x \in Int : BisectLeft(proper, x) \in 0..Len(proper)
    BY <1>2, BisectLeftSplits
  <2>2. CASE I.upper_bound = NoBound
    BY <1>2, <2>2 DEF UpperQuantile
  <2>3. CASE I.upper_bound # NoBound
    BY <1>3, <2>1, <2>3 DEF UpperQuantile
  <2> QED BY <2>2, <2>3
<1> HIDE DEF from, to
<1>6. from + 1 \in 1..(Len(proper) + 1)
  BY <1>2, <1>4
<1> QED BY <1>1, <1>2, <1>5, <1>6, SortedPart DEF from, to

(* Where no quantile is repeated, the plan for the remainder of the first     *)
(* page is what is left of the plan, however many splits were asked for.      *)
THEOREM PlansCompose == Spec => ComposableWithoutRepetition
<1>1. ASSUME SplitsInv, [Next]_vars
      PROVE  [Cardinality(ToSet(Relevant)) = Len(Relevant) => Chosen' = Tail(Chosen)]_vars
  <2> SUFFICES ASSUME TakeFirstPage, Cardinality(ToSet(Relevant)) = Len(Relevant)
               PROVE  Chosen' = Tail(Chosen)
    BY <1>1 DEF Next
  <2> DEFINE R == RelevantQuantiles(quantiles, interval)
             V == SplitValues(R, splits)
  <2>1. /\ quantiles \in Seq(Int) /\ Ascending(quantiles) /\ Len(quantiles) >= 2
        /\ interval \in Intervals /\ splits \in Nat /\ splits >= 2
    BY <1>1 DEF SplitsInv
  <2>2. R \in Seq(Int) /\ StrictlyAscending(R)
    <3>1. R \in Seq(Int) /\ Ascending(R)
      BY <2>1, RelevantQuantilesInside, RelevantAscending
    <3>2. Cardinality(ToSet(R)) = Len(R)
      BY DEF Relevant
    <3> HIDE DEF R
    <3> QED BY <3>1, <3>2, WithoutRepetition
  <2>3. Chosen = DeduplicateSorted(V)
    BY DEF Chosen, Relevant, ChooseParameterValues
  <2>4. V \in Seq(Int) /\ StrictlyAscending(V)
    <3> HIDE DEF R
    <3> QED BY <2>1, <2>2, SplitWithoutRepetition
  <2> HIDE DEF V
  <2>5. Chosen = V
    BY <2>3, <2>4, NothingToRemove
  <2>6. V # <<>> /\ splits > 2
    BY <2>5 DEF TakeFirstPage
  <2>7. PICK k \in 1..Len(R) :
              /\ V[1] = R[k]
              /\ \A S \in Seq(Int) :
                    /\ Len(S) = Len(R) - k
                    /\ \A i \in 1..Len(S) : S[i] = R[k + i]
                    => SplitValues(S, splits - 1) = Tail(V)
    <3> HIDE DEF R
    <3> QED BY <2>1, <2>2, <2>6, SplitsCompose DEF V
  <2> DEFINE J == [interval EXCEPT !.lower_bound = R[k]]
             S == RelevantQuantiles(quantiles, J)
  <2>8. Chosen' = DeduplicateSorted(SplitValues(S, splits - 1))
    <3>1. quantiles' = quantiles /\ splits' = splits - 1 /\ interval' = J
      BY <2>5, <2>7 DEF TakeFirstPage
    <3> QED BY <3>1 DEF Chosen, Relevant, ChooseParameterValues
  <2>9. Len(S) = Len(R) - k /\ \A i \in 1..Len(S) : S[i] = R[k + i]
    BY <2>1, <2>2, <2>7, RelevantOfRemainder
  <2>10. S \in Seq(Int)
    <3>1. R[k] \in Int
      BY <2>2, <2>7, ElementOfSeq
    <3>2. J \in Intervals
      BY <2>1, <3>1 DEF Intervals, Bounds
    <3> HIDE DEF J
    <3> QED BY <2>1, <3>2, RelevantQuantilesInside
  <2> HIDE DEF S, R
  <2>11. SplitValues(S, splits - 1) = Tail(V)
    BY <2>7, <2>9, <2>10
  <2>12. Tail(V) \in Seq(Int) /\ StrictlyAscending(Tail(V))
    <3>1. /\ Tail(V) \in Seq(Int) /\ Len(Tail(V)) = Len(V) - 1 /\ Len(V) \in Nat
          /\ \A i \in 1..Len(Tail(V)) : Tail(V)[i] = V[i + 1]
      BY <2>4, <2>6, HeadTailProperties, LenProperties
    <3>2. ASSUME NEW i \in 1..Len(Tail(V)), NEW j \in 1..Len(Tail(V)), i < j
          PROVE  Tail(V)[i] < Tail(V)[j]
      <4>1. i + 1 \in 1..Len(V) /\ j + 1 \in 1..Len(V) /\ i + 1 < j + 1
        BY <3>1, <3>2
      <4>2. V[i + 1] < V[j + 1]
        BY <2>4, <4>1 DEF StrictlyAscending
      <4> QED BY <3>1, <4>2
    <3> QED BY <3>1, <3>2 DEF StrictlyAscending
  <2> QED BY <2>5, <2>8, <2>11, <2>12, NothingToRemove
<1> QED BY <1>1, SplitsInvariant, PTL DEF Spec, ComposableWithoutRepetition
=============================================================================
