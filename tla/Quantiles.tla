------------------------------ MODULE Quantiles ------------------------------
(* Quantile arithmetic shared by the cost estimator and the paginator:        *)
(* cost_estimation/analysis.py, cost_estimation/filter_selectivity_utils.py   *)
(* and query_pagination/parameter_generator.py.  A quantile list is a sorted  *)
(* sequence of two or more integers, repeated values allowed; its ends are    *)
(* the smallest and the largest value observed.                               *)
EXTENDS Interval, Sequences, FiniteSets

Ascending(s) == \A i, j \in 1..Len(s) : i <= j => s[i] <= s[j]

SortedSequences(S, n) == {s \in UNION {[1..k -> S] : k \in 0..n} : Ascending(s)}

(* The bisect module of Python on a sorted list: the number of elements that  *)
(* end up left of the insertion point.                                        *)
BisectLeft(s, x) == Cardinality({i \in 1..Len(s) : s[i] < x})
BisectRight(s, x) == Cardinality({i \in 1..Len(s) : s[i] <= x})

(* Python's s[from:to]; from > to is the empty list.                          *)
Slice(s, from, to) == SubSeq(s, from + 1, to)

(* The list without the smallest and the largest observed value.              *)
ProperQuantiles(quantiles) == SubSeq(quantiles, 2, Len(quantiles) - 1)

UpperQuantile(proper, interval) ==
    IF interval.upper_bound = NoBound THEN Len(proper)
    ELSE BisectLeft(proper, interval.upper_bound)

(* Quantiles the estimator counts towards the capacity of a field: a quantile *)
(* equal to the lower bound is counted.                                       *)
CapacityQuantiles(quantiles, interval) ==
    LET proper == ProperQuantiles(quantiles)
    IN  Slice(proper,
              IF interval.lower_bound = NoBound THEN 0
              ELSE BisectLeft(proper, interval.lower_bound),
              UpperQuantile(proper, interval))

(* Slips: the generator ignores the interval, or uses the quantiles the       *)
(* estimator counts.                                                          *)
QuantilesOfAnyInterval(quantiles, interval) == ProperQuantiles(quantiles)
QuantilesFromLowerBound(quantiles, interval) == CapacityQuantiles(quantiles, interval)

(* Quantiles the generator may use as a page boundary: one equal to the lower *)
(* bound is not used.                                                         *)
RelevantQuantiles(quantiles, interval) ==
    LET proper == ProperQuantiles(quantiles)
    IN  Slice(proper,
              IF interval.lower_bound = NoBound THEN 0
              ELSE BisectRight(proper, interval.lower_bound),
              UpperQuantile(proper, interval))

(* A slip: the regions that are left over all go to the last split.           *)
SplitIndexOfEqualSplits(regions, n, j) == j * (regions \div n)

(* 1-based index of the j-th boundary when a list that makes `regions`        *)
(* regions is cut into n < regions splits, the large splits first.            *)
SplitIndex(regions, n, j) ==
    LET small_split_region_count == regions \div n
        large_split_count == regions - small_split_region_count * n
    IN  j * small_split_region_count
          + (IF j <= large_split_count THEN j ELSE large_split_count)

(* _choose_parameter_values before it removes repeated values.                *)
SplitValues(relevant, n) ==
    LET regions == Len(relevant) + 1
    IN  IF n >= regions THEN relevant
        ELSE [j \in 1..(n - 1) |-> relevant[SplitIndex(regions, n, j)]]

(* _deduplicate_sorted_generator: the value at i is yielded when it differs   *)
(* from the value before it; j is the number yielded so far.                  *)
DeduplicateSorted(s) ==
    LET kept == {i \in 1..Len(s) : i = 1 \/ s[i] # s[i - 1]}
    IN  [j \in 1..Cardinality(kept) |->
            s[CHOOSE i \in kept : Cardinality({k \in kept : k <= i}) = j]]

ChooseParameterValues(relevant, n) == DeduplicateSorted(SplitValues(relevant, n))

(* A slip: the quantiles between two ends counted like fence posts.           *)
SizeWithBothEnds(lower, upper) == 6 * (upper - lower + 1)

(* Sixths of a quantile between two ends; ends in the same quantile count one *)
(* third.                                                                     *)
SizeBetween(lower, upper) == IF lower = upper THEN 2 ELSE 6 * (upper - lower)

(* _get_selectivity_fraction_of_interval as an exact fraction.  The quantile  *)
(* the end of a half-open interval is in counts one half.                     *)
SelectivityFractionOfInterval(interval, quantiles) ==
    LET proper == ProperQuantiles(quantiles)
        domain == 6 * (Len(proper) + 1)
        lower == BisectLeft(proper, interval.lower_bound)
        upper == BisectLeft(proper, interval.upper_bound)
        size == IF interval.lower_bound = NoBound /\ interval.upper_bound = NoBound
                THEN domain
                ELSE IF interval.lower_bound = NoBound THEN 3 + 6 * upper
                ELSE IF interval.upper_bound = NoBound THEN 3 + 6 * (Len(proper) - lower)
                ELSE SizeBetween(lower, upper)
    IN  IF IsEmpty(interval) THEN [num |-> 0, den |-> 1]
        ELSE [num |-> size, den |-> domain]

=============================================================================
