--------------------------- MODULE QuantileSplits ---------------------------
(* How the parameters chosen for one partition plan relate to those chosen    *)
(* for the remainder of its first page: the quantiles of a field, the         *)
(* interval of a query and the number of splits are given, and each step goes *)
(* to the remainder (query_pagination/parameter_generator.py).                *)
EXTENDS Quantiles, FiniteSetsExt, SequencesExt

CONSTANTS MaxValue, MaxLength, MaxSplits

ASSUME SplitsAssumption == MaxValue \in Nat /\ MaxLength \in Nat /\ MaxSplits \in Nat

VARIABLES quantiles, interval, splits

vars == <<quantiles, interval, splits>>

Values == 0..MaxValue

Init ==
    /\ quantiles \in {q \in SortedSequences(Values, MaxLength) : Len(q) >= 2}
    /\ interval \in [lower_bound : Values \cup {NoBound}, upper_bound : Values \cup {NoBound}]
    /\ splits \in 2..MaxSplits

Relevant == RelevantQuantiles(quantiles, interval)
Chosen == ChooseParameterValues(Relevant, splits)

(* The filter ">=" first value, and one split less.                           *)
TakeFirstPage ==
    /\ Chosen # <<>>
    /\ splits > 2
    /\ interval' = [interval EXCEPT !.lower_bound = Chosen[1]]
    /\ splits' = splits - 1
    /\ UNCHANGED quantiles

Next == TakeFirstPage

Spec == Init /\ [][Next]_vars

-----------------------------------------------------------------------------
(* Properties *)

(* When there are more regions than splits, each split has as many regions as *)
(* any other, or one more, and all regions are used.                          *)
SplitsAreEven ==
    LET regions == Len(Relevant) + 1
        cut == [j \in 0..splits |-> CASE j = 0 -> 0
                                      [] j = splits -> regions
                                      [] OTHER -> SplitIndex(regions, splits, j)]
        size == [j \in 1..splits |-> cut[j] - cut[j - 1]]
    IN  splits < regions =>
          /\ \A j \in 1..splits : size[j] >= 1
          /\ \A i, j \in 1..splits : size[i] - size[j] \in {-1, 0, 1}

(* "Composability guarantee": splitting the remainder gives the parameters    *)
(* that were left of the first plan, if no quantile inside of the interval is *)
(* repeated.                                                                  *)
ComposableWithoutRepetition ==
    [][Cardinality(ToSet(Relevant)) = Len(Relevant) => Chosen' = Tail(Chosen)]_vars

Fraction(i) == SelectivityFractionOfInterval(i, quantiles)

(* A narrower interval is never estimated to hold a larger share of the rows, *)
(* so no remainder is estimated to be larger than the query it came from.     *)
EstimatesShrink ==
    \A l, u \in Values \cup {NoBound} :
        LET narrow == IntersectIntIntervals(interval, [lower_bound |-> l, upper_bound |-> u])
        IN  Fraction(narrow).num * Fraction(interval).den
              <= Fraction(interval).num * Fraction(narrow).den
=============================================================================
