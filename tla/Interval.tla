------------------------------ MODULE Interval ------------------------------
(* Integer intervals of the cost estimator (cost_estimation/interval.py) and  *)
(* the interval an inequality filter leaves on its field                      *)
(* (cost_estimation/filter_selectivity_utils.py).  Both ends are inclusive;   *)
(* NoBound stands for a bound that is None.                                   *)
EXTENDS Integers

CONSTANT NoBound

ASSUME NoBoundAssumption == NoBound \notin Int

Bounds == Int \cup {NoBound}

Intervals == [lower_bound : Bounds, upper_bound : Bounds]

Unbounded == [lower_bound |-> NoBound, upper_bound |-> NoBound]

IsEmpty(i) ==
    /\ i.lower_bound # NoBound
    /\ i.upper_bound # NoBound
    /\ i.lower_bound > i.upper_bound

(* What an interval means: the values between its ends.                       *)
InInterval(i, v) ==
    /\ i.lower_bound # NoBound => i.lower_bound <= v
    /\ i.upper_bound # NoBound => v <= i.upper_bound

(* Only defined, as in the code, when both bounds are there.                  *)
MeasureIntInterval(i) ==
    IF IsEmpty(i) THEN 0 ELSE i.upper_bound - i.lower_bound + 1

StrongerLowerBound(a, b) ==
    IF a # NoBound /\ b # NoBound THEN (IF a >= b THEN a ELSE b)
    ELSE IF a # NoBound THEN a ELSE b

StrongerUpperBound(a, b) ==
    IF a # NoBound /\ b # NoBound THEN (IF a <= b THEN a ELSE b)
    ELSE IF a # NoBound THEN a ELSE b

IntersectIntIntervals(i, j) ==
    [lower_bound |-> StrongerLowerBound(i.lower_bound, j.lower_bound),
     upper_bound |-> StrongerUpperBound(i.upper_bound, j.upper_bound)]

(* The interval the loop of get_integer_interval_for_filters_on_field ends    *)
(* with when it starts from the unbounded interval and intersects it with     *)
(* each interval of S in turn: the strongest bound of each side.              *)
IntersectAll(S) ==
    LET lowers == {i.lower_bound : i \in S} \ {NoBound}
        uppers == {i.upper_bound : i \in S} \ {NoBound}
    IN  [lower_bound |-> IF lowers = {} THEN NoBound
                         ELSE CHOOSE m \in lowers : \A x \in lowers : x <= m,
         upper_bound |-> IF uppers = {} THEN NoBound
                         ELSE CHOOSE m \in uppers : \A x \in uppers : m <= x]

InequalityOperators == {"<", "<=", ">", ">=", "between"}

(* Values that pass the filter op with first parameter a; b is the second     *)
(* parameter of "between" and is ignored by the binary operators.             *)
FilterInterval(op, a, b) ==
    [lower_bound |-> CASE op = ">" -> a + 1
                       [] op \in {">=", "between"} -> a
                       [] OTHER -> NoBound,
     upper_bound |-> CASE op = "<" -> a - 1
                       [] op = "<=" -> a
                       [] op = "between" -> b
                       [] OTHER -> NoBound]

=============================================================================
