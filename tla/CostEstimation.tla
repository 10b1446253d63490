--------------------------- MODULE CostEstimation ---------------------------
(* What the paginator asks of the cost estimator about a query: the interval  *)
(* of values its filters leave on a field, the number of results, and the     *)
(* number of distinct root vertices (cost_estimation/analysis.py,             *)
(* filter_selectivity_utils.py, cardinality_estimator.py).                    *)
(*                                                                            *)
(* A query is kept at the granularity the estimator distinguishes:            *)
(*   directives  the @filter directives on fields of the root vertex, each    *)
(*               with its field, operator and runtime parameters; `tagged`    *)
(*               says that an argument is a %tag; `pos` is the place of the   *)
(*               directive in the text, 0 for one the paginator added;        *)
(*   elsewhere   the names of the parameters the rest of the query uses;      *)
(*   parameters  the values the parameters are bound to;                      *)
(*   rest        the combined selectivity of the root filters that are not on *)
(*               a pagination field;                                          *)
(*   results_per_root   the cardinality of one root vertex fully expanded;    *)
(*   linked_estimate    the smallest distinct-result estimate of a vertex     *)
(*               that leads to the root by many-to-one traversals.            *)
(* Fractions are exact where the code computes with floats.                   *)
EXTENDS Quantiles, FiniteSetsExt

CONSTANTS
    Fields,          \* fields of the root vertex that support range reasoning
    Uuid4Fields,     \* those of them that are uniformly distributed uuids
    UniqueFields,    \* those of them with a unique index
    MaxUuid,         \* MAX_UUID_INT; MIN_UUID_INT is 0
    NoStatistics     \* a statistic that was not collected (None)

ASSUME FieldsAssumption ==
    /\ Uuid4Fields \subseteq Fields
    /\ UniqueFields \subseteq Fields
    /\ MaxUuid \in Nat

UuidUniverse == [lower_bound |-> 0, upper_bound |-> MaxUuid]

FiltersOnField(query, field) == {d \in query.directives : d.field = field}

InequalityFilters(query, field) ==
    {d \in FiltersOnField(query, field) : d.op \in InequalityOperators /\ ~d.tagged}

IntervalOfDirective(query, d) ==
    FilterInterval(d.op, query.parameters[d.args[1]], query.parameters[d.args[Len(d.args)]])

(* get_integer_interval_for_filters_on_field                                  *)
IntegerInterval(query, field) ==
    IntersectAll({IntervalOfDirective(query, d) : d \in InequalityFilters(query, field)})

(* The bounds of a field's interval can be written as values of the field: a  *)
(* uuid outside of its 128 bits raises in convert_int_to_field_value.         *)
ConvertibleInterval(query, field) ==
    field \in Uuid4Fields =>
        LET i == IntegerInterval(query, field)
        IN  {i.lower_bound, i.upper_bound} \ {NoBound} \subseteq 0..MaxUuid

(* get_field_value_intervals has an entry for each field that has a filter.   *)
FilteredFields(query) == {f \in Fields : FiltersOnField(query, f) # {}}

(* get_fields_eligible_for_pagination: every filter uses only parameters.     *)
EligibleFields(query) ==
    {f \in Fields : \A d \in FiltersOnField(query, f) : ~d.tagged}

-----------------------------------------------------------------------------
Selectivities ==
    {s \in [kind : {"absolute", "fractional"}, num : Nat, den : Nat \ {0}] :
        s.kind = "fractional" => s.num <= s.den}

Absolute(n) == [kind |-> "absolute", num |-> n, den |-> 1]
Fractional(f) == [kind |-> "fractional", num |-> f.num, den |-> f.den]

(* The smallest absolute selectivity if there is one, else the product.       *)
CombineTwo(s, t) ==
    IF s.kind = "fractional" /\ t.kind = "fractional"
    THEN [kind |-> "fractional", num |-> s.num * t.num, den |-> s.den * t.den]
    ELSE IF s.kind = "fractional" THEN t
    ELSE IF t.kind = "fractional" THEN s
    ELSE IF s.num <= t.num THEN s ELSE t

WholeFraction == [num |-> 1, den |-> 1]

IntervalSelectivity(statistics, query, field) ==
    LET interval == IntegerInterval(query, field)
    IN  IF field \in Uuid4Fields
        THEN [num |-> MeasureIntInterval(IntersectIntIntervals(interval, UuidUniverse)),
              den |-> MaxUuid + 1]
        ELSE IF statistics.quantiles[field] = NoStatistics THEN WholeFraction
        ELSE SelectivityFractionOfInterval(interval, statistics.quantiles[field])

(* An equality filter selects one row of a uniquely indexed field, and an     *)
(* unknown share of any other field when no value counts are collected.       *)
EqualitySelectivity(query, field) ==
    IF field \in UniqueFields /\ \E d \in FiltersOnField(query, field) : d.op = "="
    THEN Absolute(1)
    ELSE Fractional(WholeFraction)

FieldSelectivity(statistics, query, field) ==
    CombineTwo(Fractional(IntervalSelectivity(statistics, query, field)),
               EqualitySelectivity(query, field))

(* get_selectivity_of_filters_at_vertex for the root vertex.                  *)
RootSelectivity(statistics, query) ==
    MapThenFoldSet(CombineTwo, query.rest,
                   LAMBDA f : FieldSelectivity(statistics, query, f),
                   LAMBDA S : CHOOSE f \in S : TRUE,
                   FilteredFields(query))

(* adjust_counts_with_selectivity: an absolute selectivity is the count.      *)
AdjustedCount(count, selectivity) ==
    IF selectivity.kind = "absolute" THEN [num |-> selectivity.num, den |-> 1]
    ELSE [num |-> count * selectivity.num, den |-> selectivity.den]

(* estimate_query_result_cardinality                                          *)
CardinalityEstimate(statistics, query) ==
    LET roots == AdjustedCount(statistics.class_count, RootSelectivity(statistics, query))
    IN  [num |-> roots.num * query.results_per_root, den |-> roots.den]

(* get_distinct_result_set_estimates at the root, rounded down as its callers *)
(* round it.                                                                  *)
DistinctResultSetEstimate(statistics, query) ==
    LET roots == AdjustedCount(statistics.class_count, RootSelectivity(statistics, query))
        own == roots.num \div roots.den
    IN  IF query.linked_estimate = NoStatistics \/ own <= query.linked_estimate
        THEN own ELSE query.linked_estimate

(* get_pagination_capacities of an eligible field; NoStatistics when the      *)
(* field has no entry there.                                                  *)
PaginationCapacity(statistics, query, field) ==
    LET distinct == DistinctResultSetEstimate(statistics, query)
        quantiles == statistics.quantiles[field]
        regions == Len(CapacityQuantiles(quantiles, IntegerInterval(query, field))) + 1
    IN  IF field \notin EligibleFields(query) THEN NoStatistics
        ELSE IF field \in Uuid4Fields THEN distinct
        ELSE IF quantiles = NoStatistics THEN NoStatistics
        ELSE IF regions <= distinct THEN regions ELSE distinct

=============================================================================
