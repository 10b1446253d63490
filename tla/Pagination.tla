----------------------------- MODULE Pagination -----------------------------
(* A client that pages through a query with paginate_query                    *)
(* (graphql_compiler/query_pagination).  Each call gives one page query and   *)
(* at most one remainder query.  The client runs the page and calls           *)
(* paginate_query again on the remainder, until there is none.                *)
(*                                                                            *)
(* Every step of a call is an action: estimate the number of pages, make a    *)
(* plan, generate the first parameter, split the query.  Between and during   *)
(* the calls, rows of the database may change and statistics may be collected *)
(* anew.                                                                      *)
EXTENDS CostEstimation

CONSTANTS
    Rows,            \* rows that pass every filter that is not on one of Fields
    Null,            \* the missing value of a field
    FieldValues,     \* FieldValues[f]: what the database may hold in field f
    Tables,          \* contents the database may have when the client starts
    MutableRows,     \* rows another client of the database may update, once each
    WholeQueries,    \* queries the client may start from
    SchemaInfos,     \* [class_count, quantiles, pagination_keys] of the root vertex
    LiveStatistics,  \* whether statistics may change in the middle of a call
    PageSize,        \* desired number of results per page
    Prefixes,        \* what parameter names start with
    NoPlan           \* a PaginationPlan without vertex partitions

VARIABLES
    schema_info,     \* what the schema info says of the root vertex
    table,           \* table[r][f]: what the database holds
    whole,           \* the query the client wants all the results of
    query,           \* the query of the current call of paginate_query
    pc,              \* the step the client or the call is at
    num_pages,       \* locals of the call
    plan,
    parameter,
    page,            \* what the call returned: the page, the tuple of
    remainder,       \* remainder queries (at most one), the classes of the advisories
    advisories,
    error,           \* the exception that ended the session, or "none"
    fetched,         \* fetched[r]: how often row r was in a page
    touched          \* rows updated since the client started

local == <<num_pages, plan, parameter>>
result == <<page, remainder, advisories>>
environment == <<schema_info, table, touched>>
vars == <<environment, whole, query, pc, local, result, error, fetched>>

-----------------------------------------------------------------------------
(* Queries *)

(* A parameter name is a prefix and the index at its end.                     *)
Names == Prefixes \X Nat

Operators == InequalityOperators \cup {"="}

Directives == [field : Fields, op : Operators, args : Seq(Names),
               tagged : BOOLEAN, pos : Nat]

IsQuery(q) ==
    /\ q = [directives |-> q.directives, elsewhere |-> q.elsewhere,
            parameters |-> q.parameters, rest |-> q.rest,
            results_per_root |-> q.results_per_root, linked_estimate |-> q.linked_estimate]
    /\ q.directives \subseteq Directives
    /\ IsFiniteSet(q.directives)
    /\ \A d \in q.directives :
          ~d.tagged => Len(d.args) = (IF d.op = "between" THEN 2 ELSE 1)
    /\ q.elsewhere \subseteq Names
    /\ IsFiniteSet(DOMAIN q.parameters)
    /\ q.parameters \in [DOMAIN q.parameters -> Int]
    /\ DOMAIN q.parameters \subseteq Names
    /\ q.rest \in Selectivities
    /\ q.results_per_root \in Nat
    /\ q.linked_estimate \in Nat \cup {NoStatistics}

AllValues == UNION {FieldValues[f] : f \in Fields}

ASSUME PaginationAssumption ==
    /\ PageSize \in Nat \ {0}
    /\ "__paged_param" \in Prefixes
    /\ LiveStatistics \in BOOLEAN
    /\ MutableRows \subseteq Rows
    /\ Null \notin Int
    /\ \A f \in Fields : FieldValues[f] \subseteq Int \cup {Null}
    /\ \A f \in Uuid4Fields : FieldValues[f] \subseteq (0..MaxUuid) \cup {Null}
    /\ Tables \subseteq [Rows -> [Fields -> AllValues]]
    /\ \A t \in Tables, r \in Rows, f \in Fields : t[r][f] \in FieldValues[f]
    /\ \A q \in WholeQueries : IsQuery(q) /\ \A d \in q.directives : d.pos # 0
    /\ \A s \in SchemaInfos : s.class_count \in Nat \cup {NoStatistics}
    /\ \A s \in SchemaInfos : Uuid4Fields # {} /\ s.class_count # NoStatistics =>
          s.class_count <= MaxUuid + 1
    /\ \A s \in SchemaInfos : s.pagination_keys \in Seq(Fields)
    /\ \A s \in SchemaInfos, f \in Fields :
          s.quantiles[f] # NoStatistics =>
              s.quantiles[f] \in Seq(Int) /\ Len(s.quantiles[f]) >= 2 /\ Ascending(s.quantiles[f])

NamesIn(directives) == UNION {{d.args[i] : i \in DOMAIN d.args} : d \in directives}

ParametersUsed(q) == NamesIn(q.directives) \cup q.elsewhere

(* ensure_arguments_are_provided                                              *)
Validates(q) == DOMAIN q.parameters = ParametersUsed(q)

(* A row passes a filter on one of Fields.  A filter with a tagged argument   *)
(* is never changed by the paginator: the rows that fail it are not in Rows.  *)
Passes(v, d, parameters) ==
    LET a == parameters[d.args[1]]
        b == parameters[d.args[Len(d.args)]]
    IN  \/ d.tagged
        \/ /\ v # Null
           /\ CASE d.op = "<"       -> v < a
                [] d.op = "<="      -> v <= a
                [] d.op = ">"       -> v > a
                [] d.op = ">="      -> v >= a
                [] d.op = "between" -> a <= v /\ v <= b
                [] OTHER            -> v = a

Matches(row, q) == \A d \in q.directives : Passes(row[d.field], d, q.parameters)

(* _generate_new_name("__paged_param", taken)                                 *)
NewName(taken) ==
    <<"__paged_param",
      CHOOSE k \in 0..Cardinality(taken) :
          /\ <<"__paged_param", k>> \notin taken
          /\ \A j \in 0..(k - 1) : <<"__paged_param", j>> \in taken>>

(* Slips: every pagination filter is left out, or none.                       *)
RedundantWithEither(q, field, op) ==
    {d \in FiltersOnField(q, field) : d.op \in {"<", ">="}}
NothingRedundant(q, field, op) == {}

(* The filters _add_pagination_filter_at_node leaves out for a new filter op. *)
Redundant(q, field, op) ==
    {d \in FiltersOnField(q, field) : d.op = op /\ op \in {"<", ">="}}

(* Deleting the parameter of each redundant filter raises KeyError when two   *)
(* of them share their parameter.                                             *)
ParametersDeletable(q, field, op) ==
    \A d, e \in Redundant(q, field, op) : d.args[1] = e.args[1] => d = e

(* A slip: the parameters of the filters left out are kept.                   *)
WithAll(f, S) == f

Without(f, S) == [x \in DOMAIN f \ S |-> f[x]]

AddPaginationFilter(q, field, op, value) ==
    LET name == NewName(DOMAIN q.parameters)
        extended == [n \in DOMAIN q.parameters \cup {name} |->
                        IF n = name THEN value ELSE q.parameters[n]]
        removed == Redundant(q, field, op)
        added == [field |-> field, op |-> op, args |-> <<name>>,
                  tagged |-> FALSE, pos |-> 0]
    IN  [q EXCEPT !.directives = (@ \ removed) \cup {added},
                  !.parameters = Without(extended, {d.args[1] : d \in removed})]

-----------------------------------------------------------------------------
(* Planning *)

(* _estimate_number_of_pages: the estimate rounded up, at least one.          *)
EstimatedPages(info, q) ==
    LET size == CardinalityEstimate(info, q)
        n == (size.num + (PageSize - 1) * size.den) \div (PageSize * size.den)
    IN  IF n = 0 THEN 1 ELSE n

AllKeys(info) == {info.pagination_keys[i] : i \in DOMAIN info.pagination_keys}

FirstKey(info, keys) ==
    info.pagination_keys[CHOOSE i \in DOMAIN info.pagination_keys :
                            /\ info.pagination_keys[i] \in keys
                            /\ \A j \in 1..(i - 1) : info.pagination_keys[j] \notin keys]

(* A slip: the first key without a filter.                                    *)
PaginationFieldWithoutFilter(info, q) ==
    IF AllKeys(info) \ FilteredFields(q) # {}
    THEN FirstKey(info, AllKeys(info) \ FilteredFields(q))
    ELSE info.pagination_keys[1]

(* The first key with a filter on it, or else the first key.                  *)
PaginationField(info, q) ==
    IF AllKeys(info) \cap FilteredFields(q) # {}
    THEN FirstKey(info, AllKeys(info) \cap FilteredFields(q))
    ELSE info.pagination_keys[1]

Capacity(info, q) == PaginationCapacity(info, q, PaginationField(info, q))

NumberOfSplits(info, q, pages) ==
    IF Capacity(info, q) <= pages THEN Capacity(info, q) ELSE pages

(* A slip: a partition into one split is planned.                             *)
AnySplits(n) == n \in Nat \ {0}

WorthSplitting(n) == n \in Nat \ {0, 1}

(* A slip: the part of the interval is forgotten.                             *)
UuidParameterAtLowerBound(q, field, n, i) ==
    IntersectIntIntervals(IntegerInterval(q, field), UuidUniverse).lower_bound

(* The values _compute_parameters_for_uuid_field cuts the interval at.        *)
UuidParameter(q, field, n, i) ==
    LET interval == IntersectIntIntervals(IntegerInterval(q, field), UuidUniverse)
    IN  interval.lower_bound + (MeasureIntInterval(interval) * i) \div n

(* The parameters generate_parameters_for_vertex_partition yields, a repeated *)
(* quantile included: the first one is the same without repetitions.          *)
GeneratedParameters(info, q, field, n) ==
    IF field \in Uuid4Fields
    THEN [i \in 1..(n - 1) |-> UuidParameter(q, field, n, i)]
    ELSE SplitValues(RelevantQuantiles(info.quantiles[field], IntegerInterval(q, field)), n)

(* A slip: one quantile more is asked for than the planner counted on.        *)
EnoughProperQuantiles(info, field, n) ==
    field \in Uuid4Fields \/
        (info.quantiles[field] # NoStatistics /\ Len(info.quantiles[field]) > n + 1)

EnoughQuantiles(info, field, n) ==
    field \in Uuid4Fields \/
        (info.quantiles[field] # NoStatistics /\ Len(info.quantiles[field]) > n)

-----------------------------------------------------------------------------
Init ==
    /\ schema_info \in SchemaInfos
    /\ table \in Tables
    /\ whole \in WholeQueries
    /\ query = whole
    /\ pc = "paginate"
    /\ num_pages = 1 /\ plan = NoPlan /\ parameter = 0
    /\ page = whole /\ remainder = <<>> /\ advisories = {}
    /\ error = "none"
    /\ fetched = [r \in Rows |-> 0]
    /\ touched = {}

Raise(e) ==
    /\ pc' = "raised"
    /\ error' = e
    /\ UNCHANGED <<environment, whole, query, local, result, fetched>>

(* The call returns the query itself as its only page.                        *)
ReturnWhole(advice) ==
    /\ pc' = "returned"
    /\ page' = query
    /\ remainder' = <<>>
    /\ advisories' = advice
    /\ UNCHANGED <<environment, whole, query, plan, parameter, error, fetched>>

(* metadata_table validates the arguments before anything else.               *)
RejectArguments ==
    /\ pc = "paginate"
    /\ ~Validates(query)
    /\ Raise("GraphQLInvalidArgumentError")

ReturnWithoutCounts ==
    /\ pc = "paginate"
    /\ Validates(query)
    /\ schema_info.class_count = NoStatistics
    /\ num_pages' = 1
    /\ ReturnWhole({"MissingClassCount"})

EstimateNumberOfPages ==
    /\ pc = "paginate"
    /\ Validates(query)
    /\ schema_info.class_count # NoStatistics
    /\ num_pages' = EstimatedPages(schema_info, query)
    /\ IF num_pages' > 1
       THEN /\ pc' = "plan"
            /\ UNCHANGED <<environment, whole, query, plan, parameter, result, error, fetched>>
       ELSE ReturnWhole({})

PlanWithoutKeys ==
    /\ pc = "plan"
    /\ AllKeys(schema_info) = {}
    /\ UNCHANGED num_pages
    /\ ReturnWhole({"PaginationFieldNotSpecified"})

RejectInterval ==
    /\ pc = "plan"
    /\ AllKeys(schema_info) # {}
    /\ \E f \in FilteredFields(query) : ~ConvertibleInterval(query, f)
    /\ Raise("AssertionError: not a uuid")

PlanWithoutCapacity ==
    /\ pc = "plan"
    /\ AllKeys(schema_info) # {}
    /\ \A f \in FilteredFields(query) : ConvertibleInterval(query, f)
    /\ Capacity(schema_info, query) = NoStatistics
    /\ UNCHANGED num_pages
    /\ ReturnWhole({"InsufficientQuantiles"})

PlanOnePage ==
    /\ pc = "plan"
    /\ AllKeys(schema_info) # {}
    /\ \A f \in FilteredFields(query) : ConvertibleInterval(query, f)
    /\ Capacity(schema_info, query) # NoStatistics
    /\ ~WorthSplitting(NumberOfSplits(schema_info, query, num_pages))
    /\ UNCHANGED num_pages
    /\ ReturnWhole({})

PlanVertexPartition ==
    /\ pc = "plan"
    /\ AllKeys(schema_info) # {}
    /\ \A f \in FilteredFields(query) : ConvertibleInterval(query, f)
    /\ Capacity(schema_info, query) # NoStatistics
    /\ WorthSplitting(NumberOfSplits(schema_info, query, num_pages))
    /\ plan' = [pagination_field |-> PaginationField(schema_info, query),
                number_of_splits |-> NumberOfSplits(schema_info, query, num_pages)]
    /\ pc' = "generate"
    /\ advisories' = {}
    /\ UNCHANGED <<environment, whole, query, num_pages, parameter, page, remainder,
                   error, fetched>>

RejectPartition ==
    /\ pc = "generate"
    /\ ~EnoughQuantiles(schema_info, plan.pagination_field, plan.number_of_splits)
    /\ Raise("AssertionError: not enough quantile data")

(* The generator is empty: the query is its own page after all.               *)
GenerateNothing ==
    /\ pc = "generate"
    /\ EnoughQuantiles(schema_info, plan.pagination_field, plan.number_of_splits)
    /\ GeneratedParameters(schema_info, query, plan.pagination_field,
                           plan.number_of_splits) = <<>>
    /\ UNCHANGED num_pages
    /\ ReturnWhole({})

GenerateParameter ==
    /\ pc = "generate"
    /\ EnoughQuantiles(schema_info, plan.pagination_field, plan.number_of_splits)
    /\ LET values == GeneratedParameters(schema_info, query, plan.pagination_field,
                                         plan.number_of_splits)
       IN  values # <<>> /\ parameter' = values[1]
    /\ pc' = "parameterize"
    /\ UNCHANGED <<environment, whole, query, num_pages, plan, result, error, fetched>>

RejectDeletion ==
    /\ pc = "parameterize"
    /\ \E op \in {"<", ">="} : ~ParametersDeletable(query, plan.pagination_field, op)
    /\ Raise("KeyError")

GenerateParameterizedQueries ==
    /\ pc = "parameterize"
    /\ \A op \in {"<", ">="} : ParametersDeletable(query, plan.pagination_field, op)
    /\ page' = AddPaginationFilter(query, plan.pagination_field, "<", parameter)
    /\ remainder' = <<AddPaginationFilter(query, plan.pagination_field, ">=", parameter)>>
    /\ pc' = "returned"
    /\ UNCHANGED <<environment, whole, query, local, advisories, error, fetched>>

-----------------------------------------------------------------------------
(* The client and the rest of the world *)

RejectPage ==
    /\ pc = "returned"
    /\ ~Validates(page)
    /\ Raise("GraphQLInvalidArgumentError")

(* The client runs the page and goes on with the remainder.                   *)
ExecutePage ==
    /\ pc = "returned"
    /\ Validates(page)
    /\ fetched' = [r \in Rows |-> IF Matches(table[r], page) THEN fetched[r] + 1
                                                             ELSE fetched[r]]
    /\ IF remainder = <<>>
       THEN pc' = "done" /\ UNCHANGED query
       ELSE pc' = "paginate" /\ query' = remainder[1]
    /\ UNCHANGED <<environment, whole, local, result, error>>

UpdateRow(r) ==
    /\ r \in MutableRows \ touched
    /\ pc \notin {"done", "raised"}
    /\ \E f \in Fields, v \in UNION {FieldValues[g] : g \in Fields} :
          v \in FieldValues[f] /\ table' = [table EXCEPT ![r][f] = v]
    /\ touched' = touched \cup {r}
    /\ UNCHANGED <<schema_info, whole, query, pc, local, result, error, fetched>>

(* New statistics between two calls.  The methods of a Statistics object that *)
(* is not a snapshot are called by the planner and again by the generator, so *)
(* its answers may also change between the two, except that a class count,    *)
(* which Statistics requires, does not disappear under the planner.           *)
RefreshStatistics ==
    /\ pc = "paginate" \/ (LiveStatistics /\ pc \in {"plan", "generate"})
    /\ schema_info' \in SchemaInfos \ {schema_info}
    /\ schema_info'.pagination_keys = schema_info.pagination_keys
    /\ pc # "paginate" => schema_info'.class_count # NoStatistics
    /\ UNCHANGED <<table, touched, whole, query, pc, local, result, error, fetched>>

Paginate ==
    \/ RejectArguments \/ ReturnWithoutCounts \/ EstimateNumberOfPages
    \/ PlanWithoutKeys \/ RejectInterval \/ PlanWithoutCapacity
    \/ PlanOnePage \/ PlanVertexPartition
    \/ RejectPartition \/ GenerateNothing \/ GenerateParameter
    \/ RejectDeletion \/ GenerateParameterizedQueries

Client == RejectPage \/ ExecutePage

Next == Paginate \/ Client \/ (\E r \in MutableRows : UpdateRow(r)) \/ RefreshStatistics

(* paginate_query returns or raises, and a client that wants every result     *)
(* keeps going; nothing makes other clients write or statistics change.       *)
Fairness == WF_vars(Paginate) /\ WF_vars(Client)

Spec == Init /\ [][Next]_vars /\ Fairness

-----------------------------------------------------------------------------
(* Properties *)

(* Every variable holds what the code's annotations say it holds.             *)
TypeOK ==
    /\ schema_info \in SchemaInfos
    /\ table \in [Rows -> [Fields -> AllValues]]
    /\ \A r \in Rows, f \in Fields : table[r][f] \in FieldValues[f]
    /\ IsQuery(whole) /\ IsQuery(query) /\ IsQuery(page)
    /\ remainder = <<>> \/ (Len(remainder) = 1 /\ IsQuery(remainder[1]))
    /\ pc \in {"paginate", "plan", "generate", "parameterize", "returned", "done", "raised"}
    /\ plan # NoPlan => /\ plan.pagination_field \in Fields
                        /\ plan.number_of_splits \in Nat \ {0, 1}
    /\ parameter \in Int
    /\ fetched \in [Rows -> Nat]
    /\ touched \subseteq MutableRows

(* Filters whose parameter the paginator may delete share it with no other.   *)
SharesNoParameter(q) ==
    \A d \in q.directives : d.op \in {"<", ">="} /\ ~d.tagged =>
        d.args[1] \notin NamesIn(q.directives \ {d}) \cup q.elsewhere

Sound(q) == Validates(q) /\ SharesNoParameter(q)

(* Rows nobody updated since the client started, with a value in every field. *)
StableRows == {r \in Rows \ touched : \A f \in Fields : table[r][f] # Null}

Count(P) == IF P THEN 1 ELSE 0

(* How many of the queries the client still has to run return row r.          *)
Outstanding(r) ==
    CASE pc = "done" -> 0
      [] pc = "returned" ->
            Count(Matches(table[r], page))
              + (IF remainder = <<>> THEN 0 ELSE Count(Matches(table[r], remainder[1])))
      [] OTHER -> Count(Matches(table[r], query))

(* Whatever the statistics say and whatever happens to other rows, a row      *)
(* nobody touches is in exactly one of the pages, fetched or outstanding, if  *)
(* the whole query returns it, and in none if it does not.                    *)
ExactlyOnce ==
    Sound(whole) /\ pc # "raised" =>
        \A r \in StableRows :
            fetched[r] + Outstanding(r) = Count(Matches(table[r], whole))

(* "A query AST and parameters that validate against the query": what the     *)
(* paginator returns can be run and paginated again.                          *)
ResultsValidate ==
    pc = "returned" =>
        Validates(page) /\ (remainder # <<>> => Validates(remainder[1]))

WellFormed(q) ==
    /\ Sound(q)
    /\ \A f \in Fields : ConvertibleInterval(q, f)

(* What a query that can be run and shares no parameter is split into can be  *)
(* run, and what its remainder is split into in turn.                         *)
PagesValidate == Sound(whole) => ResultsValidate

(* When the statistics are a snapshot, the planner never promises splits the  *)
(* generator then refuses to make, and no remainder of a well-formed query,   *)
(* however often it was split, makes paginate_query or its client raise.      *)
RaisesOnlyOnBadQueries == WellFormed(whole) /\ ~LiveStatistics => pc # "raised"

(* The chain of remainders stays on the field its first page was cut at.      *)
FieldIsStable ==
    plan # NoPlan /\ pc \in {"generate", "parameterize"} =>
        \A d \in query.directives : d.pos = 0 => d.field = plan.pagination_field

(* However many pages were taken, the query the client goes on with has at    *)
(* most one filter and one parameter more than the query it started from.     *)
QueriesDoNotGrow ==
    /\ Cardinality({d \in query.directives : d.pos = 0}) <= 1
    /\ Cardinality(DOMAIN query.parameters) <= Cardinality(DOMAIN whole.parameters) + 1

FieldInterval(q) == IntegerInterval(q, plan.pagination_field)

(* The number of splits of a uuid field is bounded by the values its interval *)
(* has, unless a filter on a unique index bounds the number of results: such  *)
(* a filter says nothing of the interval.                                     *)
CountsValues == plan.pagination_field \in Uuid4Fields => whole.rest.kind = "fractional"

(* No query is known to be empty: the page and the remainder keep at least    *)
(* one value each of the interval the query leaves on the field.              *)
SplitsAreNotEmpty ==
    Sound(whole) /\ pc = "returned" /\ remainder # <<>> /\ CountsValues =>
        ~IsEmpty(FieldInterval(page)) /\ ~IsEmpty(FieldInterval(remainder[1]))

(* Successive remainders start ever higher on the pagination field.           *)
RemaindersMoveUp ==
    [][Sound(whole) /\ pc = "returned" /\ remainder # <<>> /\ CountsValues /\ query' # query =>
         LET from == FieldInterval(query).lower_bound
             to == FieldInterval(query').lower_bound
         IN  to # NoBound /\ (from # NoBound => from < to)]_vars

(* A client that keeps calling gets to the end of its query.                  *)
Terminates == <>(pc \in {"done", "raised"})
=============================================================================
