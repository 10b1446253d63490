-------------------------- MODULE PaginationProofs --------------------------
(* What holds of Pagination for any rows, queries, statistics and page size:  *)
(* of one call, which splits a query in a page and a remainder, and of a      *)
(* whole session of paging, which goes on with one remainder after another.   *)
(*                                                                            *)
(* One call: a filter added to a query keeps the rows on one side of the      *)
(* parameter, the filters it replaces are implied by it because the parameter *)
(* lies inside of the interval of the query, and no parameter another filter  *)
(* needs is deleted.  So each step moves a row from `query` to exactly one of *)
(* `page` and `remainder`.                                                    *)
(*                                                                            *)
(* A session: no remainder is ever refused, every split leaves something on   *)
(* both sides and moves on, the chain of remainders stays on one field, its   *)
(* queries do not grow, and all of it is an enumeration of the rows.  This    *)
(* needs what the cost estimator computes: the combined selectivity of a      *)
(* vertex is a fraction of at most one, and of at most the share each uuid    *)
(* interval has of all uuids; so a plan never has more splits than there are  *)
(* regions between quantiles, or values in the interval.                      *)
EXTENDS PaginationImplements, QuantileProofs

-----------------------------------------------------------------------------
(* New names *)

(* There is always a parameter name that is not taken, and _generate_new_name *)
(* finds it.                                                                  *)
LEMMA NewNameIsNew ==
    ASSUME NEW taken, IsFiniteSet(taken)
    PROVE  NewName(taken) \in Names \ taken
<1> DEFINE c == Cardinality(taken)
           candidate(k) == <<"__paged_param", k>>
           free == {k \in 0..c : candidate(k) \notin taken}
<1>1. c \in Nat
  BY FS_CardinalityType
<1>2. free # {}
  <2> SUFFICES ASSUME \A k \in 0..c : candidate(k) \in taken PROVE FALSE
    OBVIOUS
  <2> DEFINE f == [k \in 0..c |-> candidate(k)]
  <2>1. f \in [0..c -> taken]
    OBVIOUS
  <2>2. f \in Injection(0..c, taken)
    BY <2>1 DEF Injection, IsInjective
  <2>3. IsFiniteSet(0..c) /\ Cardinality(0..c) = c + 1
    <3>1. 0 \in Int /\ c \in Int
      BY <1>1
    <3>2. IsFiniteSet(0..c) /\ Cardinality(0..c) = IF 0 > c THEN 0 ELSE c - 0 + 1
      BY <3>1, FS_Interval
    <3> QED BY <1>1, <3>2
  <2> HIDE DEF f
  <2>4. Cardinality(0..c) <= c
    BY <2>2, FS_Injection
  <2> QED BY <1>1, <2>3, <2>4
<1>3. PICK n \in free : \A m \in free : n <= m
  <2>1. free \in SUBSET Nat
    BY <1>1
  <2> QED BY <1>2, <2>1, LeastNatural
<1>4. n \in 0..c /\ candidate(n) \notin taken /\ \A j \in 0..(n - 1) : candidate(j) \in taken
  BY <1>1, <1>3
<1> DEFINE chosen == CHOOSE k \in 0..c : /\ candidate(k) \notin taken
                                         /\ \A j \in 0..(k - 1) : candidate(j) \in taken
<1>5. chosen \in 0..c /\ candidate(chosen) \notin taken
  BY <1>4
<1>6. NewName(taken) = candidate(chosen)
  BY DEF NewName
<1> HIDE DEF chosen
<1>7. chosen \in Nat
  BY <1>1, <1>5
<1>8. candidate(chosen) \in Prefixes \X Nat
  BY <1>7, PaginationAssumption
<1> QED BY <1>5, <1>6, <1>8 DEF Names

-----------------------------------------------------------------------------
(* Queries *)

Replaced(q, D, P) == [q EXCEPT !.directives = D, !.parameters = P]

SameEstimates(new, q) ==
    /\ new.rest = q.rest
    /\ new.results_per_root = q.results_per_root
    /\ new.linked_estimate = q.linked_estimate

(* The parts of a query the paginator changes and those it leaves alone.      *)
LEMMA QueryParts ==
    ASSUME NEW q, IsQuery(q), NEW D, NEW P
    PROVE  LET new == Replaced(q, D, P)
           IN  /\ new.directives = D
               /\ new.parameters = P
               /\ new.elsewhere = q.elsewhere
               /\ SameEstimates(new, q)
               /\ new = [directives |-> new.directives, elsewhere |-> new.elsewhere,
                         parameters |-> new.parameters, rest |-> new.rest,
                         results_per_root |-> new.results_per_root,
                         linked_estimate |-> new.linked_estimate]
<1>1. Replaced(q, D, P)
        = [directives |-> D, elsewhere |-> q.elsewhere, parameters |-> P, rest |-> q.rest,
           results_per_root |-> q.results_per_root, linked_estimate |-> q.linked_estimate]
  <2>1. \A r : r = [directives |-> D, elsewhere |-> q.elsewhere, parameters |-> q.parameters,
                    rest |-> q.rest, results_per_root |-> q.results_per_root,
                    linked_estimate |-> q.linked_estimate]
               => [r EXCEPT !.parameters = P]
                    = [directives |-> D, elsewhere |-> q.elsewhere, parameters |-> P,
                       rest |-> q.rest, results_per_root |-> q.results_per_root,
                       linked_estimate |-> q.linked_estimate]
    OBVIOUS
  <2>2. [q EXCEPT !.directives = D]
          = [directives |-> D, elsewhere |-> q.elsewhere, parameters |-> q.parameters,
             rest |-> q.rest, results_per_root |-> q.results_per_root,
             linked_estimate |-> q.linked_estimate]
    BY DEF IsQuery
  <2> QED BY <2>1, <2>2 DEF Replaced
<1> QED BY <1>1 DEF SameEstimates

(* A filter that takes its arguments from parameters has one, or two for      *)
(* "between", and the filter uses them.                                       *)
LEMMA DirectiveArguments ==
    ASSUME NEW q, IsQuery(q), NEW d \in q.directives, ~d.tagged
    PROVE  /\ d \in Directives
           /\ d.op # "between" => Len(d.args) = 1 /\ DOMAIN d.args = {1}
           /\ d.op = "between" => Len(d.args) = 2 /\ DOMAIN d.args = {1, 2}
           /\ d.args[1] \in NamesIn({d}) /\ d.args[Len(d.args)] \in NamesIn({d})
           /\ d.args[1] \in Names /\ d.args[Len(d.args)] \in Names
<1>1. d \in Directives /\ Len(d.args) = (IF d.op = "between" THEN 2 ELSE 1)
  BY DEF IsQuery
<1>2. d.args \in Seq(Names)
  BY <1>1 DEF Directives
<1>3. DOMAIN d.args = 1..Len(d.args)
  BY <1>2
<1>4. 1 \in DOMAIN d.args /\ Len(d.args) \in DOMAIN d.args
  BY <1>1, <1>3
<1>5. \A i \in DOMAIN d.args : d.args[i] \in NamesIn({d}) /\ d.args[i] \in Names
  BY <1>2, <1>3 DEF NamesIn
<1>6. d.op # "between" => Len(d.args) = 1 /\ DOMAIN d.args = {1}
  BY <1>1, <1>3
<1>7. d.op = "between" => Len(d.args) = 2 /\ DOMAIN d.args = {1, 2}
  BY <1>1, <1>3
<1> QED BY <1>1, <1>4, <1>5, <1>6, <1>7

(* A directive of a query uses names of the query.                            *)
LEMMA NamesInPart ==
    ASSUME NEW D, NEW E, D \subseteq E
    PROVE  NamesIn(D) \subseteq NamesIn(E)
BY DEF NamesIn

-----------------------------------------------------------------------------
(* Adding a pagination filter *)

Added(q, field, op) ==
    [field |-> field, op |-> op, args |-> <<NewName(DOMAIN q.parameters)>>,
     tagged |-> FALSE, pos |-> 0]

Deleted(q, field, op) == {d.args[1] : d \in Redundant(q, field, op)}

(* What the query with the new filter is made of.                             *)
LEMMA AddedFilterParts ==
    ASSUME NEW q, IsQuery(q), NEW field \in Fields, NEW op \in {"<", ">="}, NEW value \in Int
    PROVE  LET new == AddPaginationFilter(q, field, op, value)
               name == NewName(DOMAIN q.parameters)
           IN  /\ name \in Names \ DOMAIN q.parameters
               /\ new.directives = (q.directives \ Redundant(q, field, op))
                                     \cup {Added(q, field, op)}
               /\ new.elsewhere = q.elsewhere
               /\ DOMAIN new.parameters
                    = (DOMAIN q.parameters \cup {name}) \ Deleted(q, field, op)
               /\ \A n \in DOMAIN new.parameters :
                     new.parameters[n] = IF n = name THEN value ELSE q.parameters[n]
               /\ SameEstimates(new, q)
               /\ IsQuery(new)
<1> DEFINE name == NewName(DOMAIN q.parameters)
           removed == Redundant(q, field, op)
           D == (q.directives \ removed) \cup {Added(q, field, op)}
           extended == [n \in DOMAIN q.parameters \cup {name} |->
                           IF n = name THEN value ELSE q.parameters[n]]
           P == Without(extended, Deleted(q, field, op))
           new == AddPaginationFilter(q, field, op, value)
<1>1. name \in Names \ DOMAIN q.parameters
  BY NewNameIsNew DEF IsQuery
<1>2. new = Replaced(q, D, P)
  BY DEF AddPaginationFilter, Added, Deleted, Replaced
<1>3. /\ new.directives = D /\ new.parameters = P /\ new.elsewhere = q.elsewhere
      /\ SameEstimates(new, q)
      /\ new = [directives |-> new.directives, elsewhere |-> new.elsewhere,
                parameters |-> new.parameters, rest |-> new.rest,
                results_per_root |-> new.results_per_root,
                linked_estimate |-> new.linked_estimate]
  <2> HIDE DEF D, P, new
  <2> QED BY <1>2, QueryParts
<1>4. /\ DOMAIN P = (DOMAIN q.parameters \cup {name}) \ Deleted(q, field, op)
      /\ \A n \in DOMAIN P : P[n] = IF n = name THEN value ELSE q.parameters[n]
  <2> HIDE DEF name
  <2> QED BY DEF Without
<1> HIDE DEF P, new, name
<1>5. IsQuery(new)
  <2>1. Added(q, field, op) \in Directives
    <3>1. <<name>> \in Seq(Names)
      BY <1>1
    <3> QED BY <3>1 DEF Added, Directives, Operators, InequalityOperators, name
  <2>2. D \subseteq Directives /\ IsFiniteSet(D)
    <3>1. IsFiniteSet(q.directives \ removed)
      BY FS_Subset DEF IsQuery
    <3>2. IsFiniteSet(D)
      BY <3>1, FS_AddElement
    <3> QED BY <2>1, <3>2 DEF IsQuery
  <2>3. \A d \in D : ~d.tagged => Len(d.args) = (IF d.op = "between" THEN 2 ELSE 1)
    <3>1. \A d \in q.directives :
             ~d.tagged => Len(d.args) = (IF d.op = "between" THEN 2 ELSE 1)
      BY DEF IsQuery
    <3>2. Added(q, field, op).op # "between" /\ Len(Added(q, field, op).args) = 1
      BY DEF Added
    <3> QED BY <3>1, <3>2
  <2>4. IsFiniteSet(DOMAIN P)
    <3>1. IsFiniteSet(DOMAIN q.parameters \cup {name})
      BY FS_AddElement DEF IsQuery
    <3> QED BY <1>4, <3>1, FS_Subset
  <2>5. P \in [DOMAIN P -> Int] /\ DOMAIN P \subseteq Names
    <3>1. \A n \in DOMAIN P : P[n] \in Int
      BY <1>4 DEF IsQuery
    <3>2. DOMAIN P \subseteq Names
      BY <1>1, <1>4 DEF IsQuery
    <3>3. P = [n \in DOMAIN P |-> P[n]]
      BY DEF P, Without
    <3> QED BY <3>1, <3>2, <3>3
  <2>6. q.elsewhere \subseteq Names
    BY DEF IsQuery
  <2>7. /\ new.rest \in Selectivities /\ new.results_per_root \in Nat
        /\ new.linked_estimate \in Nat \cup {NoStatistics}
    BY <1>3 DEF SameEstimates, IsQuery
  <2> HIDE DEF D
  <2> QED BY <1>3, <2>2, <2>3, <2>4, <2>5, <2>6, <2>7 DEF IsQuery
<1> QED BY <1>1, <1>3, <1>4, <1>5 DEF name, new

(* A filter with no tagged argument on its field leaves no redundant filter   *)
(* with one.                                                                  *)
LEMMA RedundantFilters ==
    ASSUME NEW q, IsQuery(q), NEW field \in EligibleFields(q), NEW op \in {"<", ">="}
    PROVE  \A d \in Redundant(q, field, op) :
              /\ d \in q.directives /\ d.field = field /\ d.op = op /\ ~d.tagged
              /\ NamesIn({d}) = {d.args[1]} /\ d.args[1] \in NamesIn({d})
<1> SUFFICES ASSUME NEW d \in Redundant(q, field, op)
             PROVE  /\ d \in q.directives /\ d.field = field /\ d.op = op /\ ~d.tagged
                    /\ NamesIn({d}) = {d.args[1]} /\ d.args[1] \in NamesIn({d})
  OBVIOUS
<1>1. d \in q.directives /\ d.field = field /\ d.op = op /\ ~d.tagged
  BY DEF Redundant, FiltersOnField, EligibleFields
<1>2. DOMAIN d.args = {1}
  BY <1>1, DirectiveArguments
<1> QED BY <1>1, <1>2 DEF NamesIn

(* A filter that stays keeps its parameters.                                  *)
LEMMA KeptParameters ==
    ASSUME NEW q, IsQuery(q), Sound(q), NEW field \in EligibleFields(q), NEW op \in {"<", ">="},
           NEW d \in q.directives \ Redundant(q, field, op), NEW n \in NamesIn({d})
    PROVE  n \in DOMAIN q.parameters /\ n \notin Deleted(q, field, op)
<1>1. n \in DOMAIN q.parameters
  BY DEF Sound, Validates, ParametersUsed, NamesIn
<1>2. ASSUME NEW e \in Redundant(q, field, op), n = e.args[1] PROVE FALSE
  <2>1. e \in q.directives /\ e.op = op /\ ~e.tagged
    BY RedundantFilters
  <2>2. e.args[1] \notin NamesIn(q.directives \ {e})
    BY <2>1 DEF Sound, SharesNoParameter
  <2>3. n \in NamesIn(q.directives \ {e})
    BY DEF NamesIn
  <2> QED BY <1>2, <2>2, <2>3
<1> QED BY <1>1, <1>2 DEF Deleted

(* A filter that stays passes the same values as before.                      *)
LEMMA KeptFilters ==
    ASSUME NEW q, IsQuery(q), Sound(q), NEW field \in EligibleFields(q), NEW op \in {"<", ">="},
           NEW value \in Int, NEW d \in q.directives \ Redundant(q, field, op), NEW v
    PROVE  Passes(v, d, AddPaginationFilter(q, field, op, value).parameters)
             <=> Passes(v, d, q.parameters)
<1> DEFINE new == AddPaginationFilter(q, field, op, value)
<1>0. field \in Fields
  BY DEF EligibleFields
<1>1. CASE d.tagged
  BY <1>1 DEF Passes
<1>2. CASE ~d.tagged
  <2>1. /\ d.args[1] \in NamesIn({d})
        /\ d.args[Len(d.args)] \in NamesIn({d})
    BY <1>2, DirectiveArguments
  <2>2. \A n \in NamesIn({d}) : new.parameters[n] = q.parameters[n]
    <3> SUFFICES ASSUME NEW n \in NamesIn({d}) PROVE new.parameters[n] = q.parameters[n]
      OBVIOUS
    <3>1. n \in DOMAIN q.parameters /\ n \notin Deleted(q, field, op)
      BY KeptParameters
    <3> HIDE DEF new
    <3> QED BY <1>0, <3>1, AddedFilterParts DEF new
  <2>3. /\ new.parameters[d.args[1]] = q.parameters[d.args[1]]
        /\ new.parameters[d.args[Len(d.args)]] = q.parameters[d.args[Len(d.args)]]
    BY <2>1, <2>2
  <2> HIDE DEF new
  <2>4. Passes(v, d, new.parameters) <=> Passes(v, d, q.parameters)
    BY <2>3 DEF Passes
  <2> QED BY <2>4 DEF new
<1> QED BY <1>1, <1>2

(* The new filter compares with the value it was given.                       *)
LEMMA AddedFilter ==
    ASSUME NEW q, IsQuery(q), Sound(q), NEW field \in EligibleFields(q), NEW op \in {"<", ">="},
           NEW value \in Int, NEW v \in Int
    PROVE  Passes(v, Added(q, field, op), AddPaginationFilter(q, field, op, value).parameters)
             <=> (IF op = "<" THEN v < value ELSE v >= value)
<1> DEFINE new == AddPaginationFilter(q, field, op, value)
           name == NewName(DOMAIN q.parameters)
<1>0. field \in Fields
  BY DEF EligibleFields
<1>1. name \notin Deleted(q, field, op)
  <2>1. name \notin DOMAIN q.parameters
    BY <1>0, AddedFilterParts
  <2>2. Deleted(q, field, op) \subseteq DOMAIN q.parameters
    <3> SUFFICES ASSUME NEW d \in Redundant(q, field, op)
                 PROVE  d.args[1] \in DOMAIN q.parameters
      BY DEF Deleted
    <3>1. d \in q.directives /\ d.args[1] \in NamesIn({d})
      BY RedundantFilters
    <3> QED BY <3>1 DEF Sound, Validates, ParametersUsed, NamesIn
  <2> QED BY <2>1, <2>2
<1> HIDE DEF new
<1>2. new.parameters[name] = value
  BY <1>0, <1>1, AddedFilterParts DEF new
<1>3. /\ Added(q, field, op).args[1] = name
      /\ Added(q, field, op).op = op
      /\ ~Added(q, field, op).tagged
  BY DEF Added
<1>4. v # Null
  BY PaginationAssumption
<1> QED BY <1>2, <1>3, <1>4 DEF Passes, new

(* A row matches the query with the new filter when it passes the filters     *)
(* that stay and is on the right side of the value.                           *)
LEMMA AddedFilterMatches ==
    ASSUME NEW q, IsQuery(q), Sound(q), NEW field \in EligibleFields(q), NEW op \in {"<", ">="},
           NEW value \in Int, NEW row, row[field] \in Int
    PROVE  Matches(row, AddPaginationFilter(q, field, op, value))
             <=> /\ \A d \in q.directives \ Redundant(q, field, op) :
                       Passes(row[d.field], d, q.parameters)
                 /\ IF op = "<" THEN row[field] < value ELSE row[field] >= value
<1> DEFINE new == AddPaginationFilter(q, field, op, value)
<1>0. field \in Fields
  BY DEF EligibleFields
<1>1. \A d \in q.directives \ Redundant(q, field, op) :
         Passes(row[d.field], d, new.parameters) <=> Passes(row[d.field], d, q.parameters)
  BY KeptFilters
<1>2. Passes(row[field], Added(q, field, op), new.parameters)
        <=> (IF op = "<" THEN row[field] < value ELSE row[field] >= value)
  BY AddedFilter
<1>3. new.directives = (q.directives \ Redundant(q, field, op)) \cup {Added(q, field, op)}
  BY <1>0, AddedFilterParts
<1>4. Added(q, field, op).field = field
  BY DEF Added
<1> HIDE DEF new
<1>5. Matches(row, new)
        <=> /\ \A d \in q.directives \ Redundant(q, field, op) :
                  Passes(row[d.field], d, new.parameters)
            /\ Passes(row[field], Added(q, field, op), new.parameters)
  BY <1>3, <1>4 DEF Matches
<1> QED BY <1>1, <1>2, <1>5 DEF new

(* The new query uses exactly the parameters it comes with, and the paginator *)
(* may again replace any of its filters: a remainder can be split in turn.    *)
LEMMA AddedFilterIsSound ==
    ASSUME NEW q, IsQuery(q), Sound(q), NEW field \in EligibleFields(q), NEW op \in {"<", ">="},
           NEW value \in Int
    PROVE  Sound(AddPaginationFilter(q, field, op, value))
<1> DEFINE new == AddPaginationFilter(q, field, op, value)
           name == NewName(DOMAIN q.parameters)
           kept == q.directives \ Redundant(q, field, op)
           added == Added(q, field, op)
<1>0. field \in Fields
  BY DEF EligibleFields
<1>1. /\ new.directives = kept \cup {added}
      /\ new.elsewhere = q.elsewhere
      /\ DOMAIN new.parameters = (DOMAIN q.parameters \cup {name}) \ Deleted(q, field, op)
      /\ name \notin DOMAIN q.parameters
  BY <1>0, AddedFilterParts
<1>2. NamesIn({added}) = {name}
  BY DEF Added, NamesIn
<1>3. DOMAIN q.parameters = NamesIn(q.directives) \cup q.elsewhere
  BY DEF Sound, Validates, ParametersUsed
<1>4. /\ \A d \in q.directives \ kept : NamesIn({d}) \subseteq Deleted(q, field, op)
      /\ Deleted(q, field, op) \subseteq NamesIn(q.directives)
  <2>1. ASSUME NEW d \in Redundant(q, field, op)
        PROVE  d \in q.directives /\ NamesIn({d}) = {d.args[1]}
    <3>1. d \in q.directives /\ d.op = op /\ ~d.tagged
      BY RedundantFilters, Zenon
    <3>2. d.op # "between"
      BY <3>1
    <3>3. DOMAIN d.args = {1}
      BY <3>1, <3>2, DirectiveArguments
    <3> QED BY <3>1, <3>3 DEF NamesIn
  <2> QED BY <2>1 DEF Deleted, NamesIn
<1>5. NamesIn(kept) \cap Deleted(q, field, op) = {}
  <2> SUFFICES ASSUME NEW n \in NamesIn(kept) PROVE n \notin Deleted(q, field, op)
    OBVIOUS
  <2>1. PICK d \in kept : n \in NamesIn({d})
    BY DEF NamesIn
  <2> QED BY <2>1, KeptParameters
<1>6. q.elsewhere \cap Deleted(q, field, op) = {}
  <2> SUFFICES ASSUME NEW d \in Redundant(q, field, op) PROVE d.args[1] \notin q.elsewhere
    BY DEF Deleted
  <2>1. d \in q.directives /\ d.op = op /\ ~d.tagged
    BY RedundantFilters, Zenon
  <2> QED BY <2>1 DEF Sound, SharesNoParameter
<1>7. NamesIn(q.directives) = NamesIn(kept) \cup NamesIn(q.directives \ kept)
  BY DEF NamesIn
<1>8. NamesIn(q.directives \ kept) \subseteq Deleted(q, field, op)
  BY <1>4 DEF NamesIn
<1> HIDE DEF new, name, kept, added
<1>9. NamesIn(new.directives) = NamesIn(kept) \cup {name}
  <2>1. NamesIn(kept \cup {added}) = NamesIn(kept) \cup NamesIn({added})
    BY DEF NamesIn
  <2> QED BY <1>1, <1>2, <2>1
<1>10. Validates(new)
  <2>1. NamesIn(q.directives) \ Deleted(q, field, op) = NamesIn(kept)
    BY <1>5, <1>7, <1>8
  <2>2. name \notin Deleted(q, field, op)
    BY <1>1, <1>3, <1>4
  <2>3. DOMAIN new.parameters = NamesIn(kept) \cup q.elsewhere \cup {name}
    BY <1>1, <1>3, <1>6, <2>1, <2>2
  <2> QED BY <1>1, <1>9, <2>3 DEF Validates, ParametersUsed
<1>11. SharesNoParameter(new)
  <2> SUFFICES ASSUME NEW d \in new.directives, d.op \in {"<", ">="}, ~d.tagged
               PROVE  d.args[1] \notin NamesIn(new.directives \ {d}) \cup new.elsewhere
    BY DEF SharesNoParameter
  <2>1. CASE d = added
    <3>1. d.args[1] = name
      BY <2>1 DEF added, Added, name
    <3>2. new.directives \ {d} \subseteq kept
      BY <1>1, <2>1
    <3>3. NamesIn(new.directives \ {d}) \subseteq NamesIn(q.directives)
      BY <3>2 DEF NamesIn, kept
    <3> QED BY <1>1, <1>3, <3>1, <3>3
  <2>2. CASE d # added
    <3>1. d \in q.directives
      BY <1>1, <2>2 DEF kept
    <3>2. d.args[1] \notin NamesIn(q.directives \ {d}) \cup q.elsewhere
      BY <3>1 DEF Sound, SharesNoParameter
    <3>3. d.args[1] \in NamesIn({d})
      BY <3>1, DirectiveArguments
    <3>4. d.args[1] # name
      BY <1>1, <1>3, <3>1, <3>3 DEF NamesIn
    <3>5. NamesIn(new.directives \ {d}) \subseteq NamesIn(q.directives \ {d}) \cup {name}
      <4>1. new.directives \ {d} \subseteq (q.directives \ {d}) \cup {added}
        BY <1>1 DEF kept
      <4>2. NamesIn((q.directives \ {d}) \cup {added})
              = NamesIn(q.directives \ {d}) \cup NamesIn({added})
        BY DEF NamesIn
      <4> QED BY <1>2, <4>1, <4>2, NamesInPart
    <3> QED BY <1>1, <3>2, <3>4, <3>5
  <2> QED BY <2>1, <2>2
<1> QED BY <1>10, <1>11 DEF Sound, new

-----------------------------------------------------------------------------
(* Splitting a query *)

(* The interval of a filter holds the values that pass the filter.            *)
LEMMA DirectiveInterval ==
    ASSUME NEW q, IsQuery(q), Validates(q), NEW f \in Fields,
           NEW d \in InequalityFilters(q, f)
    PROVE  /\ IntervalOfDirective(q, d) \in Intervals
           /\ \A v \in Int : Passes(v, d, q.parameters)
                               <=> InInterval(IntervalOfDirective(q, d), v)
           /\ d.op = "<" => IntervalOfDirective(q, d).lower_bound = NoBound
                            /\ IntervalOfDirective(q, d).upper_bound \in Int
           /\ d.op = ">=" => IntervalOfDirective(q, d).lower_bound \in Int
                             /\ IntervalOfDirective(q, d).upper_bound = NoBound
<1> DEFINE a == q.parameters[d.args[1]]
           b == q.parameters[d.args[Len(d.args)]]
<1>1. d \in q.directives /\ ~d.tagged /\ d.op \in InequalityOperators
  BY DEF InequalityFilters, FiltersOnField
<1>2. d.args[1] \in NamesIn({d}) /\ d.args[Len(d.args)] \in NamesIn({d})
  BY <1>1, DirectiveArguments
<1>3. NamesIn({d}) \subseteq DOMAIN q.parameters
  BY <1>1 DEF Validates, ParametersUsed, NamesIn
<1>4. a \in Int /\ b \in Int
  BY <1>2, <1>3 DEF IsQuery
<1>5. IntervalOfDirective(q, d) = FilterInterval(d.op, a, b)
  BY DEF IntervalOfDirective
<1> HIDE DEF a, b
<1>6. IntervalOfDirective(q, d) \in Intervals
  BY <1>4, <1>5 DEF FilterInterval, Intervals, Bounds
<1>7. ASSUME NEW v \in Int
      PROVE  Passes(v, d, q.parameters) <=> InInterval(IntervalOfDirective(q, d), v)
  <2>1. v # Null
    BY PaginationAssumption
  <2>2. Passes(v, d, q.parameters)
          <=> CASE d.op = "<"       -> v < a
                [] d.op = "<="      -> v <= a
                [] d.op = ">"       -> v > a
                [] d.op = ">="      -> v >= a
                [] d.op = "between" -> a <= v /\ v <= b
                [] OTHER            -> v = a
    BY <1>1, <2>1, Zenon DEF Passes, a, b
  <2>3. d.op = "<" => (Passes(v, d, q.parameters) <=> InInterval(FilterInterval(d.op, a, b), v))
    BY <1>4, <2>2, NoBoundAssumption DEF InInterval, FilterInterval
  <2>4. d.op = "<=" => (Passes(v, d, q.parameters) <=> InInterval(FilterInterval(d.op, a, b), v))
    BY <1>4, <2>2, NoBoundAssumption DEF InInterval, FilterInterval
  <2>5. d.op = ">" => (Passes(v, d, q.parameters) <=> InInterval(FilterInterval(d.op, a, b), v))
    BY <1>4, <2>2, NoBoundAssumption DEF InInterval, FilterInterval
  <2>6. d.op = ">=" => (Passes(v, d, q.parameters) <=> InInterval(FilterInterval(d.op, a, b), v))
    BY <1>4, <2>2, NoBoundAssumption DEF InInterval, FilterInterval
  <2>7. d.op = "between" => (Passes(v, d, q.parameters) <=> InInterval(FilterInterval(d.op, a, b), v))
    BY <1>4, <2>2, NoBoundAssumption DEF InInterval, FilterInterval
  <2> QED BY <1>1, <1>5, <2>3, <2>4, <2>5, <2>6, <2>7 DEF InequalityOperators
<1>8. /\ d.op = "<" => IntervalOfDirective(q, d).lower_bound = NoBound
                       /\ IntervalOfDirective(q, d).upper_bound \in Int
      /\ d.op = ">=" => IntervalOfDirective(q, d).lower_bound \in Int
                        /\ IntervalOfDirective(q, d).upper_bound = NoBound
  BY <1>4, <1>5 DEF FilterInterval
<1> QED BY <1>6, <1>7, <1>8

(* Each bound of the interval of a query on a field is the strongest one, and *)
(* one filter gives it.                                                       *)
LEMMA IntegerIntervalBounds ==
    ASSUME NEW q, IsQuery(q), Validates(q), NEW f \in Fields
    PROVE  LET I == IntegerInterval(q, f)
               i(d) == IntervalOfDirective(q, d)
           IN  /\ I \in Intervals
               /\ \A d \in InequalityFilters(q, f) :
                     /\ i(d).lower_bound # NoBound =>
                           I.lower_bound # NoBound /\ i(d).lower_bound <= I.lower_bound
                     /\ i(d).upper_bound # NoBound =>
                           I.upper_bound # NoBound /\ I.upper_bound <= i(d).upper_bound
               /\ I.lower_bound # NoBound =>
                     \E d \in InequalityFilters(q, f) : i(d).lower_bound = I.lower_bound
               /\ I.upper_bound # NoBound =>
                     \E d \in InequalityFilters(q, f) : i(d).upper_bound = I.upper_bound
<1> DEFINE F == InequalityFilters(q, f)
           S == {IntervalOfDirective(q, d) : d \in F}
<1>1. S \in SUBSET Intervals
  BY DirectiveInterval
<1>2. IsFiniteSet(S)
  <2>1. IsFiniteSet(F)
    <3>1. F \in SUBSET q.directives
      BY DEF InequalityFilters, FiltersOnField
    <3> QED BY <3>1, FS_Subset DEF IsQuery
  <2>2. [d \in F |-> IntervalOfDirective(q, d)] \in Surjection(F, S)
    BY DEF Surjection
  <2> HIDE DEF F, S
  <2> QED BY <2>1, <2>2, FS_Surjection
<1>3. IntegerInterval(q, f) = IntersectAll(S)
  BY DEF IntegerInterval
<1>4. /\ IntersectAll(S) \in Intervals
      /\ \A i \in S : i.lower_bound # NoBound =>
            IntersectAll(S).lower_bound # NoBound /\ i.lower_bound <= IntersectAll(S).lower_bound
      /\ \A i \in S : i.upper_bound # NoBound =>
            IntersectAll(S).upper_bound # NoBound /\ IntersectAll(S).upper_bound <= i.upper_bound
      /\ IntersectAll(S).lower_bound # NoBound =>
            \E i \in S : i.lower_bound = IntersectAll(S).lower_bound
      /\ IntersectAll(S).upper_bound # NoBound =>
            \E i \in S : i.upper_bound = IntersectAll(S).upper_bound
  <2> HIDE DEF S
  <2> QED BY <1>1, <1>2, IntersectAllBounds
<1> QED BY <1>3, <1>4

(* The parameter of a split: not below the interval of the query, and not     *)
(* above it unless the interval is empty and the parameter its lower bound.   *)
Fits(q, f, p) ==
    LET I == IntegerInterval(q, f)
    IN  /\ I.lower_bound # NoBound => I.lower_bound <= p
        /\ I.upper_bound # NoBound => p <= I.upper_bound \/ I.lower_bound = p

(* ... and one that leaves something on both sides.                           *)
FitsStrictly(q, f, p) ==
    LET I == IntegerInterval(q, f)
    IN  /\ I.lower_bound # NoBound => I.lower_bound < p
        /\ I.upper_bound # NoBound => p <= I.upper_bound

(* The filters a new filter replaces are implied by it and by the filters     *)
(* that stay, so the new query has the rows of the old one on its side of the *)
(* parameter.                                                                 *)
LEMMA ReplacedFilters ==
    ASSUME NEW q, IsQuery(q), Validates(q), NEW f \in EligibleFields(q), NEW p \in Int,
           Fits(q, f, p), NEW row, row[f] \in Int, NEW op \in {"<", ">="},
           IF op = "<" THEN row[f] < p ELSE row[f] >= p
    PROVE  (\A d \in q.directives \ Redundant(q, f, op) : Passes(row[d.field], d, q.parameters))
             <=> Matches(row, q)
<1> DEFINE I == IntegerInterval(q, f)
           i(d) == IntervalOfDirective(q, d)
           F == InequalityFilters(q, f)
<1>0. f \in Fields
  BY DEF EligibleFields
<1>1. /\ I \in Intervals
      /\ \A d \in F :
            /\ i(d).lower_bound # NoBound =>
                  I.lower_bound # NoBound /\ i(d).lower_bound <= I.lower_bound
            /\ i(d).upper_bound # NoBound =>
                  I.upper_bound # NoBound /\ I.upper_bound <= i(d).upper_bound
      /\ I.lower_bound # NoBound => \E d \in F : i(d).lower_bound = I.lower_bound
  BY <1>0, IntegerIntervalBounds
<1>2. \A d \in F :
         /\ d \in q.directives /\ d.field = f
         /\ i(d) \in Intervals
         /\ Passes(row[f], d, q.parameters) <=> InInterval(i(d), row[f])
         /\ d.op = "<" => i(d).lower_bound = NoBound /\ i(d).upper_bound \in Int
         /\ d.op = ">=" => i(d).lower_bound \in Int /\ i(d).upper_bound = NoBound
  <2>1. \A d \in F : d \in q.directives /\ d.field = f
    BY DEF InequalityFilters, FiltersOnField
  <2> QED BY <1>0, <2>1, DirectiveInterval
<1>3. Redundant(q, f, op) \subseteq F /\ \A d \in Redundant(q, f, op) : d.op = op
  BY DEF Redundant, InequalityFilters, InequalityOperators, EligibleFields, FiltersOnField
<1>4. Fits(q, f, p) <=> /\ I.lower_bound # NoBound => I.lower_bound <= p
                        /\ I.upper_bound # NoBound => p <= I.upper_bound \/ I.lower_bound = p
  BY DEF Fits
<1> HIDE DEF I, i, F
<1>5. ASSUME \A d \in q.directives \ Redundant(q, f, op) : Passes(row[d.field], d, q.parameters),
             NEW d \in Redundant(q, f, op)
      PROVE  Passes(row[f], d, q.parameters)
  <2>1. d \in F /\ d.op = op
    BY <1>3
  <2>2. CASE op = ">="
    <3>1. /\ i(d).upper_bound = NoBound /\ i(d).lower_bound \in Int
          /\ i(d).lower_bound <= I.lower_bound /\ I.lower_bound # NoBound
      BY <1>1, <1>2, <2>1, <2>2, NoBoundAssumption
    <3>2. I.lower_bound <= p /\ I.lower_bound \in Int
      BY <1>1, <1>4, <3>1 DEF Intervals, Bounds
    <3>3. i(d).lower_bound <= row[f]
      BY <2>2, <3>1, <3>2
    <3> QED BY <1>2, <2>1, <3>1, <3>3 DEF InInterval
  <2>3. CASE op = "<"
    <3>1. /\ i(d).lower_bound = NoBound /\ i(d).upper_bound \in Int
          /\ I.upper_bound <= i(d).upper_bound /\ I.upper_bound # NoBound
      BY <1>1, <1>2, <2>1, <2>3, NoBoundAssumption
    <3>2. I.upper_bound \in Int
      BY <1>1, <3>1 DEF Intervals, Bounds
    <3>3. I.lower_bound # p
      <4> SUFFICES ASSUME I.lower_bound = p PROVE FALSE
        OBVIOUS
      <4>1. PICK e \in F : i(e).lower_bound = p
        BY <1>1, NoBoundAssumption
      <4>2. e \notin Redundant(q, f, op)
        BY <1>2, <1>3, <2>3, <4>1, NoBoundAssumption
      <4>3. Passes(row[f], e, q.parameters)
        BY <1>2, <1>5, <4>1, <4>2
      <4>4. p <= row[f]
        BY <1>2, <4>1, <4>3, NoBoundAssumption DEF InInterval
      <4> QED BY <2>3, <4>4
    <3>4. p <= I.upper_bound
      BY <1>4, <3>1, <3>3
    <3>5. row[f] <= i(d).upper_bound
      BY <2>3, <3>1, <3>2, <3>4
    <3> QED BY <1>2, <2>1, <3>1, <3>5 DEF InInterval
  <2> QED BY <2>2, <2>3
<1>6. \A d \in Redundant(q, f, op) : d.field = f
  BY <1>2, <1>3
<1> QED BY <1>5, <1>6 DEF Matches

(* A row with a value in the pagination field is in the page if the query     *)
(* returns it and its value is below the parameter, and in the remainder if   *)
(* the query returns it and its value is not.                                 *)
THEOREM SplitIsPartition ==
    ASSUME NEW q, IsQuery(q), Sound(q), NEW f \in EligibleFields(q), NEW p \in Int,
           Fits(q, f, p), NEW row, row[f] \in Int
    PROVE  /\ Matches(row, AddPaginationFilter(q, f, "<", p))
                <=> Matches(row, q) /\ row[f] < p
           /\ Matches(row, AddPaginationFilter(q, f, ">=", p))
                <=> Matches(row, q) /\ row[f] >= p
<1>1. Validates(q)
  BY DEF Sound
<1>2. ASSUME NEW op \in {"<", ">="}
      PROVE  Matches(row, AddPaginationFilter(q, f, op, p))
               <=> /\ Matches(row, q)
                   /\ IF op = "<" THEN row[f] < p ELSE row[f] >= p
  <2>1. Matches(row, AddPaginationFilter(q, f, op, p))
          <=> /\ \A d \in q.directives \ Redundant(q, f, op) :
                    Passes(row[d.field], d, q.parameters)
              /\ IF op = "<" THEN row[f] < p ELSE row[f] >= p
    BY AddedFilterMatches
  <2>2. (IF op = "<" THEN row[f] < p ELSE row[f] >= p) =>
          ((\A d \in q.directives \ Redundant(q, f, op) : Passes(row[d.field], d, q.parameters))
             <=> Matches(row, q))
    BY <1>1, ReplacedFilters
  <2> QED BY <2>1, <2>2
<1> QED BY <1>2

-----------------------------------------------------------------------------
(* Generating the parameter *)

(* A field without filters has the unbounded interval, which can always be    *)
(* written as values of the field.                                            *)
LEMMA Convertible ==
    ASSUME NEW q, NEW f \in Fields, f \in FilteredFields(q) => ConvertibleInterval(q, f)
    PROVE  ConvertibleInterval(q, f)
<1>1. CASE f \in FilteredFields(q)
  BY <1>1
<1>2. CASE f \notin FilteredFields(q)
  <2>1. InequalityFilters(q, f) = {}
    BY <1>2 DEF FilteredFields, InequalityFilters
  <2>2. IntegerInterval(q, f) = IntersectAll({})
    BY <2>1 DEF IntegerInterval
  <2>3. IntersectAll({}) = [lower_bound |-> NoBound, upper_bound |-> NoBound]
    BY DEF IntersectAll
  <2> QED BY <2>2, <2>3 DEF ConvertibleInterval
<1> QED BY <1>1, <1>2

(* A quantity is cut in at most as many parts as it is large into parts of at *)
(* least one.                                                                 *)
LEMMA WholePart ==
    ASSUME NEW m \in Nat, NEW n \in Nat \ {0}, n <= m
    PROVE  1 <= m \div n
BY SMT

(* The interval of the values of a uuid field that pass the filters on it.    *)
UuidInterval(q, f) == IntersectIntIntervals(IntegerInterval(q, f), UuidUniverse)

(* The first parameter for a uuid field: a uuid, and above the interval's     *)
(* lower bound when there are no more splits than values.                     *)
LEMMA UuidParameterFits ==
    ASSUME NEW q, IsQuery(q), Validates(q), NEW f \in Uuid4Fields, ConvertibleInterval(q, f),
           NEW n \in Nat, n >= 2
    PROVE  LET p == UuidParameter(q, f, n, 1)
           IN  /\ p \in 0..MaxUuid
               /\ Fits(q, f, p)
               /\ n <= MeasureIntInterval(UuidInterval(q, f)) => FitsStrictly(q, f, p)
<1> DEFINE I == IntegerInterval(q, f)
           J == IntersectIntIntervals(I, UuidUniverse)
           M == MeasureIntInterval(J)
           p == UuidParameter(q, f, n, 1)
<1>0. f \in Fields /\ MaxUuid \in Nat
  BY FieldsAssumption
<1>1. I.lower_bound \in Bounds /\ I.upper_bound \in Bounds
  BY <1>0, IntegerIntervalBounds DEF Intervals
<1>2. {I.lower_bound, I.upper_bound} \ {NoBound} \subseteq 0..MaxUuid
  BY DEF ConvertibleInterval
<1>3. Fits(q, f, p) <=> /\ I.lower_bound # NoBound => I.lower_bound <= p
                        /\ I.upper_bound # NoBound => p <= I.upper_bound \/ I.lower_bound = p
  BY DEF Fits
<1>3a. FitsStrictly(q, f, p) <=> /\ I.lower_bound # NoBound => I.lower_bound < p
                                 /\ I.upper_bound # NoBound => p <= I.upper_bound
  BY DEF FitsStrictly
<1>3b. MeasureIntInterval(UuidInterval(q, f)) = M
  BY DEF UuidInterval
<1>4. p = J.lower_bound + (M * 1) \div n
  BY DEF UuidParameter
<1> HIDE DEF I, p
<1>5. /\ J.lower_bound = IF I.lower_bound = NoBound THEN 0 ELSE I.lower_bound
      /\ J.upper_bound = IF I.upper_bound = NoBound THEN MaxUuid ELSE I.upper_bound
      /\ J.lower_bound \in 0..MaxUuid /\ J.upper_bound \in 0..MaxUuid
  <2>1. /\ J.lower_bound = StrongerLowerBound(I.lower_bound, 0)
        /\ J.upper_bound = StrongerUpperBound(I.upper_bound, MaxUuid)
    BY DEF IntersectIntIntervals, UuidUniverse
  <2>2. 0 # NoBound /\ MaxUuid # NoBound
    BY <1>0, NoBoundAssumption
  <2>3. StrongerLowerBound(I.lower_bound, 0) = IF I.lower_bound = NoBound THEN 0 ELSE I.lower_bound
    BY <1>0, <1>2, <2>2 DEF StrongerLowerBound
  <2>4. StrongerUpperBound(I.upper_bound, MaxUuid)
          = IF I.upper_bound = NoBound THEN MaxUuid ELSE I.upper_bound
    BY <1>0, <1>2, <2>2 DEF StrongerUpperBound
  <2> QED BY <1>0, <1>2, <2>1, <2>3, <2>4
<1>6. M = IF J.lower_bound > J.upper_bound THEN 0 ELSE J.upper_bound - J.lower_bound + 1
  BY <1>5, NoBoundAssumption DEF MeasureIntInterval, IsEmpty
<1> HIDE DEF J, M
<1>7. M \in Nat
  BY <1>0, <1>5, <1>6
<1>8. PICK k \in Nat : k = M \div n /\ 2 * k <= M
  BY <1>7, PartOf
<1>9. p = J.lower_bound + k
  BY <1>4, <1>7, <1>8
<1>10. /\ p \in Int /\ J.lower_bound <= p
       /\ p <= J.upper_bound \/ (J.lower_bound > J.upper_bound /\ p = J.lower_bound)
  BY <1>0, <1>5, <1>6, <1>8, <1>9
<1>11. p \in 0..MaxUuid
  BY <1>0, <1>5, <1>10
<1>12. n <= M => J.lower_bound < p /\ p <= J.upper_bound
  <2> SUFFICES ASSUME n <= M PROVE J.lower_bound < p /\ p <= J.upper_bound
    OBVIOUS
  <2>1. 1 <= k
    <3>1. n \in Nat \ {0}
      OBVIOUS
    <3> QED BY <1>7, <1>8, <3>1, WholePart
  <2>2. M > 0
    BY <1>7
  <2>3. J.upper_bound = J.lower_bound + M - 1
    BY <1>0, <1>5, <1>6, <2>2
  <2> QED BY <1>0, <1>5, <1>7, <1>8, <1>9, <2>1, <2>3
<1>13. Fits(q, f, p)
  BY <1>0, <1>3, <1>5, <1>10
<1>14. n <= M => FitsStrictly(q, f, p)
  BY <1>0, <1>3a, <1>5, <1>12
<1> QED BY <1>3b, <1>11, <1>13, <1>14 DEF p

(* The first parameter for a field with quantiles.                            *)
LEMMA QuantileParameterFits ==
    ASSUME NEW q, IsQuery(q), Validates(q), NEW f \in Fields, NEW quantiles \in Seq(Int),
           Ascending(quantiles), Len(quantiles) >= 2, NEW n \in Nat, n >= 2,
           SplitValues(RelevantQuantiles(quantiles, IntegerInterval(q, f)), n) # <<>>
    PROVE  LET p == SplitValues(RelevantQuantiles(quantiles, IntegerInterval(q, f)), n)[1]
           IN  p \in Int /\ Fits(q, f, p) /\ FitsStrictly(q, f, p)
<1> DEFINE I == IntegerInterval(q, f)
           relevant == RelevantQuantiles(quantiles, I)
           values == SplitValues(relevant, n)
<1>1. I \in Intervals
  BY IntegerIntervalBounds
<1>2. relevant \in Seq(Int)
  <2> HIDE DEF I
  <2> QED BY <1>1, RelevantQuantilesInside
<1>3. 1 \in 1..Len(values)
  <2>1. CASE n >= Len(relevant) + 1
    <3>1. values = relevant
      BY <2>1 DEF SplitValues
    <3> HIDE DEF relevant, values
    <3>2. Len(relevant) \in Nat /\ (Len(relevant) = 0 => relevant = <<>>)
      BY <1>2, EmptySeq, LenProperties
    <3>3. values # <<>>
      BY DEF values, relevant
    <3> QED BY <3>1, <3>2, <3>3
  <2>2. CASE ~(n >= Len(relevant) + 1)
    <3>1. values = [j \in 1..(n - 1) |-> relevant[SplitIndex(Len(relevant) + 1, n, j)]]
      BY <2>2 DEF SplitValues
    <3> HIDE DEF relevant, values
    <3>2. Len(values) = n - 1
      BY <3>1
    <3> QED BY <3>2
  <2> QED BY <2>1, <2>2
<1>4. /\ values[1] \in Int
      /\ I.lower_bound # NoBound => I.lower_bound < values[1]
      /\ I.upper_bound # NoBound => values[1] < I.upper_bound
  <2>1. 1 \in 1..Len(SplitValues(RelevantQuantiles(quantiles, I), n)) /\ n >= 1
    BY <1>3
  <2> HIDE DEF I
  <2>2. LET v == SplitValues(RelevantQuantiles(quantiles, I), n)[1]
        IN  /\ v \in Int
            /\ I.lower_bound # NoBound => I.lower_bound < v
            /\ I.upper_bound # NoBound => v < I.upper_bound
    BY <1>1, <2>1, BoundariesInside
  <2> QED BY <2>2
<1>5. I.lower_bound \in Bounds /\ I.upper_bound \in Bounds
  BY <1>1 DEF Intervals
<1> HIDE DEF values
<1>6. Fits(q, f, values[1]) /\ FitsStrictly(q, f, values[1])
  BY <1>4, <1>5 DEF Fits, FitsStrictly, Bounds
<1> QED BY <1>4, <1>6 DEF values

(* The parameter a call cuts its query at, whatever the statistics say.       *)
THEOREM GeneratedParameterFits ==
    ASSUME NEW info \in SchemaInfos, NEW q, IsQuery(q), Validates(q),
           NEW f \in Fields, f \in FilteredFields(q) => ConvertibleInterval(q, f),
           NEW n \in Nat \ {0, 1}, EnoughQuantiles(info, f, n),
           GeneratedParameters(info, q, f, n) # <<>>
    PROVE  LET p == GeneratedParameters(info, q, f, n)[1]
           IN  /\ p \in Int /\ Fits(q, f, p)
               /\ f \in Uuid4Fields => p \in 0..MaxUuid
               /\ f \notin Uuid4Fields
                     \/ n <= MeasureIntInterval(UuidInterval(q, f)) => FitsStrictly(q, f, p)
<1>0. n \in Nat /\ n >= 2
  OBVIOUS
<1>1. CASE f \in Uuid4Fields
  <2>1. GeneratedParameters(info, q, f, n)[1] = UuidParameter(q, f, n, 1)
    BY <1>0, <1>1 DEF GeneratedParameters
  <2>2. ConvertibleInterval(q, f)
    BY Convertible
  <2>3. /\ UuidParameter(q, f, n, 1) \in 0..MaxUuid
        /\ Fits(q, f, UuidParameter(q, f, n, 1))
        /\ n <= MeasureIntInterval(UuidInterval(q, f)) =>
              FitsStrictly(q, f, UuidParameter(q, f, n, 1))
    BY <1>0, <1>1, <2>2, UuidParameterFits
  <2> QED BY <1>1, <2>1, <2>3
<1>2. CASE f \notin Uuid4Fields
  <2>1. GeneratedParameters(info, q, f, n)
          = SplitValues(RelevantQuantiles(info.quantiles[f], IntegerInterval(q, f)), n)
    BY <1>2 DEF GeneratedParameters
  <2>2. info.quantiles[f] \in Seq(Int) /\ Ascending(info.quantiles[f])
    BY <1>2, PaginationAssumption DEF EnoughQuantiles
  <2>3. Len(info.quantiles[f]) \in Nat /\ Len(info.quantiles[f]) > n
    BY <1>2, <2>2, LenProperties DEF EnoughQuantiles
  <2>4. Len(info.quantiles[f]) >= 2
    BY <1>0, <2>3
  <2>5. /\ GeneratedParameters(info, q, f, n)[1] \in Int
        /\ Fits(q, f, GeneratedParameters(info, q, f, n)[1])
        /\ FitsStrictly(q, f, GeneratedParameters(info, q, f, n)[1])
    BY <1>0, <2>1, <2>2, <2>4, QuantileParameterFits
  <2> QED BY <1>2, <2>5
<1> QED BY <1>1, <1>2

-----------------------------------------------------------------------------
(* The invariant of a call *)

(* Between planning and splitting, the call holds on to what the plan was     *)
(* made from: a query that validates, a field whose filters all have values,  *)
(* and a parameter that fits the interval.  Without it the type of the        *)
(* parameter is not inductive.                                                *)
Planned ==
    /\ pc \in {"plan", "generate", "parameterize"} => Validates(query)
    /\ pc \in {"generate", "parameterize"} =>
          /\ plan.pagination_field \in EligibleFields(query)
          /\ plan.number_of_splits \in Nat \ {0, 1}
          /\ \A f \in FilteredFields(query) : ConvertibleInterval(query, f)
    /\ pc = "parameterize" => Fits(query, plan.pagination_field, parameter)

CallInv == TypeOK /\ Planned

LEMMA CallInit == Init => CallInv
<1> SUFFICES ASSUME Init PROVE CallInv
  OBVIOUS
<1>1. TypeOK
  <2>1. /\ schema_info \in SchemaInfos /\ IsQuery(whole) /\ query = whole /\ page = whole
        /\ table \in [Rows -> [Fields -> AllValues]]
        /\ \A r \in Rows, f \in Fields : table[r][f] \in FieldValues[f]
    BY PaginationAssumption DEF Init
  <2> QED BY <2>1 DEF Init, TypeOK
<1>2. Planned
  BY DEF Init, Planned
<1> QED BY <1>1, <1>2 DEF CallInv

LEMMA CallNext == CallInv /\ [Next]_vars => CallInv'
<1> SUFFICES ASSUME CallInv, [Next]_vars PROVE CallInv'
  OBVIOUS
<1> USE DEF CallInv, environment, local, result
<1>1. ASSUME NEW e, Raise(e) PROVE CallInv'
  BY <1>1 DEF Raise, TypeOK, Planned
<1>2. ASSUME NEW a, ReturnWhole(a) PROVE CallInv'
  BY <1>2 DEF ReturnWhole, TypeOK, Planned
<1>3. CASE RejectArguments \/ RejectInterval \/ RejectPartition \/ RejectDeletion \/ RejectPage
  BY <1>1, <1>3 DEF RejectArguments, RejectInterval, RejectPartition, RejectDeletion, RejectPage
<1>4. CASE ReturnWithoutCounts \/ PlanWithoutKeys \/ PlanWithoutCapacity \/ PlanOnePage
             \/ GenerateNothing
  BY <1>2, <1>4 DEF ReturnWithoutCounts, PlanWithoutKeys, PlanWithoutCapacity, PlanOnePage,
                    GenerateNothing
<1>5. CASE EstimateNumberOfPages
  <2>1. CASE num_pages' > 1
    BY <1>5, <2>1 DEF EstimateNumberOfPages, TypeOK, Planned
  <2>2. CASE ~(num_pages' > 1)
    BY <1>2, <1>5, <2>2 DEF EstimateNumberOfPages
  <2> QED BY <2>1, <2>2
<1>6. CASE PlanVertexPartition
  <2>1. PaginationField(schema_info, query) \in EligibleFields(query)
    BY <1>6 DEF PlanVertexPartition, Capacity, PaginationCapacity
  <2>2. plan'.pagination_field \in EligibleFields(query)
        /\ plan'.number_of_splits \in Nat \ {0, 1}
    BY <1>6, <2>1 DEF PlanVertexPartition, WorthSplitting
  <2>3. TypeOK'
    BY <1>6, <2>2 DEF PlanVertexPartition, TypeOK, EligibleFields
  <2>4. Planned'
    BY <1>6, <2>2 DEF PlanVertexPartition, Planned
  <2> QED BY <2>3, <2>4
<1>7. CASE GenerateParameter
  <2> DEFINE values == GeneratedParameters(schema_info, query, plan.pagination_field,
                                           plan.number_of_splits)
  <2>1. /\ EnoughQuantiles(schema_info, plan.pagination_field, plan.number_of_splits)
        /\ values # <<>> /\ parameter' = values[1] /\ pc = "generate" /\ pc' = "parameterize"
        /\ UNCHANGED <<environment, whole, query, num_pages, plan, result, error, fetched>>
    BY <1>7 DEF GenerateParameter
  <2>2. /\ schema_info \in SchemaInfos /\ IsQuery(query) /\ Validates(query)
        /\ plan.pagination_field \in EligibleFields(query)
        /\ plan.number_of_splits \in Nat \ {0, 1}
        /\ \A f \in FilteredFields(query) : ConvertibleInterval(query, f)
    BY <2>1 DEF TypeOK, Planned
  <2>3. plan.pagination_field \in Fields
    BY <2>2 DEF EligibleFields
  <2>4. values[1] \in Int /\ Fits(query, plan.pagination_field, values[1])
    BY <2>1, <2>2, <2>3, GeneratedParameterFits
  <2> HIDE DEF values
  <2>5. TypeOK'
    BY <2>1, <2>4 DEF TypeOK
  <2>6. Planned'
    BY <2>1, <2>2, <2>4 DEF Planned
  <2> QED BY <2>5, <2>6
<1>8. CASE GenerateParameterizedQueries
  <2> DEFINE below == AddPaginationFilter(query, plan.pagination_field, "<", parameter)
             from == AddPaginationFilter(query, plan.pagination_field, ">=", parameter)
  <2>1. /\ pc = "parameterize" /\ pc' = "returned" /\ page' = below /\ remainder' = <<from>>
        /\ UNCHANGED <<environment, whole, query, local, advisories, error, fetched>>
    BY <1>8 DEF GenerateParameterizedQueries
  <2>2. IsQuery(query) /\ plan.pagination_field \in Fields /\ parameter \in Int
    BY <2>1 DEF TypeOK, Planned, EligibleFields
  <2>3. IsQuery(below) /\ IsQuery(from)
    BY <2>2, AddedFilterParts
  <2> HIDE DEF below, from
  <2>4. Len(remainder') = 1 /\ remainder'[1] = from
    BY <2>1
  <2>5. TypeOK'
    BY <2>1, <2>3, <2>4 DEF TypeOK
  <2>6. Planned'
    BY <2>1 DEF Planned
  <2> QED BY <2>5, <2>6
<1>9. CASE ExecutePage
  <2>1. fetched' \in [Rows -> Nat]
    BY <1>9 DEF ExecutePage, TypeOK
  <2>2. IsQuery(query')
    BY <1>9 DEF ExecutePage, TypeOK
  <2> QED BY <1>9, <2>1, <2>2 DEF ExecutePage, TypeOK, Planned
<1>10. ASSUME NEW r \in MutableRows, UpdateRow(r) PROVE CallInv'
  <2>1. PICK f \in Fields, v \in AllValues :
           v \in FieldValues[f] /\ table' = [table EXCEPT ![r][f] = v]
    BY <1>10 DEF UpdateRow, AllValues
  <2>2. r \in Rows
    BY PaginationAssumption
  <2>3. table' \in [Rows -> [Fields -> AllValues]]
    BY <2>1, <2>2 DEF TypeOK
  <2>4. ASSUME NEW s \in Rows, NEW g \in Fields PROVE table'[s][g] \in FieldValues[g]
    BY <2>1, <2>2 DEF TypeOK
  <2> QED BY <1>10, <2>3, <2>4 DEF UpdateRow, TypeOK, Planned
<1>11. CASE RefreshStatistics
  BY <1>11 DEF RefreshStatistics, TypeOK, Planned
<1>12. CASE UNCHANGED vars
  BY <1>12 DEF vars, TypeOK, Planned
<1> QED
  BY <1>3, <1>4, <1>5, <1>6, <1>7, <1>8, <1>9, <1>10, <1>11, <1>12 DEF Next, Paginate, Client

(* What the variables hold.                                                   *)
THEOREM CallInvariant == Spec => []CallInv
BY CallInit, CallNext, PTL DEF Spec

THEOREM TypeCorrect == Spec => []TypeOK
<1>1. CallInv => TypeOK
  BY DEF CallInv
<1> QED BY <1>1, CallInvariant, PTL

-----------------------------------------------------------------------------
(* No result is lost or repeated *)

(* From a sound query the paginator only makes sound ones.                    *)
Tracked ==
    /\ Sound(whole) =>
          /\ Sound(query)
          /\ pc = "returned" =>
                Sound(page) /\ (remainder # <<>> => Sound(remainder[1]))
    /\ ExactlyOnce

LEMMA TrackedInit == Init => Tracked
<1> SUFFICES ASSUME Init PROVE Tracked
  OBVIOUS
<1>1. ASSUME NEW r \in Rows PROVE fetched[r] + Outstanding(r) = Count(Matches(table[r], whole))
  BY DEF Init, Outstanding, Count
<1>2. ExactlyOnce
  BY <1>1 DEF ExactlyOnce, StableRows
<1>3. query = whole /\ pc # "returned"
  BY DEF Init
<1> QED BY <1>2, <1>3 DEF Tracked

(* A stable row stays stable only if the step does not update it.             *)
LEMMA StableStep ==
    ASSUME CallInv, [Next]_vars, NEW r \in StableRows'
    PROVE  /\ r \in StableRows /\ table'[r] = table[r] /\ whole' = whole
           /\ \A f \in Fields : table[r][f] \in Int
<1> USE DEF environment, local, result
<1>1. r \in Rows /\ r \notin touched'
  BY DEF StableRows
<1>2. whole' = whole
  BY DEF Next, vars, Paginate, Client, RejectArguments, ReturnWithoutCounts,
     EstimateNumberOfPages, PlanWithoutKeys, RejectInterval, PlanWithoutCapacity, PlanOnePage,
     PlanVertexPartition, RejectPartition, GenerateNothing, GenerateParameter, RejectDeletion,
     GenerateParameterizedQueries, RejectPage, ExecutePage, UpdateRow, RefreshStatistics,
     Raise, ReturnWhole
<1>3. r \notin touched /\ table'[r] = table[r]
  <2>1. ASSUME NEW s \in MutableRows, UpdateRow(s)
        PROVE  r \notin touched /\ table'[r] = table[r]
    BY <1>1, <2>1 DEF UpdateRow, CallInv, TypeOK
  <2>2. ASSUME ~(\E s \in MutableRows : UpdateRow(s))
        PROVE  touched' = touched /\ table' = table
    BY <2>2 DEF Next, vars, Paginate, Client, RejectArguments, ReturnWithoutCounts,
       EstimateNumberOfPages, PlanWithoutKeys, RejectInterval, PlanWithoutCapacity, PlanOnePage,
       PlanVertexPartition, RejectPartition, GenerateNothing, GenerateParameter,
       RejectDeletion, GenerateParameterizedQueries, RejectPage, ExecutePage,
       RefreshStatistics, Raise, ReturnWhole
  <2> QED BY <1>1, <2>1, <2>2
<1>4. \A f \in Fields : table'[r][f] # Null
  BY DEF StableRows
<1>5. \A f \in Fields : table[r][f] \in Int
  BY <1>1, <1>3, <1>4, PaginationAssumption DEF CallInv, TypeOK
<1> QED BY <1>1, <1>2, <1>3, <1>4, <1>5 DEF StableRows

(* A step that keeps the query and the outcome of a row keeps its count.      *)
LEMMA TrackedNext == CallInv /\ Tracked /\ [Next]_vars => Tracked'
<1> SUFFICES ASSUME CallInv, Tracked, [Next]_vars PROVE Tracked'
  OBVIOUS
<1> USE DEF environment, local, result
<1> DEFINE Kept ==
      Sound(whole') =>
        /\ Sound(query')
        /\ pc' = "returned" => Sound(page') /\ (remainder' # <<>> => Sound(remainder'[1]))
    Balanced(r) == fetched'[r] + Outstanding(r)' = fetched[r] + Outstanding(r)
<1>0. whole' = whole
  BY DEF Next, vars, Paginate, Client, RejectArguments, ReturnWithoutCounts,
     EstimateNumberOfPages, PlanWithoutKeys, RejectInterval, PlanWithoutCapacity, PlanOnePage,
     PlanVertexPartition, RejectPartition, GenerateNothing, GenerateParameter, RejectDeletion,
     GenerateParameterizedQueries, RejectPage, ExecutePage, UpdateRow, RefreshStatistics,
     Raise, ReturnWhole
<1>1. SUFFICES /\ Kept
               /\ Sound(whole) /\ pc' # "raised" =>
                     pc # "raised" /\ \A r \in StableRows' : Balanced(r)
  BY <1>0, StableStep DEF Tracked, ExactlyOnce
<1>2. ASSUME NEW r \in StableRows'
      PROVE  /\ r \in Rows /\ r \in StableRows /\ table'[r] = table[r]
             /\ fetched[r] \in Nat
             /\ \A f \in Fields : table[r][f] \in Int
  BY StableStep DEF StableRows, CallInv, TypeOK
<1> DEFINE Goal == Kept /\ (Sound(whole) /\ pc' # "raised" =>
                               pc # "raised" /\ \A r \in StableRows' : Balanced(r))
<1>3. ASSUME NEW e, Raise(e) PROVE Goal
  BY <1>0, <1>3 DEF Raise, Tracked
<1>4. ASSUME NEW a, ReturnWhole(a), pc \in {"paginate", "plan", "generate"} PROVE Goal
  <2>1. Kept
    BY <1>0, <1>4 DEF ReturnWhole, Tracked
  <2>2. ASSUME NEW r \in StableRows' PROVE Balanced(r)
    <3>1. Outstanding(r) = Count(Matches(table[r], query))
      BY <1>4 DEF Outstanding
    <3>2. Outstanding(r)' = Count(Matches(table[r], query))
      <4>1. Outstanding(r)' = Count(Matches(table[r], query)) + 0
        BY <1>2, <1>4, <2>2 DEF ReturnWhole, Outstanding
      <4> QED BY <4>1 DEF Count
    <3> QED BY <1>4, <3>1, <3>2 DEF ReturnWhole
  <2> QED BY <1>4, <2>1, <2>2
<1>5. CASE RejectArguments \/ RejectInterval \/ RejectPartition \/ RejectDeletion \/ RejectPage
  BY <1>3, <1>5 DEF RejectArguments, RejectInterval, RejectPartition, RejectDeletion, RejectPage
<1>6. CASE ReturnWithoutCounts \/ PlanWithoutKeys \/ PlanWithoutCapacity \/ PlanOnePage
             \/ GenerateNothing
  BY <1>4, <1>6 DEF ReturnWithoutCounts, PlanWithoutKeys, PlanWithoutCapacity, PlanOnePage,
                    GenerateNothing
<1>7. ASSUME pc \in {"paginate", "plan", "generate"}, pc' \in {"plan", "generate", "parameterize"},
             UNCHANGED <<whole, query, fetched>>
      PROVE  Goal
  <2>1. Kept
    BY <1>7 DEF Tracked
  <2>2. ASSUME NEW r \in StableRows' PROVE Balanced(r)
    BY <1>2, <1>7, <2>2 DEF Outstanding
  <2> QED BY <1>7, <2>1, <2>2
<1>8. CASE EstimateNumberOfPages
  <2>1. CASE num_pages' > 1
    BY <1>7, <1>8, <2>1 DEF EstimateNumberOfPages
  <2>2. CASE ~(num_pages' > 1)
    BY <1>4, <1>8, <2>2 DEF EstimateNumberOfPages
  <2> QED BY <2>1, <2>2
<1>9. CASE PlanVertexPartition \/ GenerateParameter
  BY <1>7, <1>9 DEF PlanVertexPartition, GenerateParameter
<1>10. CASE GenerateParameterizedQueries
  <2> DEFINE below == AddPaginationFilter(query, plan.pagination_field, "<", parameter)
             from == AddPaginationFilter(query, plan.pagination_field, ">=", parameter)
  <2>1. /\ pc = "parameterize" /\ pc' = "returned" /\ page' = below /\ remainder' = <<from>>
        /\ UNCHANGED <<environment, whole, query, local, advisories, error, fetched>>
    BY <1>10 DEF GenerateParameterizedQueries
  <2>2. /\ IsQuery(query) /\ plan.pagination_field \in EligibleFields(query)
        /\ plan.pagination_field \in Fields
        /\ parameter \in Int /\ Fits(query, plan.pagination_field, parameter)
    BY <2>1 DEF CallInv, TypeOK, Planned, EligibleFields
  <2>3. Sound(whole) => Sound(query) /\ Sound(below) /\ Sound(from)
    BY <2>2, AddedFilterIsSound DEF Tracked
  <2>4. ASSUME Sound(whole), NEW r \in StableRows'
        PROVE  /\ Matches(table[r], below)
                    <=> Matches(table[r], query) /\ table[r][plan.pagination_field] < parameter
               /\ Matches(table[r], from)
                    <=> Matches(table[r], query) /\ table[r][plan.pagination_field] >= parameter
               /\ table[r][plan.pagination_field] \in Int
    BY <1>2, <2>2, <2>3, <2>4, SplitIsPartition
  <2> HIDE DEF below, from
  <2>5. remainder' # <<>> /\ remainder'[1] = from
    BY <2>1
  <2>6. Kept
    BY <2>1, <2>3, <2>5
  <2>7. ASSUME Sound(whole), NEW r \in StableRows' PROVE Balanced(r)
    <3>1. Outstanding(r) = Count(Matches(table[r], query))
      BY <2>1 DEF Outstanding
    <3>2. Outstanding(r)' = Count(Matches(table[r], below)) + Count(Matches(table[r], from))
      BY <2>1, <2>5 DEF Outstanding
    <3>3. Outstanding(r)' = Outstanding(r)
      BY <2>2, <2>4, <2>7, <3>1, <3>2 DEF Count
    <3> QED BY <2>1, <3>3
  <2> QED BY <2>1, <2>6, <2>7
<1>11. CASE ExecutePage
  <2>1. Kept
    BY <1>11 DEF ExecutePage, Tracked
  <2>2. ASSUME NEW r \in StableRows' PROVE Balanced(r)
    <3>1. /\ pc = "returned" /\ r \in Rows /\ table'[r] = table[r] /\ fetched[r] \in Nat
          /\ fetched'[r] = fetched[r] + Count(Matches(table[r], page))
      BY <1>2, <1>11, <2>2 DEF ExecutePage, Count, CallInv, TypeOK
    <3>2. CASE remainder = <<>>
      BY <1>11, <3>1, <3>2 DEF ExecutePage, Outstanding, Count
    <3>3. CASE remainder # <<>>
      BY <1>11, <3>1, <3>3 DEF ExecutePage, Outstanding, Count
    <3> QED BY <3>2, <3>3
  <2> QED BY <1>11, <2>1, <2>2 DEF ExecutePage
<1>12. ASSUME UNCHANGED <<whole, query, pc, result, fetched>> PROVE Goal
  <2>1. Kept
    BY <1>12 DEF Tracked
  <2>2. ASSUME NEW r \in StableRows' PROVE Balanced(r)
    <3>1. table'[r] = table[r]
      BY <1>2, <2>2
    <3> QED BY <1>12, <3>1 DEF Outstanding
  <2> QED BY <1>12, <2>1, <2>2
<1>13. CASE (\E r \in MutableRows : UpdateRow(r)) \/ RefreshStatistics \/ UNCHANGED vars
  BY <1>12, <1>13 DEF UpdateRow, RefreshStatistics, vars
<1> QED
  BY <1>5, <1>6, <1>8, <1>9, <1>10, <1>11, <1>13 DEF Next, Paginate, Client

LEMMA TrackedInvariant == Spec => []Tracked
BY TrackedInit, TrackedNext, CallInvariant, PTL DEF Spec

(* Each row that nobody updates and that has a value in every field is in     *)
(* exactly one page if the query of the client returns it, and in none if it  *)
(* does not.                                                                  *)
THEOREM NothingLostOrRepeated == Spec => []ExactlyOnce
<1>1. Tracked => ExactlyOnce
  BY DEF Tracked
<1> QED BY <1>1, TrackedInvariant, PTL

(* What paginate_query returns for a sound query validates: the client can    *)
(* run the page and paginate the remainder, to whatever depth.                *)
THEOREM SoundResultsValidate == Spec => []PagesValidate
<1>1. Tracked => PagesValidate
  BY DEF Tracked, PagesValidate, ResultsValidate, Sound
<1> QED BY <1>1, TrackedInvariant, PTL

-----------------------------------------------------------------------------
(* Folds over a finite set *)

(* The subsets of S with at most n elements.                                  *)
Parts(S, n) == {s \in SUBSET S : Cardinality(s) <= n}

(* What there is to fold over S: a base, an element to pick of each part, and *)
(* what combines that element with the fold of the rest.                      *)
CanFold(S, V, base, pick, combine) ==
    /\ IsFiniteSet(S)
    /\ base \in V
    /\ combine \in [S \X V -> V]
    /\ \A s \in SUBSET S : s # {} => pick[s] \in s

(* What a fold over S does: pick an element, fold the rest, and combine.      *)
IsFold(S, V, base, pick, combine, g) ==
    \A s \in DOMAIN g :
        /\ s = {} => g[s] = base
        /\ s # {} => g[s] = combine[<<pick[s], g[s \ {pick[s]}]>>]

(* What the folds of the parts of S are in, when R holds the base and each    *)
(* combination with what it holds.                                            *)
IsClosed(S, V, base, pick, combine, R) ==
    /\ base \in R[{}]
    /\ \A s \in SUBSET S : \A v \in V :
          s # {} /\ v \in R[s \ {pick[s]}] => combine[<<pick[s], v>>] \in R[s]

LEMMA SmallerPart ==
    ASSUME NEW S, IsFiniteSet(S), NEW s \in SUBSET S, NEW x \in s
    PROVE  /\ IsFiniteSet(s) /\ s \ {x} \in SUBSET S
           /\ Cardinality(s) \in Nat /\ Cardinality(s \ {x}) \in Nat
           /\ Cardinality(s \ {x}) = Cardinality(s) - 1
<1>1. IsFiniteSet(s)
  BY FS_Subset
<1> QED BY <1>1, FS_RemoveElement, FS_CardinalityType

LEMMA FoldExists ==
    ASSUME NEW S, NEW V, NEW base, NEW pick, NEW combine, CanFold(S, V, base, pick, combine)
    PROVE  \E g \in [SUBSET S -> V] : IsFold(S, V, base, pick, combine, g)
<1> USE DEF CanFold
<1> DEFINE Reached(n) == \E g \in [Parts(S, n) -> V] : IsFold(S, V, base, pick, combine, g)
           Missed == {n \in Nat : ~Reached(n)}
<1>0. \A s \in SUBSET S : IsFiniteSet(s) /\ Cardinality(s) \in Nat
  BY FS_Subset, FS_CardinalityType
<1>1. ASSUME NEW n \in Nat, n = 0 \/ Reached(n - 1) PROVE Reached(n)
  <2>1. CASE n = 0
    <3> DEFINE g == [s \in Parts(S, n) |-> base]
    <3>1. \A s \in Parts(S, n) : s = {}
      <4> SUFFICES ASSUME NEW s \in Parts(S, n) PROVE s = {}
        OBVIOUS
      <4>1. s \in SUBSET S /\ Cardinality(s) = 0
        BY <1>0, <2>1 DEF Parts
      <4> QED BY <1>0, <4>1, FS_EmptySet
    <3>2. g \in [Parts(S, n) -> V] /\ IsFold(S, V, base, pick, combine, g)
      BY <3>1 DEF IsFold
    <3> QED BY <3>2
  <2>2. CASE n # 0
    <3>1. PICK g \in [Parts(S, n - 1) -> V] : IsFold(S, V, base, pick, combine, g)
      BY <1>1, <2>2
    <3>2. \A s \in Parts(S, n) : s # {} =>
             pick[s] \in S /\ s \ {pick[s]} \in Parts(S, n - 1)
      <4> SUFFICES ASSUME NEW s \in Parts(S, n), s # {}
                   PROVE  pick[s] \in S /\ s \ {pick[s]} \in Parts(S, n - 1)
        OBVIOUS
      <4>1. s \in SUBSET S /\ Cardinality(s) <= n /\ pick[s] \in s
        BY DEF Parts
      <4>2. /\ s \ {pick[s]} \in SUBSET S
            /\ Cardinality(s) \in Nat /\ Cardinality(s \ {pick[s]}) \in Nat
            /\ Cardinality(s \ {pick[s]}) = Cardinality(s) - 1
        BY <4>1, SmallerPart
      <4> QED BY <4>1, <4>2 DEF Parts
    <3> DEFINE h == [s \in Parts(S, n) |->
                        IF s = {} THEN base ELSE combine[<<pick[s], g[s \ {pick[s]}]>>]]
    <3>3. \A s \in Parts(S, n) : s # {} => <<pick[s], g[s \ {pick[s]}]>> \in S \X V
      BY <3>1, <3>2
    <3>4. h \in [Parts(S, n) -> V]
      BY <3>3
    <3>5. Parts(S, n - 1) \subseteq Parts(S, n)
      BY <1>0 DEF Parts
    <3>6. \A s \in Parts(S, n - 1) : h[s] = g[s]
      BY <3>1, <3>5 DEF IsFold
    <3>7. IsFold(S, V, base, pick, combine, h)
      BY <3>2, <3>6 DEF IsFold
    <3> QED BY <3>4, <3>7
  <2> QED BY <2>1, <2>2
<1>2. \A n \in Nat : Reached(n)
  <2> SUFFICES ASSUME Missed # {} PROVE FALSE
    OBVIOUS
  <2>1. PICK n \in Missed : \A m \in Missed : n <= m
    BY LeastNatural
  <2>2. n \in Nat /\ ~Reached(n)
    OBVIOUS
  <2> HIDE DEF Reached
  <2>3. n = 0 \/ n - 1 \in Nat
    BY <2>2
  <2>4. n = 0 \/ Reached(n - 1)
    BY <2>1, <2>2, <2>3
  <2> QED BY <1>1, <2>2, <2>4
<1>3. Parts(S, Cardinality(S)) = SUBSET S
  <2>1. ASSUME NEW s \in SUBSET S PROVE Cardinality(s) <= Cardinality(S)
    BY FS_Subset
  <2> QED BY <2>1 DEF Parts
<1>4. Cardinality(S) \in Nat
  BY FS_CardinalityType
<1> QED BY <1>2, <1>3, <1>4

(* Induction over what a fold has folded.                                     *)
LEMMA FoldInduction ==
    ASSUME NEW S, NEW V, NEW base, NEW pick, NEW combine, CanFold(S, V, base, pick, combine),
           NEW g \in [SUBSET S -> V], IsFold(S, V, base, pick, combine, g),
           NEW R, IsClosed(S, V, base, pick, combine, R)
    PROVE  \A s \in SUBSET S : g[s] \in R[s]
<1> USE DEF CanFold, IsClosed
<1> DEFINE Missed == {s \in SUBSET S : g[s] \notin R[s]}
           Sizes == {Cardinality(s) : s \in Missed}
<1>0. \A s \in SUBSET S : IsFiniteSet(s) /\ Cardinality(s) \in Nat
  BY FS_Subset, FS_CardinalityType
<1> SUFFICES ASSUME Missed # {} PROVE FALSE
  OBVIOUS
<1>1. Sizes \in SUBSET Nat /\ Sizes # {}
  <2>1. Missed \subseteq SUBSET S
    OBVIOUS
  <2> HIDE DEF Missed
  <2> QED BY <1>0, <2>1
<1>2. PICK n \in Sizes : \A m \in Sizes : n <= m
  BY <1>1, LeastNatural
<1>3. PICK s \in Missed : Cardinality(s) = n
  OBVIOUS
<1>4. s # {}
  BY <1>3 DEF IsFold
<1>5. pick[s] \in s /\ s \in SUBSET S
  BY <1>4
<1>6. /\ s \ {pick[s]} \in SUBSET S /\ Cardinality(s \ {pick[s]}) \in Nat
      /\ Cardinality(s) \in Nat /\ Cardinality(s \ {pick[s]}) = Cardinality(s) - 1
  <2>1. IsFiniteSet(S)
    OBVIOUS
  <2> HIDE DEF Missed, Sizes, CanFold, IsClosed
  <2>2. ASSUME NEW x \in s
        PROVE  /\ s \ {x} \in SUBSET S /\ Cardinality(s \ {x}) \in Nat
               /\ Cardinality(s) \in Nat /\ Cardinality(s \ {x}) = Cardinality(s) - 1
    <3>1. s \in SUBSET S /\ IsFiniteSet(S)
      BY <1>5, <2>1
    <3> HIDE <1>5
    <3> QED BY <3>1, SmallerPart
  <2> QED BY <1>5, <2>2
<1>7. s \ {pick[s]} \notin Missed
  <2> SUFFICES ASSUME s \ {pick[s]} \in Missed PROVE FALSE
    OBVIOUS
  <2>1. Cardinality(s \ {pick[s]}) \in Sizes
    OBVIOUS
  <2>2. n <= Cardinality(s \ {pick[s]})
    BY <1>2, <2>1
  <2> QED BY <1>3, <1>6, <2>2
<1>8. g[s \ {pick[s]}] \in R[s \ {pick[s]}] /\ g[s \ {pick[s]}] \in V
  BY <1>6, <1>7
<1>9. combine[<<pick[s], g[s \ {pick[s]}]>>] \in R[s]
  BY <1>4, <1>5, <1>8
<1> QED BY <1>4, <1>9 DEF IsFold

-----------------------------------------------------------------------------
(* Selectivities *)

(* Selectivities combine to a selectivity.                                    *)
LEMMA CombineTwoType ==
    ASSUME NEW s \in Selectivities, NEW t \in Selectivities
    PROVE  CombineTwo(s, t) \in Selectivities
<1>1. /\ s.num \in Nat /\ s.den \in Nat \ {0} /\ t.num \in Nat /\ t.den \in Nat \ {0}
      /\ s.kind = "fractional" => s.num <= s.den
      /\ t.kind = "fractional" => t.num <= t.den
  BY DEF Selectivities
<1>2. CASE s.kind = "fractional" /\ t.kind = "fractional"
  <2>1. s.num * t.num \in Nat /\ s.den * t.den \in Nat /\ s.num * t.num <= s.den * t.den
    BY <1>1, <1>2, ProductsGrow
  <2>2. s.den * t.den # 0
    BY <1>1, SMT
  <2>3. CombineTwo(s, t)
          = [kind |-> "fractional", num |-> s.num * t.num, den |-> s.den * t.den]
    BY <1>2 DEF CombineTwo
  <2> QED BY <2>1, <2>2, <2>3 DEF Selectivities
<1>3. CASE ~(s.kind = "fractional" /\ t.kind = "fractional")
  BY <1>3 DEF CombineTwo
<1> QED BY <1>2, <1>3

(* The uuids of an interval are at most all of them.                          *)
LEMMA UuidIntervalMeasure ==
    ASSUME NEW I \in Intervals
    PROVE  LET M == MeasureIntInterval(IntersectIntIntervals(I, UuidUniverse))
           IN  /\ M \in Nat /\ M <= MaxUuid + 1
               /\ I = Unbounded => M = MaxUuid + 1
<1> DEFINE J == IntersectIntIntervals(I, UuidUniverse)
<1>1. /\ MaxUuid \in Nat /\ 0 # NoBound /\ MaxUuid # NoBound
      /\ I.lower_bound \in Bounds /\ I.upper_bound \in Bounds
  BY FieldsAssumption, NoBoundAssumption DEF Intervals
<1>2. /\ J.lower_bound = StrongerLowerBound(I.lower_bound, 0)
      /\ J.upper_bound = StrongerUpperBound(I.upper_bound, MaxUuid)
  BY DEF IntersectIntIntervals, UuidUniverse
<1>3. /\ J.lower_bound \in Int /\ J.lower_bound >= 0
      /\ I.lower_bound = NoBound => J.lower_bound = 0
  BY <1>1, <1>2 DEF StrongerLowerBound, Bounds
<1>4. /\ J.upper_bound \in Int /\ J.upper_bound <= MaxUuid
      /\ I.upper_bound = NoBound => J.upper_bound = MaxUuid
  BY <1>1, <1>2 DEF StrongerUpperBound, Bounds
<1>5. /\ J.lower_bound # NoBound /\ J.upper_bound # NoBound
      /\ I = Unbounded => I.lower_bound = NoBound /\ I.upper_bound = NoBound
  BY <1>3, <1>4, NoBoundAssumption DEF Unbounded
<1>6. MeasureIntInterval(J)
        = IF J.lower_bound > J.upper_bound THEN 0 ELSE J.upper_bound - J.lower_bound + 1
  BY <1>5 DEF MeasureIntInterval, IsEmpty
<1> HIDE DEF J
<1>7. /\ MeasureIntInterval(J) \in Nat /\ MeasureIntInterval(J) <= MaxUuid + 1
      /\ I = Unbounded => MeasureIntInterval(J) = MaxUuid + 1
  BY <1>1, <1>3, <1>4, <1>5, <1>6
<1> QED BY <1>7 DEF J

(* What the filters on one field select: one row, or a fraction that for a    *)
(* uuid is the share its interval has of all uuids.                           *)
LEMMA FieldSelectivityType ==
    ASSUME NEW info \in SchemaInfos, NEW q, IsQuery(q), Validates(q), NEW f \in Fields
    PROVE  LET s == FieldSelectivity(info, q, f)
           IN  /\ s \in Selectivities
               /\ s.kind = "absolute" => s.num = 1
               /\ s.kind = "fractional" /\ f \in Uuid4Fields =>
                     /\ s.num = MeasureIntInterval(UuidInterval(q, f))
                     /\ s.den = MaxUuid + 1
<1> DEFINE I == IntegerInterval(q, f)
           interval == IntervalSelectivity(info, q, f)
           equality == EqualitySelectivity(q, f)
<1>1. I \in Intervals
  BY IntegerIntervalBounds
<1>2. /\ interval.num \in Nat /\ interval.den \in Nat \ {0} /\ interval.num <= interval.den
      /\ f \in Uuid4Fields =>
            /\ interval.num = MeasureIntInterval(UuidInterval(q, f))
            /\ interval.den = MaxUuid + 1
  <2>1. CASE f \in Uuid4Fields
    <3>1. interval = [num |-> MeasureIntInterval(UuidInterval(q, f)), den |-> MaxUuid + 1]
      BY <2>1 DEF IntervalSelectivity, UuidInterval
    <3>2. /\ MeasureIntInterval(UuidInterval(q, f)) \in Nat
          /\ MeasureIntInterval(UuidInterval(q, f)) <= MaxUuid + 1
      <4> HIDE DEF I
      <4> QED BY <1>1, UuidIntervalMeasure DEF UuidInterval, I
    <3> HIDE DEF interval
    <3>3. interval.num = MeasureIntInterval(UuidInterval(q, f)) /\ interval.den = MaxUuid + 1
      BY <3>1
    <3> QED BY <3>2, <3>3, FieldsAssumption
  <2>2. CASE f \notin Uuid4Fields /\ info.quantiles[f] = NoStatistics
    <3>1. interval = [num |-> 1, den |-> 1]
      BY <2>2 DEF IntervalSelectivity, WholeFraction
    <3> QED BY <2>2, <3>1
  <2>3. CASE f \notin Uuid4Fields /\ info.quantiles[f] # NoStatistics
    <3>1. interval = SelectivityFractionOfInterval(I, info.quantiles[f])
      BY <2>3 DEF IntervalSelectivity
    <3>2. info.quantiles[f] \in Seq(Int)
      BY <2>3, PaginationAssumption
    <3> HIDE DEF interval, I
    <3> QED BY <1>1, <2>3, <3>1, <3>2, QuantileFraction
  <2> QED BY <2>1, <2>2, <2>3
<1>3. equality = Absolute(1) \/ equality = Fractional(WholeFraction)
  BY DEF EqualitySelectivity
<1>4. FieldSelectivity(info, q, f) = CombineTwo(Fractional(interval), equality)
  BY DEF FieldSelectivity
<1> HIDE DEF interval, equality, I
<1>5. CASE equality = Absolute(1)
  <2>1. CombineTwo(Fractional(interval), equality) = [kind |-> "absolute", num |-> 1, den |-> 1]
    BY <1>5 DEF CombineTwo, Fractional, Absolute
  <2>2. FieldSelectivity(info, q, f) \in Selectivities
    BY <1>4, <2>1 DEF Selectivities
  <2> QED BY <1>4, <2>1, <2>2
<1>6. CASE equality = Fractional(WholeFraction)
  <2>1. CombineTwo(Fractional(interval), equality)
          = [kind |-> "fractional", num |-> interval.num * 1, den |-> interval.den * 1]
    BY <1>6 DEF CombineTwo, Fractional, WholeFraction
  <2>2. interval.num * 1 = interval.num /\ interval.den * 1 = interval.den
    BY <1>2
  <2>3. FieldSelectivity(info, q, f)
          = [kind |-> "fractional", num |-> interval.num, den |-> interval.den]
    BY <1>4, <2>1, <2>2
  <2>4. FieldSelectivity(info, q, f) \in Selectivities
    BY <1>2, <2>3 DEF Selectivities
  <2> QED BY <1>2, <2>3, <2>4
<1> QED BY <1>3, <1>5, <1>6

-----------------------------------------------------------------------------
(* The selectivity of a vertex *)

FieldPicks(S) == [s \in SUBSET S |-> CHOOSE f \in s : TRUE]

FieldCombination(info, q) ==
    [p \in FilteredFields(q) \X Selectivities |->
        CombineTwo(FieldSelectivity(info, q, p[1]), p[2])]

LEMMA FilteredFieldsFinite ==
    ASSUME NEW q, IsQuery(q)
    PROVE  IsFiniteSet(FilteredFields(q)) /\ FilteredFields(q) \subseteq Fields
<1> DEFINE S == {d.field : d \in q.directives}
<1>1. [d \in q.directives |-> d.field] \in Surjection(q.directives, S)
  BY DEF Surjection
<1>2. IsFiniteSet(S)
  BY <1>1, FS_Surjection DEF IsQuery
<1>3. FilteredFields(q) \in SUBSET S
  BY DEF FilteredFields, FiltersOnField
<1> QED BY <1>2, <1>3, FS_Subset DEF FilteredFields

(* get_selectivity_of_filters_at_vertex folds the fields that have a filter   *)
(* into the selectivity of the other filters.                                 *)
LEMMA RootSelectivityFolds ==
    ASSUME NEW info \in SchemaInfos, NEW q, IsQuery(q), Validates(q)
    PROVE  LET S == FilteredFields(q)
           IN  /\ CanFold(S, Selectivities, q.rest, FieldPicks(S), FieldCombination(info, q))
               /\ \E g \in [SUBSET S -> Selectivities] :
                     /\ IsFold(S, Selectivities, q.rest, FieldPicks(S),
                               FieldCombination(info, q), g)
                     /\ RootSelectivity(info, q) = g[S]
<1> DEFINE S == FilteredFields(q)
           pick == FieldPicks(S)
           combine == FieldCombination(info, q)
           Unfold(g) == [s \in SUBSET S |->
              IF s = {} THEN q.rest
              ELSE CombineTwo(FieldSelectivity(info, q, CHOOSE f \in s : TRUE),
                              g[s \ {CHOOSE f \in s : TRUE}])]
<1>1. IsFiniteSet(S) /\ S \subseteq Fields
  BY FilteredFieldsFinite
<1>2. combine \in [S \X Selectivities -> Selectivities]
  <2>1. ASSUME NEW f \in S, NEW v \in Selectivities
        PROVE  CombineTwo(FieldSelectivity(info, q, f), v) \in Selectivities
    <3>1. FieldSelectivity(info, q, f) \in Selectivities
      BY <1>1, FieldSelectivityType
    <3> QED BY <3>1, CombineTwoType
  <2> HIDE DEF S
  <2> QED BY <2>1 DEF FieldCombination, S
<1>3. \A s \in SUBSET S : s # {} => pick[s] \in s
  BY DEF FieldPicks
<1>4. q.rest \in Selectivities
  BY DEF IsQuery
<1>5. RootSelectivity(info, q) = (CHOOSE g : g = Unfold(g))[S]
  BY DEF RootSelectivity, MapThenFoldSet
<1>6. \A f \in S, v \in Selectivities :
         combine[<<f, v>>] = CombineTwo(FieldSelectivity(info, q, f), v)
  BY DEF FieldCombination
<1>7. \A s \in SUBSET S : pick[s] = CHOOSE f \in s : TRUE
  BY DEF FieldPicks
<1> HIDE DEF S, combine, pick
<1>7a. CanFold(S, Selectivities, q.rest, pick, combine)
  BY <1>1, <1>2, <1>3, <1>4 DEF CanFold
<1>8. PICK g \in [SUBSET S -> Selectivities] : IsFold(S, Selectivities, q.rest, pick, combine, g)
  BY <1>7a, FoldExists
<1>9. g = Unfold(g)
  <2>1. \A s \in SUBSET S : g[s] = Unfold(g)[s]
    <3> SUFFICES ASSUME NEW s \in SUBSET S PROVE g[s] = Unfold(g)[s]
      OBVIOUS
    <3>1. CASE s = {}
      BY <1>8, <3>1 DEF IsFold
    <3>2. CASE s # {}
      <4>1. pick[s] \in S /\ s \ {pick[s]} \in SUBSET S
        BY <1>3, <3>2
      <4>2. g[s] = combine[<<pick[s], g[s \ {pick[s]}]>>]
        BY <1>8, <3>2 DEF IsFold
      <4>3. g[s] = CombineTwo(FieldSelectivity(info, q, pick[s]), g[s \ {pick[s]}])
        BY <1>6, <1>8, <4>1, <4>2
      <4> QED BY <1>7, <3>2, <4>3
    <3> QED BY <3>1, <3>2
  <2> QED BY <1>8, <2>1
<1> DEFINE h == CHOOSE k : k = Unfold(k)
<1>10. h = Unfold(h)
  <2> HIDE DEF Unfold
  <2> QED BY <1>9
<1> HIDE DEF h
<1>11. \A s \in SUBSET S : h[s] = IF s = {} THEN q.rest
                                  ELSE CombineTwo(FieldSelectivity(info, q, pick[s]),
                                                  h[s \ {pick[s]}])
  BY <1>7, <1>10
<1> DEFINE R == [s \in SUBSET S |-> {v \in Selectivities : h[s] = v}]
<1>12. q.rest \in R[{}]
  BY <1>4, <1>11
<1>13. \A s \in SUBSET S : \A v \in Selectivities :
          s # {} /\ v \in R[s \ {pick[s]}] => combine[<<pick[s], v>>] \in R[s]
  <2> SUFFICES ASSUME NEW s \in SUBSET S, NEW v \in Selectivities,
                      s # {}, v \in R[s \ {pick[s]}]
               PROVE  combine[<<pick[s], v>>] \in R[s]
    OBVIOUS
  <2>1. pick[s] \in S /\ h[s \ {pick[s]}] = v
    BY <1>3
  <2>2. combine[<<pick[s], v>>] = h[s]
    BY <1>6, <1>11, <2>1
  <2>3. combine[<<pick[s], v>>] \in Selectivities
    BY <1>2, <2>1
  <2> QED BY <2>2, <2>3
<1>14. \A s \in SUBSET S : g[s] \in R[s]
  <2>1. IsClosed(S, Selectivities, q.rest, pick, combine, R)
    BY <1>12, <1>13 DEF IsClosed
  <2> HIDE DEF R
  <2> QED BY <1>7a, <1>8, <2>1, FoldInduction
<1>15. h[S] = g[S]
  BY <1>14
<1>16. RootSelectivity(info, q) = g[S]
  BY <1>5, <1>15 DEF h
<1> QED BY <1>7a, <1>8, <1>16 DEF S, combine, pick

(* The share two selectivities have in common.                                *)
LEMMA ShareOfBoth ==
    ASSUME NEW a \in Nat, NEW b \in Nat, NEW v \in Nat, NEW w \in Nat,
           NEW M \in Nat, NEW U \in Nat, v <= w
    PROVE  /\ a <= b /\ v * U <= M * w => (a * v) * U <= M * (b * w)
           /\ (M * v) * U <= M * (U * w)
<1>1. ASSUME a <= b, v * U <= M * w PROVE (a * v) * U <= M * (b * w)
  <2>1. v * U \in Nat /\ M * w \in Nat
    BY SMT
  <2>2. a * (v * U) <= b * (M * w)
    BY <1>1, <2>1, ProductsGrow
  <2>3. a * (v * U) = (a * v) * U /\ b * (M * w) = M * (b * w)
    BY SMT
  <2> QED BY <2>2, <2>3
<1>2. (M * v) * U <= M * (U * w)
  <2>1. M * U \in Nat
    BY SMT
  <2>2. (M * U) * v <= (M * U) * w
    BY <2>1, ProductsGrow
  <2>3. (M * U) * v = (M * v) * U /\ (M * U) * w = M * (U * w)
    BY SMT
  <2> QED BY <2>2, <2>3
<1> QED BY <1>1, <1>2

(* The combined selectivity of the filters of a root vertex is one.           *)
LEMMA RootSelectivityType ==
    ASSUME NEW info \in SchemaInfos, NEW q, IsQuery(q), Validates(q)
    PROVE  RootSelectivity(info, q) \in Selectivities
<1> DEFINE S == FilteredFields(q)
<1>1. PICK g \in [SUBSET S -> Selectivities] : RootSelectivity(info, q) = g[S]
  BY RootSelectivityFolds
<1> QED BY <1>1

(* It gives no more than one root vertex, or at most the share that the       *)
(* interval of any uuid field has of all uuids.                               *)
LEMMA RootSelectivityOfUuids ==
    ASSUME NEW info \in SchemaInfos, NEW q, IsQuery(q), Validates(q),
           q.rest.kind = "fractional", NEW f \in Uuid4Fields
    PROVE  LET s == RootSelectivity(info, q)
               M == MeasureIntInterval(UuidInterval(q, f))
           IN  /\ s.kind = "absolute" => s.num = 1
               /\ s.kind = "fractional" /\ f \in FilteredFields(q) =>
                     s.num * (MaxUuid + 1) <= M * s.den
<1> DEFINE S == FilteredFields(q)
           M == MeasureIntInterval(UuidInterval(q, f))
           U == MaxUuid + 1
           base == q.rest
           pick == FieldPicks(S)
           combine == FieldCombination(info, q)
           R == [s \in SUBSET S |->
                   {v \in Selectivities :
                       /\ v.kind = "absolute" => v.num = 1
                       /\ v.kind = "fractional" /\ f \in s => v.num * U <= M * v.den}]
<1>0. f \in Fields /\ MaxUuid \in Nat /\ U \in Nat
  BY FieldsAssumption
<1>1. /\ CanFold(S, Selectivities, base, pick, combine)
      /\ \E g \in [SUBSET S -> Selectivities] :
            /\ IsFold(S, Selectivities, base, pick, combine, g)
            /\ RootSelectivity(info, q) = g[S]
  BY RootSelectivityFolds
<1>2. PICK g \in [SUBSET S -> Selectivities] :
            /\ IsFold(S, Selectivities, base, pick, combine, g)
            /\ RootSelectivity(info, q) = g[S]
  BY <1>1
<1>3. M \in Nat /\ M <= U
  <2>1. IntegerInterval(q, f) \in Intervals
    BY <1>0, IntegerIntervalBounds
  <2> QED BY <2>1, UuidIntervalMeasure DEF UuidInterval
<1>4. \A s \in SUBSET S : \A v \in Selectivities :
         s # {} /\ v \in R[s \ {pick[s]}] => combine[<<pick[s], v>>] \in R[s]
  <2> SUFFICES ASSUME NEW s \in SUBSET S, NEW v \in Selectivities,
                      s # {}, v \in R[s \ {pick[s]}]
               PROVE  combine[<<pick[s], v>>] \in R[s]
    OBVIOUS
  <2> DEFINE x == pick[s]
             a == FieldSelectivity(info, q, x)
             c == CombineTwo(a, v)
  <2>1. x \in S /\ x \in s /\ x \in Fields
    BY <1>1 DEF CanFold, FilteredFields
  <2>2. combine[<<pick[s], v>>] = c
    BY <2>1 DEF FieldCombination
  <2>3. /\ v.kind = "absolute" => v.num = 1
        /\ v.kind = "fractional" /\ f \in s /\ f # x => v.num * U <= M * v.den
    BY DEF R
  <2> HIDE DEF x
  <2>4. /\ a \in Selectivities
        /\ a.kind = "absolute" => a.num = 1
        /\ a.kind = "fractional" /\ x = f => a.num = M /\ a.den = U
    BY <1>0, <2>1, FieldSelectivityType
  <2> HIDE DEF a, M, U
  <2>5. c \in Selectivities
    BY <2>4, CombineTwoType
  <2>6. /\ a.num \in Nat /\ a.den \in Nat /\ v.num \in Nat /\ v.den \in Nat
        /\ a.kind \in {"absolute", "fractional"} /\ v.kind \in {"absolute", "fractional"}
        /\ a.kind = "fractional" => a.num <= a.den
        /\ v.kind = "fractional" => v.num <= v.den
    BY <2>4 DEF Selectivities
  <2>7. CASE a.kind = "fractional" /\ v.kind = "fractional"
    <3>1. c.kind = "fractional" /\ c.num = a.num * v.num /\ c.den = a.den * v.den
      BY <2>7 DEF CombineTwo
    <3> HIDE DEF c
    <3>2. ASSUME f \in s PROVE c.num * U <= M * c.den
      <4>1. CASE x = f
        <5>1. c.num * U = (M * v.num) * U /\ M * c.den = M * (U * v.den)
          BY <2>4, <2>7, <3>1, <4>1
        <5>2. (M * v.num) * U <= M * (U * v.den)
          BY <1>0, <1>3, <2>6, <2>7, ShareOfBoth
        <5> QED BY <5>1, <5>2
      <4>2. CASE x # f
        <5>1. v.num * U <= M * v.den
          BY <2>3, <2>7, <3>2, <4>2
        <5>2. (a.num * v.num) * U <= M * (a.den * v.den)
          BY <1>0, <1>3, <2>6, <2>7, <5>1, ShareOfBoth
        <5> QED BY <3>1, <5>2
      <4> QED BY <4>1, <4>2
    <3> QED BY <2>2, <2>5, <3>1, <3>2
  <2>8. CASE ~(a.kind = "fractional" /\ v.kind = "fractional")
    <3>1. (c = a \/ c = v) /\ c.kind = "absolute" /\ c.num = 1
      BY <2>3, <2>4, <2>6, <2>8 DEF CombineTwo
    <3> HIDE DEF c
    <3> QED BY <2>2, <2>5, <3>1
  <2> QED BY <2>7, <2>8
<1>5. base \in R[{}]
  BY DEF IsQuery
<1>6. IsClosed(S, Selectivities, base, pick, combine, R)
  BY <1>4, <1>5 DEF IsClosed
<1> HIDE DEF R, base, pick, combine, S
<1>7. g[S] \in R[S]
  BY <1>1, <1>2, <1>6, FoldInduction
<1> QED BY <1>2, <1>7 DEF R, S

-----------------------------------------------------------------------------
(* How many splits a plan has *)

(* Rounding down a fraction of at most m gives at most m.                     *)
LEMMA QuotientBound ==
    ASSUME NEW a \in Nat, NEW b \in Nat \ {0}, NEW m \in Nat, a <= m * b
    PROVE  a \div b \in Nat /\ a \div b <= m
<1>1. a \div b \in Nat /\ b * (a \div b) <= a
  BY SMT
<1>2. ASSUME NEW k \in Nat, k >= m + 1 PROVE b * k > m * b
  <2>1. b * (m + 1) <= b * k /\ b * (m + 1) = m * b + b
    <3>1. m + 1 \in Nat /\ m + 1 <= k
      BY <1>2
    <3>2. b * (m + 1) <= b * k
      BY <3>1, ProductsGrow
    <3>3. b * (m + 1) = m * b + b
      BY SMT
    <3> QED BY <3>2, <3>3
  <2>2. m * b \in Nat /\ b * k \in Nat
    BY SMT
  <2> QED BY <2>1, <2>2
<1>3. SUFFICES ASSUME a \div b >= m + 1 PROVE FALSE
  BY <1>1
<1>4. b * (a \div b) > m * b
  BY <1>1, <1>2, <1>3
<1>5. m * b \in Nat /\ b * (a \div b) \in Nat
  BY <1>1, SMT
<1> QED BY <1>1, <1>4, <1>5

(* The estimate of the distinct results is a count; without a filter on a     *)
(* unique index it is at most one, or at most the number of values in the     *)
(* interval of any uuid field.                                                *)
LEMMA DistinctEstimateBound ==
    ASSUME NEW info \in SchemaInfos, info.class_count # NoStatistics,
           NEW q, IsQuery(q), Validates(q)
    PROVE  LET distinct == DistinctResultSetEstimate(info, q)
           IN  /\ distinct \in Nat
               /\ q.rest.kind = "fractional" =>
                     \A f \in Uuid4Fields :
                        distinct <= 1 \/ distinct <= MeasureIntInterval(UuidInterval(q, f))
<1> DEFINE s == RootSelectivity(info, q)
           count == info.class_count
           roots == AdjustedCount(count, s)
           own == roots.num \div roots.den
           distinct == DistinctResultSetEstimate(info, q)
<1>1. s \in Selectivities /\ count \in Nat /\ MaxUuid \in Nat
  BY RootSelectivityType, PaginationAssumption, FieldsAssumption
<1>2. distinct = IF q.linked_estimate = NoStatistics \/ own <= q.linked_estimate
                 THEN own ELSE q.linked_estimate
  BY DEF DistinctResultSetEstimate
<1>3. q.linked_estimate \in Nat \cup {NoStatistics}
  BY DEF IsQuery
<1>4. ASSUME q.rest.kind = "fractional", NEW f \in Uuid4Fields
      PROVE  LET M == MeasureIntInterval(UuidInterval(q, f))
             IN  /\ M \in Nat /\ count <= MaxUuid + 1
                 /\ s.kind = "absolute" => s.num = 1
                 /\ s.kind = "fractional" => s.num * (MaxUuid + 1) <= M * s.den
  <2> DEFINE M == MeasureIntInterval(UuidInterval(q, f))
             I == IntegerInterval(q, f)
  <2>0. f \in Fields /\ count <= MaxUuid + 1
    BY FieldsAssumption, PaginationAssumption
  <2>1. I \in Intervals
    BY <2>0, IntegerIntervalBounds
  <2>2. M \in Nat /\ (I = Unbounded => M = MaxUuid + 1)
    <3> HIDE DEF I
    <3> QED BY <2>1, UuidIntervalMeasure DEF UuidInterval, I
  <2> HIDE DEF M, s
  <2>3. CASE f \in FilteredFields(q)
    BY <1>4, <2>0, <2>2, <2>3, RootSelectivityOfUuids DEF M, s
  <2>4. CASE f \notin FilteredFields(q)
    <3>1. I = Unbounded
      <4>1. InequalityFilters(q, f) = {}
        BY <2>0, <2>4 DEF FilteredFields, InequalityFilters
      <4> QED BY <4>1 DEF IntegerInterval, IntersectAll, Unbounded
    <3>2. s.kind = "fractional" => s.num * (MaxUuid + 1) <= M * s.den
      <4> SUFFICES ASSUME s.kind = "fractional" PROVE s.num * (MaxUuid + 1) <= M * s.den
        OBVIOUS
      <4>1. s.num \in Nat /\ s.den \in Nat /\ s.num <= s.den /\ M = MaxUuid + 1
        BY <1>1, <2>2, <3>1 DEF Selectivities
      <4>2. MaxUuid + 1 \in Nat
        BY <1>1
      <4>3. s.num * M <= s.den * M
        BY <2>2, <4>1, ProductsGrow
      <4>4. s.den * M = M * s.den
        BY <2>2, <4>1, SMT
      <4> QED BY <4>1, <4>3, <4>4
    <3>3. s.kind = "absolute" => s.num = 1
      BY <1>4, RootSelectivityOfUuids DEF s
    <3> QED BY <2>0, <2>2, <3>2, <3>3 DEF M
  <2> QED BY <2>3, <2>4 DEF M
<1> HIDE DEF s, count
<1>5. /\ s.num \in Nat /\ s.den \in Nat \ {0} /\ s.kind \in {"absolute", "fractional"}
  BY <1>1 DEF Selectivities
<1>6. CASE s.kind = "absolute"
  <2>1. roots.num = s.num /\ roots.den = 1
    BY <1>6 DEF AdjustedCount
  <2>2. own = s.num
    BY <1>5, <2>1, SMT
  <2>3. q.rest.kind = "fractional" => \A f \in Uuid4Fields : own <= 1
    BY <1>4, <1>6, <2>2
  <2> HIDE DEF own, distinct
  <2>4. own \in Nat
    BY <1>5, <2>2
  <2>5. distinct \in Nat /\ distinct <= own
    BY <1>2, <1>3, <2>4
  <2>6. q.rest.kind = "fractional" => \A f \in Uuid4Fields : distinct <= 1
    BY <2>3, <2>4, <2>5
  <2> QED BY <2>5, <2>6 DEF distinct
<1>7. CASE s.kind = "fractional"
  <2>1. roots.num = count * s.num /\ roots.den = s.den
    BY <1>7 DEF AdjustedCount
  <2>2. own = (count * s.num) \div s.den
    BY <2>1
  <2> HIDE DEF own, distinct
  <2>3. count * s.num \in Nat
    BY <1>1, <1>5, SMT
  <2>4. own \in Nat
    BY <1>5, <2>2, <2>3, SMT
  <2>5. distinct \in Nat /\ distinct <= own
    BY <1>2, <1>3, <2>4
  <2>6. ASSUME q.rest.kind = "fractional", NEW f \in Uuid4Fields
        PROVE  distinct <= MeasureIntInterval(UuidInterval(q, f))
    <3> DEFINE M == MeasureIntInterval(UuidInterval(q, f))
    <3>1. M \in Nat /\ count <= MaxUuid + 1 /\ s.num * (MaxUuid + 1) <= M * s.den
      BY <1>4, <1>7, <2>6
    <3> HIDE DEF M
    <3>2. count * s.num <= (MaxUuid + 1) * s.num
      <4>1. MaxUuid + 1 \in Nat
        BY <1>1
      <4> QED BY <1>1, <1>5, <3>1, <4>1, ProductsGrow
    <3>3. (MaxUuid + 1) * s.num = s.num * (MaxUuid + 1)
      BY <1>1, <1>5, SMT
    <3>4. (MaxUuid + 1) * s.num \in Nat /\ M * s.den \in Nat
      BY <1>1, <1>5, <3>1, SMT
    <3>5. count * s.num <= M * s.den
      BY <2>3, <3>1, <3>2, <3>3, <3>4
    <3>6. own <= M
      BY <1>5, <2>2, <2>3, <3>1, <3>5, QuotientBound
    <3> QED BY <2>4, <2>5, <3>1, <3>6 DEF M
  <2> QED BY <2>5, <2>6 DEF distinct
<1> QED BY <1>5, <1>6, <1>7

(* What the planner promises the generator can make: there are more quantiles *)
(* than splits, and no more splits than uuids in the interval.                *)
THEOREM PlannedSplitsCanBeMade ==
    ASSUME NEW info \in SchemaInfos, info.class_count # NoStatistics,
           NEW q, IsQuery(q), Validates(q), NEW pages,
           Capacity(info, q) # NoStatistics,
           NumberOfSplits(info, q, pages) \in Nat \ {0, 1}
    PROVE  LET f == PaginationField(info, q)
               n == NumberOfSplits(info, q, pages)
           IN  /\ EnoughQuantiles(info, f, n)
               /\ f \in Uuid4Fields /\ q.rest.kind = "fractional" =>
                     n <= MeasureIntInterval(UuidInterval(q, f))
<1> DEFINE f == PaginationField(info, q)
           n == NumberOfSplits(info, q, pages)
           capacity == Capacity(info, q)
           distinct == DistinctResultSetEstimate(info, q)
           regions == Len(CapacityQuantiles(info.quantiles[f], IntegerInterval(q, f))) + 1
<1>1. /\ distinct \in Nat
      /\ q.rest.kind = "fractional" =>
            \A g \in Uuid4Fields :
               distinct <= 1 \/ distinct <= MeasureIntInterval(UuidInterval(q, g))
  BY DistinctEstimateBound
<1>2. /\ capacity = IF f \notin EligibleFields(q) THEN NoStatistics
                    ELSE IF f \in Uuid4Fields THEN distinct
                    ELSE IF info.quantiles[f] = NoStatistics THEN NoStatistics
                    ELSE IF regions <= distinct THEN regions ELSE distinct
      /\ capacity # NoStatistics
  BY DEF Capacity, PaginationCapacity
<1>3. f \in EligibleFields(q) /\ f \in Fields
  BY <1>2 DEF EligibleFields
<1>4. n \in Nat /\ n >= 2 /\ n = IF capacity <= pages THEN capacity ELSE pages
  BY DEF NumberOfSplits
<1> HIDE DEF f, n, distinct, regions, capacity
<1>5. ASSUME f \in Uuid4Fields
      PROVE  /\ EnoughQuantiles(info, f, n)
             /\ q.rest.kind = "fractional" => n <= MeasureIntInterval(UuidInterval(q, f))
  <2>1. capacity = distinct
    BY <1>2, <1>3, <1>5
  <2>2. n <= distinct
    BY <1>1, <1>4, <2>1
  <2>3. MeasureIntInterval(UuidInterval(q, f)) \in Nat
    BY <1>3, IntegerIntervalBounds, UuidIntervalMeasure DEF UuidInterval
  <2> QED BY <1>1, <1>4, <1>5, <2>2, <2>3 DEF EnoughQuantiles
<1>6. ASSUME f \notin Uuid4Fields PROVE EnoughQuantiles(info, f, n)
  <2>1. /\ info.quantiles[f] # NoStatistics
        /\ capacity = IF regions <= distinct THEN regions ELSE distinct
    BY <1>2, <1>3, <1>6
  <2>2. info.quantiles[f] \in Seq(Int) /\ Len(info.quantiles[f]) \in Nat
    BY <1>3, <2>1, PaginationAssumption, LenProperties
  <2>3. IntegerInterval(q, f) \in Intervals
    BY <1>3, IntegerIntervalBounds
  <2>4. regions \in Nat /\ (regions >= 2 => regions < Len(info.quantiles[f]))
    BY <2>2, <2>3, CapacityIsBounded DEF regions
  <2>5. n <= regions
    BY <1>1, <1>4, <2>1, <2>4
  <2> QED BY <1>4, <2>1, <2>2, <2>4, <2>5 DEF EnoughQuantiles
<1> QED BY <1>5, <1>6 DEF f, n

-----------------------------------------------------------------------------
(* The intervals a split leaves *)

(* A filter that stays has the interval it had.                               *)
LEMMA KeptInterval ==
    ASSUME NEW q, IsQuery(q), Sound(q), NEW f \in EligibleFields(q), NEW op \in {"<", ">="},
           NEW p \in Int, NEW d \in q.directives \ Redundant(q, f, op), ~d.tagged
    PROVE  IntervalOfDirective(AddPaginationFilter(q, f, op, p), d) = IntervalOfDirective(q, d)
<1> DEFINE new == AddPaginationFilter(q, f, op, p)
<1>0. f \in Fields
  BY DEF EligibleFields
<1>1. ASSUME NEW n \in NamesIn({d}) PROVE new.parameters[n] = q.parameters[n]
  <2>1. n \in DOMAIN q.parameters /\ n \notin Deleted(q, f, op)
    BY KeptParameters
  <2> HIDE DEF new
  <2> QED BY <1>0, <2>1, AddedFilterParts DEF new
<1>2. d.args[1] \in NamesIn({d}) /\ d.args[Len(d.args)] \in NamesIn({d})
  BY DirectiveArguments
<1> HIDE DEF new
<1> QED BY <1>1, <1>2 DEF IntervalOfDirective, new

(* The new filter has the interval on its side of the parameter.              *)
LEMMA AddedInterval ==
    ASSUME NEW q, IsQuery(q), Sound(q), NEW f \in EligibleFields(q), NEW op \in {"<", ">="},
           NEW p \in Int
    PROVE  IntervalOfDirective(AddPaginationFilter(q, f, op, p), Added(q, f, op))
             = [lower_bound |-> IF op = "<" THEN NoBound ELSE p,
                upper_bound |-> IF op = "<" THEN p - 1 ELSE NoBound]
<1> DEFINE new == AddPaginationFilter(q, f, op, p)
           name == NewName(DOMAIN q.parameters)
<1>0. f \in Fields
  BY DEF EligibleFields
<1>1. name \notin Deleted(q, f, op)
  <2>1. name \notin DOMAIN q.parameters
    BY <1>0, AddedFilterParts
  <2>2. ASSUME NEW d \in Redundant(q, f, op) PROVE d.args[1] \in DOMAIN q.parameters
    <3>1. d \in q.directives /\ d.args[1] \in NamesIn({d})
      BY RedundantFilters
    <3> QED BY <3>1 DEF Sound, Validates, ParametersUsed, NamesIn
  <2> QED BY <2>1, <2>2 DEF Deleted
<1> HIDE DEF new
<1>2. new.parameters[name] = p
  BY <1>0, <1>1, AddedFilterParts DEF new
<1>3. Added(q, f, op).op = op /\ Added(q, f, op).args = <<name>>
  BY DEF Added
<1>4. IntervalOfDirective(new, Added(q, f, op)) = FilterInterval(op, p, p)
  BY <1>2, <1>3 DEF IntervalOfDirective
<1> QED BY <1>4 DEF FilterInterval, new

(* The filters on a field after the split.                                    *)
LEMMA SplitFilters ==
    ASSUME NEW q, IsQuery(q), Sound(q), NEW f \in EligibleFields(q), NEW op \in {"<", ">="},
           NEW p \in Int
    PROVE  LET new == AddPaginationFilter(q, f, op, p)
           IN  /\ IsQuery(new) /\ Validates(new)
               /\ Redundant(q, f, op) \subseteq InequalityFilters(q, f)
               /\ InequalityFilters(new, f)
                    = (InequalityFilters(q, f) \ Redundant(q, f, op)) \cup {Added(q, f, op)}
               /\ \A d \in InequalityFilters(q, f) \ Redundant(q, f, op) :
                     IntervalOfDirective(new, d) = IntervalOfDirective(q, d)
               /\ \A g \in Fields \ {f} : IntegerInterval(new, g) = IntegerInterval(q, g)
<1> DEFINE new == AddPaginationFilter(q, f, op, p)
           kept == q.directives \ Redundant(q, f, op)
<1>0. f \in Fields
  BY DEF EligibleFields
<1>1. IsQuery(new) /\ new.directives = kept \cup {Added(q, f, op)}
  BY <1>0, AddedFilterParts
<1>2. Validates(new)
  BY AddedFilterIsSound DEF Sound
<1>3. \A d \in kept : ~d.tagged => IntervalOfDirective(new, d) = IntervalOfDirective(q, d)
  BY KeptInterval
<1>4. /\ Added(q, f, op).field = f /\ Added(q, f, op).op \in InequalityOperators
      /\ ~Added(q, f, op).tagged
  BY DEF Added, InequalityOperators
<1>5. Redundant(q, f, op) \subseteq InequalityFilters(q, f)
  BY DEF Redundant, InequalityFilters, InequalityOperators, EligibleFields, FiltersOnField
<1> HIDE DEF new
<1>6. InequalityFilters(new, f)
        = (InequalityFilters(q, f) \ Redundant(q, f, op)) \cup {Added(q, f, op)}
  BY <1>1, <1>4 DEF InequalityFilters, FiltersOnField
<1>7. ASSUME NEW g \in Fields \ {f} PROVE IntegerInterval(new, g) = IntegerInterval(q, g)
  <2>1. \A d \in Redundant(q, f, op) : d.field = f
    BY DEF Redundant, FiltersOnField
  <2>2. InequalityFilters(new, g) = InequalityFilters(q, g)
    BY <1>1, <1>4, <2>1 DEF InequalityFilters, FiltersOnField
  <2>3. \A d \in InequalityFilters(q, g) :
           IntervalOfDirective(new, d) = IntervalOfDirective(q, d)
    BY <1>3, <2>1 DEF InequalityFilters, FiltersOnField
  <2>4. {IntervalOfDirective(new, d) : d \in InequalityFilters(new, g)}
          = {IntervalOfDirective(q, d) : d \in InequalityFilters(q, g)}
    BY <2>2, <2>3
  <2> QED BY <2>4 DEF IntegerInterval
<1>8. \A d \in InequalityFilters(q, f) \ Redundant(q, f, op) :
         IntervalOfDirective(new, d) = IntervalOfDirective(q, d)
  BY <1>3 DEF InequalityFilters, FiltersOnField
<1> QED BY <1>1, <1>2, <1>5, <1>6, <1>7, <1>8 DEF new

(* The remainder has the interval of the query from the parameter on, and     *)
(* loses nothing on other fields.                                             *)
LEMMA RemainderInterval ==
    ASSUME NEW q, IsQuery(q), Sound(q), NEW f \in EligibleFields(q), NEW p \in Int,
           Fits(q, f, p)
    PROVE  LET new == AddPaginationFilter(q, f, ">=", p)
           IN  IntegerInterval(new, f)
                 = [lower_bound |-> p, upper_bound |-> IntegerInterval(q, f).upper_bound]
<1> DEFINE new == AddPaginationFilter(q, f, ">=", p)
           I == IntegerInterval(q, f)
           J == IntegerInterval(new, f)
           F == InequalityFilters(q, f)
           removed == Redundant(q, f, ">=")
           added == Added(q, f, ">=")
           i(d) == IntervalOfDirective(q, d)
           j(d) == IntervalOfDirective(new, d)
<1>0. f \in Fields /\ Validates(q)
  BY DEF EligibleFields, Sound
<1>1. /\ IsQuery(new) /\ Validates(new) /\ removed \subseteq F
      /\ InequalityFilters(new, f) = (F \ removed) \cup {added}
      /\ \A d \in F \ removed : j(d) = i(d)
  BY SplitFilters
<1>2. j(added).lower_bound = p /\ j(added).upper_bound = NoBound
  BY AddedInterval
<1>3. /\ I \in Intervals
      /\ \A d \in F : i(d) \in Intervals
      /\ \A d \in F : i(d).lower_bound # NoBound =>
            I.lower_bound # NoBound /\ i(d).lower_bound <= I.lower_bound
      /\ \A d \in F : i(d).upper_bound # NoBound =>
            I.upper_bound # NoBound /\ I.upper_bound <= i(d).upper_bound
      /\ I.upper_bound # NoBound => \E d \in F : i(d).upper_bound = I.upper_bound
  BY <1>0, IntegerIntervalBounds, DirectiveInterval
<1>4. \A d \in removed : i(d).upper_bound = NoBound
  <2>1. \A d \in removed : d.op = ">="
    BY DEF Redundant
  <2> QED BY <1>0, <1>1, <2>1, DirectiveInterval
<1>5. I.lower_bound # NoBound => I.lower_bound <= p
  BY DEF Fits
<1> DEFINE G == InequalityFilters(new, f)
<1>6. /\ J \in Intervals
      /\ \A d \in G : j(d).lower_bound # NoBound =>
            J.lower_bound # NoBound /\ j(d).lower_bound <= J.lower_bound
      /\ \A d \in G : j(d).upper_bound # NoBound =>
            J.upper_bound # NoBound /\ J.upper_bound <= j(d).upper_bound
      /\ J.lower_bound # NoBound => \E d \in G : j(d).lower_bound = J.lower_bound
      /\ J.upper_bound # NoBound => \E d \in G : j(d).upper_bound = J.upper_bound
  <2> HIDE DEF new
  <2> QED BY <1>0, <1>1, IntegerIntervalBounds
<1>7. G = (F \ removed) \cup {added}
  BY <1>1
<1> HIDE DEF new, I, J, F, G, removed, added, i, j
<1>8. J.lower_bound = p
  <2>1. J.lower_bound # NoBound /\ p <= J.lower_bound
    BY <1>2, <1>6, <1>7, NoBoundAssumption
  <2>2. PICK d \in G : j(d).lower_bound = J.lower_bound
    BY <1>6, <2>1
  <2>3. J.lower_bound \in Int
    BY <1>6, <2>1 DEF Intervals, Bounds
  <2>4. CASE d = added
    BY <1>2, <2>2, <2>4
  <2>5. CASE d # added
    <3>1. d \in F /\ i(d).lower_bound = J.lower_bound
      BY <1>1, <1>7, <2>2, <2>5
    <3>2. I.lower_bound # NoBound /\ J.lower_bound <= I.lower_bound
      BY <1>3, <2>1, <3>1
    <3>3. I.lower_bound \in Int
      BY <1>3, <3>2 DEF Intervals, Bounds
    <3> QED BY <1>5, <2>1, <2>3, <3>2, <3>3
  <2> QED BY <2>4, <2>5
<1>9. J.upper_bound = I.upper_bound
  <2>1. ASSUME J.upper_bound # NoBound
        PROVE  I.upper_bound # NoBound /\ I.upper_bound <= J.upper_bound
    <3>1. PICK d \in G : j(d).upper_bound = J.upper_bound
      BY <1>6, <2>1
    <3>2. d \in F \ removed
      BY <1>2, <1>7, <2>1, <3>1
    <3> QED BY <1>1, <1>3, <2>1, <3>1, <3>2
  <2>2. ASSUME I.upper_bound # NoBound
        PROVE  J.upper_bound # NoBound /\ J.upper_bound <= I.upper_bound
    <3>1. PICK d \in F : i(d).upper_bound = I.upper_bound
      BY <1>3, <2>2
    <3>2. d \in F \ removed
      BY <1>4, <2>2, <3>1
    <3> QED BY <1>1, <1>6, <1>7, <2>2, <3>1, <3>2
  <2>3. I.upper_bound \in Bounds /\ J.upper_bound \in Bounds
    BY <1>3, <1>6 DEF Intervals
  <2> QED BY <2>1, <2>2, <2>3 DEF Bounds
<1>10. J = [lower_bound |-> J.lower_bound, upper_bound |-> J.upper_bound]
  BY <1>6 DEF Intervals
<1> QED BY <1>8, <1>9, <1>10 DEF I, J, new

(* A parameter inside of the interval leaves something below it.              *)
LEMMA PageIsNotEmpty ==
    ASSUME NEW q, IsQuery(q), Sound(q), NEW f \in EligibleFields(q), NEW p \in Int,
           FitsStrictly(q, f, p)
    PROVE  ~IsEmpty(IntegerInterval(AddPaginationFilter(q, f, "<", p), f))
<1> DEFINE new == AddPaginationFilter(q, f, "<", p)
           I == IntegerInterval(q, f)
           J == IntegerInterval(new, f)
           F == InequalityFilters(q, f)
           G == InequalityFilters(new, f)
           added == Added(q, f, "<")
           i(d) == IntervalOfDirective(q, d)
           j(d) == IntervalOfDirective(new, d)
<1>0. f \in Fields /\ Validates(q)
  BY DEF EligibleFields, Sound
<1>1. /\ IsQuery(new) /\ Validates(new) /\ added \in G
      /\ \A d \in G : d = added \/ (d \in F /\ j(d) = i(d))
  BY SplitFilters
<1>2. j(added).lower_bound = NoBound /\ j(added).upper_bound = p - 1
  BY AddedInterval
<1>3. /\ I \in Intervals
      /\ \A d \in F : i(d).lower_bound # NoBound =>
            I.lower_bound # NoBound /\ i(d).lower_bound <= I.lower_bound
      /\ \A d \in F : i(d).upper_bound # NoBound =>
            I.upper_bound # NoBound /\ I.upper_bound <= i(d).upper_bound
  BY <1>0, IntegerIntervalBounds
<1>4. /\ I.lower_bound # NoBound => I.lower_bound < p
      /\ I.upper_bound # NoBound => p <= I.upper_bound
  BY DEF FitsStrictly
<1>5. /\ J \in Intervals
      /\ J.lower_bound # NoBound => \E d \in G : j(d).lower_bound = J.lower_bound
      /\ J.upper_bound # NoBound => \E d \in G : j(d).upper_bound = J.upper_bound
  <2> HIDE DEF new
  <2> QED BY <1>0, <1>1, IntegerIntervalBounds
<1> HIDE DEF new, I, J, F, G, added, i, j
<1>6. SUFFICES ASSUME J.lower_bound # NoBound, J.upper_bound # NoBound
               PROVE  J.lower_bound <= J.upper_bound
  BY <1>5 DEF IsEmpty, J, new, Intervals, Bounds
<1>7. J.lower_bound \in Int /\ J.upper_bound \in Int
  BY <1>5, <1>6 DEF Intervals, Bounds
<1>8. J.lower_bound < p
  <2>1. PICK d \in G : j(d).lower_bound = J.lower_bound
    BY <1>5, <1>6
  <2>2. d \in F /\ i(d).lower_bound = J.lower_bound
    BY <1>1, <1>2, <1>6, <2>1
  <2>3. I.lower_bound # NoBound /\ J.lower_bound <= I.lower_bound
    BY <1>3, <1>6, <2>2
  <2>4. I.lower_bound \in Int
    BY <1>3, <2>3 DEF Intervals, Bounds
  <2> QED BY <1>4, <1>7, <2>3, <2>4
<1>9. p - 1 <= J.upper_bound
  <2>1. PICK d \in G : j(d).upper_bound = J.upper_bound
    BY <1>5, <1>6
  <2>2. CASE d = added
    BY <1>2, <1>7, <2>1, <2>2
  <2>3. CASE d # added
    <3>1. I.upper_bound # NoBound /\ I.upper_bound <= J.upper_bound
      BY <1>1, <1>3, <1>6, <2>1, <2>3
    <3>2. I.upper_bound \in Int
      BY <1>3, <3>1 DEF Intervals, Bounds
    <3> QED BY <1>4, <1>7, <3>1, <3>2
  <2> QED BY <2>2, <2>3
<1> QED BY <1>7, <1>8, <1>9

(* The remainder of a split inside of the interval is not empty either, and   *)
(* starts higher than the query.                                              *)
LEMMA RemainderIsNotEmpty ==
    ASSUME NEW q, IsQuery(q), Sound(q), NEW f \in EligibleFields(q), NEW p \in Int,
           FitsStrictly(q, f, p)
    PROVE  LET I == IntegerInterval(q, f)
               J == IntegerInterval(AddPaginationFilter(q, f, ">=", p), f)
           IN  /\ ~IsEmpty(J)
               /\ J.lower_bound # NoBound
               /\ I.lower_bound # NoBound => I.lower_bound < J.lower_bound
<1> DEFINE I == IntegerInterval(q, f)
           J == IntegerInterval(AddPaginationFilter(q, f, ">=", p), f)
<1>0. f \in Fields /\ Validates(q)
  BY DEF EligibleFields, Sound
<1>1. I \in Intervals
  BY <1>0, IntegerIntervalBounds
<1>2. /\ I.lower_bound # NoBound => I.lower_bound < p
      /\ I.upper_bound # NoBound => p <= I.upper_bound
  BY DEF FitsStrictly
<1>3. Fits(q, f, p)
  BY <1>1, <1>2 DEF Fits, Intervals, Bounds
<1>4. J = [lower_bound |-> p, upper_bound |-> I.upper_bound]
  BY <1>3, RemainderInterval
<1> HIDE DEF I, J
<1>5. J.lower_bound = p /\ J.upper_bound = I.upper_bound
  BY <1>4
<1>6. I.upper_bound # NoBound => I.upper_bound \in Int
  BY <1>1 DEF Intervals, Bounds
<1>7. ~IsEmpty(J) /\ J.lower_bound # NoBound
  BY <1>2, <1>5, <1>6, NoBoundAssumption DEF IsEmpty
<1> QED BY <1>2, <1>5, <1>7 DEF I, J

(* The remainder of a split at a value of the field can be written with       *)
(* values of its fields, as its query can.                                    *)
LEMMA RemainderIsConvertible ==
    ASSUME NEW q, IsQuery(q), Sound(q), NEW f \in EligibleFields(q), NEW p \in Int,
           Fits(q, f, p), f \in Uuid4Fields => p \in 0..MaxUuid,
           \A g \in Fields : ConvertibleInterval(q, g), NEW g \in Fields
    PROVE  ConvertibleInterval(AddPaginationFilter(q, f, ">=", p), g)
<1> DEFINE new == AddPaginationFilter(q, f, ">=", p)
<1>1. CASE g # f
  <2>1. IntegerInterval(new, g) = IntegerInterval(q, g)
    BY <1>1, SplitFilters
  <2>2. ConvertibleInterval(q, g)
    OBVIOUS
  <2> HIDE DEF new
  <2>3. ConvertibleInterval(new, g)
    BY <2>1, <2>2 DEF ConvertibleInterval
  <2> QED BY <2>3 DEF new
<1>2. CASE g = f
  <2>1. IntegerInterval(new, f)
          = [lower_bound |-> p, upper_bound |-> IntegerInterval(q, f).upper_bound]
    BY RemainderInterval
  <2>2. f \in Uuid4Fields => {IntegerInterval(q, f).upper_bound} \ {NoBound} \subseteq 0..MaxUuid
    BY <1>2 DEF ConvertibleInterval
  <2> HIDE DEF new
  <2>3. ConvertibleInterval(new, f)
    BY <2>1, <2>2 DEF ConvertibleInterval
  <2> QED BY <1>2, <2>3 DEF new
<1> QED BY <1>1, <1>2

-----------------------------------------------------------------------------
(* Sessions *)

(* What the steps of a call hand on: the planner only plans with a class      *)
(* count, its plan can be made while the statistics stay, and the parameter   *)
(* is a value of its field that leaves something on both sides.               *)
WithinReach ==
    /\ query.rest = whole.rest
    /\ pc = "plan" => schema_info.class_count # NoStatistics
    /\ pc = "generate" =>
          /\ ~LiveStatistics =>
                EnoughQuantiles(schema_info, plan.pagination_field, plan.number_of_splits)
          /\ plan.pagination_field \in Uuid4Fields /\ whole.rest.kind = "fractional" =>
                plan.number_of_splits
                  <= MeasureIntInterval(UuidInterval(query, plan.pagination_field))
    /\ pc = "parameterize" =>
          /\ plan.pagination_field \in Uuid4Fields => parameter \in 0..MaxUuid
          /\ CountsValues => FitsStrictly(query, plan.pagination_field, parameter)

(* What a split leaves: a remainder that can be paginated again, and, if the  *)
(* number of splits counts values, two parts that are not empty and a         *)
(* remainder that starts higher.                                              *)
SplitsMoveOn ==
    pc = "returned" /\ remainder # <<>> =>
        /\ remainder[1].rest = whole.rest
        /\ WellFormed(whole) => \A f \in Fields : ConvertibleInterval(remainder[1], f)
        /\ Sound(whole) /\ CountsValues =>
              LET from == FieldInterval(query).lower_bound
                  to == FieldInterval(remainder[1]).lower_bound
              IN  /\ ~IsEmpty(FieldInterval(page)) /\ ~IsEmpty(FieldInterval(remainder[1]))
                  /\ to # NoBound /\ (from # NoBound => from < to)

SessionInv ==
    /\ WithinReach
    /\ SplitsMoveOn
    /\ WellFormed(whole) => \A f \in Fields : ConvertibleInterval(query, f)
    /\ RaisesOnlyOnBadQueries

LEMMA SessionInit == Init => SessionInv
BY DEF Init, SessionInv, WithinReach, SplitsMoveOn, RaisesOnlyOnBadQueries, WellFormed

(* The parameters of redundant filters of a sound query can all be deleted.   *)
LEMMA SoundParametersDeletable ==
    ASSUME NEW q, IsQuery(q), Sound(q), NEW f \in EligibleFields(q), NEW op \in {"<", ">="}
    PROVE  ParametersDeletable(q, f, op)
<1>0. ASSUME NEW c \in Redundant(q, f, op)
      PROVE  c \in q.directives /\ c.op = op /\ ~c.tagged /\ c.args[1] \in NamesIn({c})
  <2>1. c \in q.directives /\ c.op = op /\ ~c.tagged
    BY RedundantFilters, Zenon
  <2>2. c.args[1] \in NamesIn({c})
    BY RedundantFilters
  <2> QED BY <2>1, <2>2
<1> SUFFICES ASSUME NEW d \in Redundant(q, f, op), NEW e \in Redundant(q, f, op),
                    d.args[1] = e.args[1], d # e
             PROVE  FALSE
  BY DEF ParametersDeletable
<1>1. /\ d \in q.directives /\ d.op = op /\ ~d.tagged
      /\ e \in q.directives /\ e.args[1] \in NamesIn({e})
  BY <1>0
<1>2. d.args[1] \notin NamesIn(q.directives \ {d})
  BY <1>1 DEF Sound, SharesNoParameter
<1>3. {e} \subseteq q.directives \ {d}
  BY <1>1
<1>4. NamesIn({e}) \subseteq NamesIn(q.directives \ {d})
  BY <1>3, NamesInPart
<1> QED BY <1>1, <1>2, <1>4

(* No step raises for a well-formed query as long as statistics are a         *)
(* snapshot.                                                                  *)
LEMMA NothingRaises ==
    ASSUME CallInv, Tracked, SessionInv, WellFormed(whole), ~LiveStatistics
    PROVE  ~(RejectArguments \/ RejectInterval \/ RejectPartition \/ RejectDeletion
               \/ RejectPage)
<1>1. Sound(whole) /\ Sound(query) /\ IsQuery(query)
  BY DEF WellFormed, Tracked, CallInv, TypeOK
<1>2. \A f \in Fields : ConvertibleInterval(query, f)
  BY DEF SessionInv
<1>3. ~RejectArguments
  BY <1>1 DEF RejectArguments, Sound
<1>4. ~RejectInterval
  BY <1>2 DEF RejectInterval, FilteredFields
<1>5. ~RejectPartition
  BY DEF RejectPartition, SessionInv, WithinReach
<1>6. ~RejectDeletion
  <2> SUFFICES ASSUME RejectDeletion PROVE FALSE
    OBVIOUS
  <2>1. PICK op \in {"<", ">="} : ~ParametersDeletable(query, plan.pagination_field, op)
    BY DEF RejectDeletion
  <2>2. plan.pagination_field \in EligibleFields(query)
    BY DEF RejectDeletion, CallInv, Planned
  <2> QED BY <1>1, <2>1, <2>2, SoundParametersDeletable
<1>7. ~RejectPage
  BY <1>1 DEF RejectPage, Tracked, Sound
<1> QED BY <1>3, <1>4, <1>5, <1>6, <1>7

LEMMA SessionNext == CallInv /\ Tracked /\ SessionInv /\ [Next]_vars => SessionInv'
<1> SUFFICES ASSUME CallInv, Tracked, SessionInv, [Next]_vars PROVE SessionInv'
  OBVIOUS
<1> USE DEF environment, local, result
<1>1. ASSUME NEW e, Raise(e), ~(WellFormed(whole) /\ ~LiveStatistics) PROVE SessionInv'
  BY <1>1 DEF Raise, SessionInv, WithinReach, SplitsMoveOn, RaisesOnlyOnBadQueries
<1>2. ASSUME NEW a, ReturnWhole(a) PROVE SessionInv'
  BY <1>2 DEF ReturnWhole, SessionInv, WithinReach, SplitsMoveOn, RaisesOnlyOnBadQueries
<1>3. CASE RejectArguments \/ RejectInterval \/ RejectPartition \/ RejectDeletion \/ RejectPage
  <2>1. ~(WellFormed(whole) /\ ~LiveStatistics)
    BY <1>3, NothingRaises
  <2> QED BY <1>1, <1>3, <2>1 DEF RejectArguments, RejectInterval, RejectPartition,
             RejectDeletion, RejectPage
<1>4. CASE ReturnWithoutCounts \/ PlanWithoutKeys \/ PlanWithoutCapacity \/ PlanOnePage
             \/ GenerateNothing
  BY <1>2, <1>4 DEF ReturnWithoutCounts, PlanWithoutKeys, PlanWithoutCapacity, PlanOnePage,
                    GenerateNothing
<1>5. CASE EstimateNumberOfPages
  <2>1. CASE num_pages' > 1
    BY <1>5, <2>1 DEF EstimateNumberOfPages, SessionInv, WithinReach, SplitsMoveOn,
                      RaisesOnlyOnBadQueries
  <2>2. CASE ~(num_pages' > 1)
    BY <1>2, <1>5, <2>2 DEF EstimateNumberOfPages
  <2> QED BY <2>1, <2>2
<1>6. CASE PlanVertexPartition
  <2> DEFINE f == PaginationField(schema_info, query)
             n == NumberOfSplits(schema_info, query, num_pages)
  <2>1. /\ pc = "plan" /\ pc' = "generate"
        /\ plan' = [pagination_field |-> f, number_of_splits |-> n]
        /\ Capacity(schema_info, query) # NoStatistics /\ n \in Nat \ {0, 1}
        /\ UNCHANGED <<schema_info, whole, query>>
    BY <1>6 DEF PlanVertexPartition, WorthSplitting
  <2>2. /\ schema_info \in SchemaInfos /\ schema_info.class_count # NoStatistics
        /\ IsQuery(query) /\ Validates(query) /\ query.rest = whole.rest
    BY <2>1 DEF CallInv, TypeOK, Planned, SessionInv, WithinReach
  <2>3. /\ EnoughQuantiles(schema_info, f, n)
        /\ f \in Uuid4Fields /\ query.rest.kind = "fractional" =>
              n <= MeasureIntInterval(UuidInterval(query, f))
    BY <2>1, <2>2, PlannedSplitsCanBeMade
  <2> HIDE DEF f, n
  <2>4. plan'.pagination_field = f /\ plan'.number_of_splits = n
    BY <2>1
  <2>5. WithinReach'
    BY <2>1, <2>2, <2>3, <2>4 DEF WithinReach
  <2> QED BY <2>1, <2>5 DEF SessionInv, SplitsMoveOn, RaisesOnlyOnBadQueries
<1>7. CASE GenerateParameter
  <2> DEFINE f == plan.pagination_field
             n == plan.number_of_splits
             values == GeneratedParameters(schema_info, query, f, n)
  <2>1. /\ EnoughQuantiles(schema_info, f, n)
        /\ values # <<>> /\ parameter' = values[1] /\ pc = "generate" /\ pc' = "parameterize"
        /\ UNCHANGED <<environment, whole, query, num_pages, plan, result, error, fetched>>
    BY <1>7 DEF GenerateParameter
  <2>2. /\ schema_info \in SchemaInfos /\ IsQuery(query) /\ Validates(query)
        /\ f \in EligibleFields(query) /\ n \in Nat \ {0, 1}
        /\ \A g \in FilteredFields(query) : ConvertibleInterval(query, g)
    BY <2>1 DEF CallInv, TypeOK, Planned
  <2>3. f \in Fields
    BY <2>2 DEF EligibleFields
  <2>4. /\ f \in Uuid4Fields => values[1] \in 0..MaxUuid
        /\ f \notin Uuid4Fields \/ n <= MeasureIntInterval(UuidInterval(query, f)) =>
              FitsStrictly(query, f, values[1])
    BY <2>1, <2>2, <2>3, GeneratedParameterFits
  <2> HIDE DEF values
  <2>5. CountsValues => FitsStrictly(query, f, values[1])
    BY <2>1, <2>4 DEF CountsValues, SessionInv, WithinReach
  <2>6. CountsValues' = CountsValues
    BY <2>1 DEF CountsValues
  <2>7. WithinReach'
    BY <2>1, <2>4, <2>5, <2>6 DEF WithinReach, SessionInv
  <2> QED BY <2>1, <2>7 DEF SessionInv, SplitsMoveOn, RaisesOnlyOnBadQueries
<1>8. CASE GenerateParameterizedQueries
  <2> DEFINE f == plan.pagination_field
             below == AddPaginationFilter(query, f, "<", parameter)
             from == AddPaginationFilter(query, f, ">=", parameter)
  <2>1. /\ pc = "parameterize" /\ pc' = "returned" /\ page' = below /\ remainder' = <<from>>
        /\ UNCHANGED <<environment, whole, query, local, advisories, error, fetched>>
    BY <1>8 DEF GenerateParameterizedQueries
  <2>2. /\ IsQuery(query) /\ f \in EligibleFields(query) /\ f \in Fields
        /\ parameter \in Int /\ Fits(query, f, parameter)
    BY <2>1 DEF CallInv, TypeOK, Planned, EligibleFields
  <2>3. /\ query.rest = whole.rest
        /\ f \in Uuid4Fields => parameter \in 0..MaxUuid
        /\ CountsValues => FitsStrictly(query, f, parameter)
        /\ WellFormed(whole) => \A g \in Fields : ConvertibleInterval(query, g)
    BY <2>1 DEF SessionInv, WithinReach
  <2>4. Sound(whole) => Sound(query)
    BY DEF Tracked
  <2>5. from.rest = whole.rest
    BY <2>2, <2>3, AddedFilterParts DEF SameEstimates
  <2>6. WellFormed(whole) => \A g \in Fields : ConvertibleInterval(from, g)
    BY <2>2, <2>3, <2>4, RemainderIsConvertible DEF WellFormed
  <2>7. Sound(whole) /\ CountsValues =>
           /\ ~IsEmpty(IntegerInterval(below, f)) /\ ~IsEmpty(IntegerInterval(from, f))
           /\ IntegerInterval(from, f).lower_bound # NoBound
           /\ IntegerInterval(query, f).lower_bound # NoBound =>
                 IntegerInterval(query, f).lower_bound < IntegerInterval(from, f).lower_bound
    BY <2>2, <2>3, <2>4, PageIsNotEmpty, RemainderIsNotEmpty
  <2> HIDE DEF below, from
  <2>8. remainder'[1] = from /\ CountsValues' = CountsValues
    BY <2>1 DEF CountsValues
  <2>9. SplitsMoveOn'
    BY <2>1, <2>5, <2>6, <2>7, <2>8 DEF SplitsMoveOn, FieldInterval
  <2> QED BY <2>1, <2>3, <2>9 DEF SessionInv, WithinReach, RaisesOnlyOnBadQueries
<1>9. CASE ExecutePage
  BY <1>9 DEF ExecutePage, SessionInv, WithinReach, SplitsMoveOn, RaisesOnlyOnBadQueries
<1>10. CASE RefreshStatistics
  <2>1. WithinReach'
    BY <1>10 DEF RefreshStatistics, SessionInv, WithinReach, CountsValues
  <2> QED BY <1>10, <2>1 DEF RefreshStatistics, SessionInv, SplitsMoveOn, CountsValues,
             FieldInterval, RaisesOnlyOnBadQueries
<1>11. CASE (\E r \in MutableRows : UpdateRow(r)) \/ UNCHANGED vars
  <2>1. UNCHANGED <<schema_info, whole, query, pc, local, result>>
    BY <1>11 DEF UpdateRow, vars
  <2> QED BY <2>1 DEF SessionInv, WithinReach, SplitsMoveOn, CountsValues, FieldInterval,
             RaisesOnlyOnBadQueries
<1> QED
  BY <1>3, <1>4, <1>5, <1>6, <1>7, <1>8, <1>9, <1>10, <1>11 DEF Next, Paginate, Client

LEMMA SessionInvariant == Spec => []SessionInv
BY SessionInit, SessionNext, CallInvariant, TrackedInvariant, PTL DEF Spec

(* No call on a well-formed query raises, and no call on what is left of it.  *)
THEOREM RaisesOnlyOnBad == Spec => []RaisesOnlyOnBadQueries
<1>1. SessionInv => RaisesOnlyOnBadQueries
  BY DEF SessionInv
<1> QED BY <1>1, SessionInvariant, PTL

(* Every split leaves something on both sides of its parameter.               *)
THEOREM NoSplitIsEmpty == Spec => []SplitsAreNotEmpty
<1>1. SessionInv => SplitsAreNotEmpty
  BY DEF SessionInv, SplitsMoveOn, SplitsAreNotEmpty
<1> QED BY <1>1, SessionInvariant, PTL

(* Each remainder starts higher on the field than the query it is left of.    *)
THEOREM PagingMovesUp == Spec => RemaindersMoveUp
<1>1. SessionInv /\ [Next]_vars =>
        [Sound(whole) /\ pc = "returned" /\ remainder # <<>> /\ CountsValues
           /\ query' # query =>
           LET from == FieldInterval(query).lower_bound
               to == FieldInterval(query').lower_bound
           IN  to # NoBound /\ (from # NoBound => from < to)]_vars
  <2> SUFFICES ASSUME SessionInv, [Next]_vars, Sound(whole), pc = "returned", remainder # <<>>,
                      CountsValues, query' # query
               PROVE  LET from == FieldInterval(query).lower_bound
                          to == FieldInterval(query').lower_bound
                      IN  to # NoBound /\ (from # NoBound => from < to)
    OBVIOUS
  <2>1. ExecutePage
    BY DEF Next, vars, environment, local, result, Paginate, Client, RejectArguments,
       ReturnWithoutCounts, EstimateNumberOfPages, PlanWithoutKeys, RejectInterval,
       PlanWithoutCapacity, PlanOnePage, PlanVertexPartition, RejectPartition, GenerateNothing,
       GenerateParameter, RejectDeletion, GenerateParameterizedQueries, RejectPage, UpdateRow,
       RefreshStatistics, Raise
  <2>2. query' = remainder[1]
    BY <2>1 DEF ExecutePage
  <2> QED BY <2>2 DEF SessionInv, SplitsMoveOn, FieldInterval
<1> QED BY <1>1, SessionInvariant, PTL DEF Spec, RemaindersMoveUp

-----------------------------------------------------------------------------
(* The chain of remainders *)

(* The filters the paginator added to a query.                                *)
OwnFilters(q) == {d \in q.directives : d.pos = 0}

(* They compare the pagination field of the query from below.                 *)
OwnFiltersOnKey(info, q) ==
    \A d \in OwnFilters(q) :
        AllKeys(info) # {} /\ d.op = ">=" /\ d.field = PaginationField(info, q)

HasGrownLittle(q) ==
    /\ Cardinality(OwnFilters(q)) <= 1
    /\ Cardinality(DOMAIN q.parameters)
         <= Cardinality(DOMAIN whole.parameters) + Cardinality(OwnFilters(q))

(* The first of some keys is one of them.                                     *)
LEMMA FirstKeyIsKey ==
    ASSUME NEW info \in SchemaInfos, NEW keys, keys # {}, keys \subseteq AllKeys(info)
    PROVE  FirstKey(info, keys) \in keys
<1> DEFINE key == info.pagination_keys
           At == {i \in DOMAIN key : key[i] \in keys}
<1>1. key \in Seq(Fields)
  BY PaginationAssumption
<1>2. At \in SUBSET Nat /\ At # {}
  BY <1>1 DEF AllKeys
<1>3. PICK i \in At : \A j \in At : i <= j
  BY <1>2, LeastNatural
<1>4. \A j \in 1..(i - 1) : key[j] \notin keys
  <2> SUFFICES ASSUME NEW j \in 1..(i - 1), key[j] \in keys PROVE FALSE
    OBVIOUS
  <2>1. i \in Nat /\ i \in 1..Len(key) /\ DOMAIN key = 1..Len(key)
    BY <1>1, <1>2
  <2>2. j \in At
    BY <2>1
  <2> QED BY <1>3, <2>1, <2>2
<1>5. \E k \in DOMAIN key : key[k] \in keys /\ \A j \in 1..(k - 1) : key[j] \notin keys
  BY <1>4
<1> HIDE DEF key
<1> QED BY <1>5 DEF FirstKey, key

(* The remainder of a split at the pagination field of a query has the same   *)
(* pagination field: it is now a key with a filter, and no other key was      *)
(* given one.                                                                 *)
LEMMA PaginationFieldStays ==
    ASSUME NEW info \in SchemaInfos, AllKeys(info) # {}, NEW q, IsQuery(q), NEW p \in Int,
           PaginationField(info, q) \in EligibleFields(q)
    PROVE  LET f == PaginationField(info, q)
           IN  PaginationField(info, AddPaginationFilter(q, f, ">=", p)) = f
<1> DEFINE f == PaginationField(info, q)
           new == AddPaginationFilter(q, f, ">=", p)
           filtered == AllKeys(info) \cap FilteredFields(q)
<1>0. f \in Fields /\ ">=" \in {"<", ">="}
  BY DEF EligibleFields
<1>1. FilteredFields(new) = FilteredFields(q) \cup {f}
  <2> HIDE DEF f
  <2>1. new.directives = (q.directives \ Redundant(q, f, ">=")) \cup {Added(q, f, ">=")}
    BY <1>0, AddedFilterParts
  <2>2. Added(q, f, ">=").field = f
    BY DEF Added
  <2>3. \A d \in Redundant(q, f, ">=") : d.field = f
    BY DEF Redundant, FiltersOnField
  <2> HIDE DEF new
  <2> QED BY <1>0, <2>1, <2>2, <2>3 DEF FilteredFields, FiltersOnField
<1>2. f = IF filtered # {} THEN FirstKey(info, filtered) ELSE info.pagination_keys[1]
  BY DEF PaginationField
<1>3. PaginationField(info, new)
        = LET keys == AllKeys(info) \cap FilteredFields(new)
          IN  IF keys # {} THEN FirstKey(info, keys) ELSE info.pagination_keys[1]
  BY DEF PaginationField
<1> HIDE DEF f, new
<1>4. CASE filtered # {}
  <2>1. f \in filtered
    BY <1>2, <1>4, FirstKeyIsKey
  <2>2. FilteredFields(new) = FilteredFields(q)
    BY <1>1, <2>1
  <2> QED BY <1>2, <1>3, <1>4, <2>2 DEF f, new
<1>5. CASE filtered = {}
  <2>1. f = info.pagination_keys[1] /\ info.pagination_keys \in Seq(Fields)
    BY <1>2, <1>5, PaginationAssumption
  <2>2. f \in AllKeys(info)
    BY <2>1 DEF AllKeys
  <2>3. AllKeys(info) \cap FilteredFields(new) = {f}
    BY <1>1, <1>5, <2>2
  <2>4. FirstKey(info, {f}) = f
    BY <2>2, FirstKeyIsKey
  <2> QED BY <1>3, <2>3, <2>4 DEF f, new
<1> QED BY <1>4, <1>5

(* The filter the paginator adds replaces the one it added before, and so     *)
(* does its parameter.                                                        *)
LEMMA RemainderHasGrownLittle ==
    ASSUME NEW info \in SchemaInfos, NEW q, IsQuery(q), Validates(q), IsQuery(whole),
           OwnFiltersOnKey(info, q), HasGrownLittle(q), NEW p \in Int,
           PaginationField(info, q) \in EligibleFields(q)
    PROVE  LET new == AddPaginationFilter(q, PaginationField(info, q), ">=", p)
           IN  /\ OwnFilters(new) = {Added(q, PaginationField(info, q), ">=")}
               /\ HasGrownLittle(new)
<1> DEFINE f == PaginationField(info, q)
           new == AddPaginationFilter(q, f, ">=", p)
           name == NewName(DOMAIN q.parameters)
           size == Cardinality(DOMAIN q.parameters)
<1>0. f \in Fields /\ ">=" \in {"<", ">="}
  BY DEF EligibleFields
<1>1. /\ new.directives = (q.directives \ Redundant(q, f, ">=")) \cup {Added(q, f, ">=")}
      /\ DOMAIN new.parameters = (DOMAIN q.parameters \cup {name}) \ Deleted(q, f, ">=")
      /\ name \notin DOMAIN q.parameters
  BY <1>0, AddedFilterParts
<1>2. OwnFilters(q) \subseteq Redundant(q, f, ">=")
  BY DEF OwnFilters, OwnFiltersOnKey, Redundant, FiltersOnField
<1>3. Added(q, f, ">=").pos = 0
  BY DEF Added
<1>4. f \in EligibleFields(q)
  OBVIOUS
<1> HIDE DEF f, new, name, size
<1>5. OwnFilters(new) = {Added(q, f, ">=")}
  BY <1>1, <1>2, <1>3 DEF OwnFilters
<1>6. Cardinality(OwnFilters(new)) = 1
  BY <1>5, FS_Singleton
<1>7. /\ IsFiniteSet(DOMAIN q.parameters) /\ size \in Nat
      /\ Cardinality(DOMAIN whole.parameters) \in Nat
  BY FS_CardinalityType DEF IsQuery, size
<1>8. /\ IsFiniteSet(DOMAIN q.parameters \cup {name})
      /\ Cardinality(DOMAIN q.parameters \cup {name}) = size + 1
  BY <1>1, <1>7, FS_AddElement DEF size
<1>9. CASE OwnFilters(q) = {}
  <2>1. Cardinality(OwnFilters(q)) = 0
    BY <1>9, FS_EmptySet
  <2>2. Cardinality(DOMAIN new.parameters) \in Nat
        /\ Cardinality(DOMAIN new.parameters) <= size + 1
    BY <1>1, <1>8, FS_Subset, FS_CardinalityType
  <2>3. size <= Cardinality(DOMAIN whole.parameters) + 0
    BY <2>1 DEF HasGrownLittle, size
  <2> QED BY <1>5, <1>6, <1>7, <2>2, <2>3 DEF HasGrownLittle, f, new
<1>10. CASE OwnFilters(q) # {}
  <2>1. PICK d \in Redundant(q, f, ">=") : TRUE
    BY <1>2, <1>10
  <2>2. d \in q.directives /\ d.args[1] \in NamesIn({d})
    BY <1>0, <1>4, <2>1, RedundantFilters
  <2>3. d.args[1] \in DOMAIN q.parameters /\ d.args[1] \in Deleted(q, f, ">=")
    BY <2>2 DEF Validates, ParametersUsed, NamesIn, Deleted
  <2> DEFINE rest == (DOMAIN q.parameters \cup {name}) \ {d.args[1]}
  <2>4. IsFiniteSet(rest) /\ Cardinality(rest) = size
    <3> DEFINE all == DOMAIN q.parameters \cup {name}
               read == d.args[1]
    <3>1. IsFiniteSet(all) /\ read \in all /\ Cardinality(all) = size + 1
      BY <1>8, <2>3
    <3> HIDE DEF all, read
    <3>2. /\ IsFiniteSet(all \ {read})
          /\ Cardinality(all \ {read}) = Cardinality(all) - 1
      BY <3>1, FS_RemoveElement
    <3>3. Cardinality(all \ {read}) = size
      BY <1>7, <3>1, <3>2
    <3> QED BY <3>2, <3>3 DEF all, read
  <2>5. DOMAIN new.parameters \in SUBSET rest
    BY <1>1, <2>3
  <2> HIDE DEF rest
  <2>6. Cardinality(DOMAIN new.parameters) \in Nat
        /\ Cardinality(DOMAIN new.parameters) <= size
    BY <2>4, <2>5, FS_Subset, FS_CardinalityType
  <2>7. Cardinality(OwnFilters(q)) \in Nat
    <3>1. IsFiniteSet(OwnFilters(q))
      BY FS_Subset DEF OwnFilters, IsQuery
    <3> QED BY <3>1, FS_CardinalityType
  <2>8. size <= Cardinality(DOMAIN whole.parameters) + 1
    BY <1>7, <2>7 DEF HasGrownLittle, size
  <2> QED BY <1>5, <1>6, <1>7, <2>6, <2>8 DEF HasGrownLittle, f, new
<1> QED BY <1>9, <1>10

(* Along the chain of remainders, the paginator's own filter is on the field  *)
(* each call would choose by itself.                                          *)
ChainInv ==
    /\ OwnFiltersOnKey(schema_info, query) /\ HasGrownLittle(query)
    /\ pc = "returned" /\ remainder # <<>> =>
          OwnFiltersOnKey(schema_info, remainder[1]) /\ HasGrownLittle(remainder[1])
    /\ pc \in {"generate", "parameterize"} =>
          /\ AllKeys(schema_info) # {}
          /\ plan.pagination_field = PaginationField(schema_info, query)

LEMMA ChainInit == Init => ChainInv
<1> SUFFICES ASSUME Init PROVE ChainInv
  OBVIOUS
<1>1. query = whole /\ whole \in WholeQueries /\ pc = "paginate"
  BY DEF Init
<1>2. OwnFilters(whole) = {} /\ IsQuery(whole)
  BY <1>1, PaginationAssumption DEF OwnFilters
<1>3. Cardinality(OwnFilters(whole)) = 0
  BY <1>2, FS_EmptySet
<1>4. Cardinality(DOMAIN whole.parameters) \in Nat
  BY <1>2, FS_CardinalityType DEF IsQuery
<1> QED BY <1>1, <1>2, <1>3, <1>4 DEF ChainInv, OwnFiltersOnKey, HasGrownLittle

LEMMA ChainNext == CallInv /\ ChainInv /\ [Next]_vars => ChainInv'
<1> SUFFICES ASSUME CallInv, ChainInv, [Next]_vars PROVE ChainInv'
  OBVIOUS
<1> USE DEF environment, local, result
<1>1. ASSUME NEW e, Raise(e) PROVE ChainInv'
  BY <1>1 DEF Raise, ChainInv, HasGrownLittle
<1>2. ASSUME NEW a, ReturnWhole(a) PROVE ChainInv'
  BY <1>2 DEF ReturnWhole, ChainInv, HasGrownLittle
<1>3. CASE RejectArguments \/ RejectInterval \/ RejectPartition \/ RejectDeletion \/ RejectPage
  BY <1>1, <1>3 DEF RejectArguments, RejectInterval, RejectPartition, RejectDeletion, RejectPage
<1>4. CASE ReturnWithoutCounts \/ PlanWithoutKeys \/ PlanWithoutCapacity \/ PlanOnePage
             \/ GenerateNothing
  BY <1>2, <1>4 DEF ReturnWithoutCounts, PlanWithoutKeys, PlanWithoutCapacity, PlanOnePage,
                    GenerateNothing
<1>5. CASE EstimateNumberOfPages
  <2>1. CASE num_pages' > 1
    BY <1>5, <2>1 DEF EstimateNumberOfPages, ChainInv, HasGrownLittle
  <2>2. CASE ~(num_pages' > 1)
    BY <1>2, <1>5, <2>2 DEF EstimateNumberOfPages
  <2> QED BY <2>1, <2>2
<1>6. CASE PlanVertexPartition
  BY <1>6 DEF PlanVertexPartition, ChainInv, HasGrownLittle
<1>7. CASE GenerateParameter
  BY <1>7 DEF GenerateParameter, ChainInv, HasGrownLittle
<1>8. CASE GenerateParameterizedQueries
  <2> DEFINE f == PaginationField(schema_info, query)
             from == AddPaginationFilter(query, f, ">=", parameter)
  <2>1. /\ pc = "parameterize" /\ pc' = "returned" /\ plan.pagination_field = f
        /\ AllKeys(schema_info) # {} /\ remainder' = <<from>>
        /\ UNCHANGED <<environment, whole, query>>
    BY <1>8 DEF GenerateParameterizedQueries, ChainInv
  <2>2. /\ schema_info \in SchemaInfos /\ IsQuery(query) /\ IsQuery(whole)
        /\ Validates(query) /\ f \in EligibleFields(query) /\ parameter \in Int
    BY <2>1 DEF CallInv, TypeOK, Planned
  <2>3. /\ OwnFilters(from) = {Added(query, f, ">=")} /\ HasGrownLittle(from)
        /\ PaginationField(schema_info, from) = f
    BY <2>1, <2>2, RemainderHasGrownLittle, PaginationFieldStays DEF ChainInv
  <2>4. Added(query, f, ">=").op = ">=" /\ Added(query, f, ">=").field = f
    BY DEF Added
  <2> HIDE DEF from, f
  <2>5. OwnFiltersOnKey(schema_info, from)
    BY <2>1, <2>3, <2>4 DEF OwnFiltersOnKey
  <2>6. remainder'[1] = from
    BY <2>1
  <2> QED BY <2>1, <2>3, <2>5, <2>6 DEF ChainInv, HasGrownLittle
<1>9. CASE ExecutePage
  BY <1>9 DEF ExecutePage, ChainInv, HasGrownLittle
<1>10. CASE RefreshStatistics
  <2>1. /\ schema_info'.pagination_keys = schema_info.pagination_keys
        /\ UNCHANGED <<table, touched, whole, query, pc, local, result, error, fetched>>
    BY <1>10 DEF RefreshStatistics
  <2>2. AllKeys(schema_info') = AllKeys(schema_info)
    BY <2>1 DEF AllKeys
  <2>3. ASSUME NEW q PROVE PaginationField(schema_info', q) = PaginationField(schema_info, q)
    BY <2>1, <2>2 DEF PaginationField, FirstKey
  <2>4. ASSUME NEW q, OwnFiltersOnKey(schema_info, q) PROVE OwnFiltersOnKey(schema_info', q)
    BY <2>2, <2>3, <2>4 DEF OwnFiltersOnKey
  <2> QED BY <2>1, <2>2, <2>3, <2>4 DEF ChainInv, HasGrownLittle
<1>11. CASE (\E r \in MutableRows : UpdateRow(r)) \/ UNCHANGED vars
  <2>1. UNCHANGED <<schema_info, whole, query, pc, local, result>>
    BY <1>11 DEF UpdateRow, vars
  <2> QED BY <2>1 DEF ChainInv, HasGrownLittle
<1> QED
  BY <1>3, <1>4, <1>5, <1>6, <1>7, <1>8, <1>9, <1>10, <1>11 DEF Next, Paginate, Client

LEMMA ChainInvariant == Spec => []ChainInv
BY ChainInit, ChainNext, CallInvariant, PTL DEF Spec

(* The remainders of a query are all cut at the same field.                   *)
THEOREM FieldStays == Spec => []FieldIsStable
<1>1. ChainInv => FieldIsStable
  BY DEF ChainInv, FieldIsStable, OwnFiltersOnKey, OwnFilters
<1> QED BY <1>1, ChainInvariant, PTL

(* No chain of remainders, however long, lets a query grow by more than one   *)
(* filter and one parameter.                                                  *)
THEOREM QueriesStaySmall == Spec => []QueriesDoNotGrow
<1>1. CallInv /\ ChainInv => QueriesDoNotGrow
  <2> SUFFICES ASSUME CallInv, ChainInv PROVE QueriesDoNotGrow
    OBVIOUS
  <2>1. Cardinality(OwnFilters(query)) \in Nat
    <3>1. IsFiniteSet(OwnFilters(query))
      BY FS_Subset DEF OwnFilters, CallInv, TypeOK, IsQuery
    <3> QED BY <3>1, FS_CardinalityType
  <2>2. Cardinality(DOMAIN query.parameters) \in Nat
        /\ Cardinality(DOMAIN whole.parameters) \in Nat
    BY FS_CardinalityType DEF CallInv, TypeOK, IsQuery
  <2>3. OwnFilters(query) = {d \in query.directives : d.pos = 0}
    BY DEF OwnFilters
  <2> QED BY <2>1, <2>2, <2>3 DEF ChainInv, HasGrownLittle, QueriesDoNotGrow
<1> QED BY <1>1, CallInvariant, ChainInvariant, PTL

-----------------------------------------------------------------------------
(* The refinement.  Pagination over rows that nobody updates implements       *)
(* PagedEnumeration: every call cuts the query at the field the whole query   *)
(* would be cut at, so a page is what lies below the parameter on that field; *)
(* and what a row's pages say of it (ExactlyOnce) makes the results of the    *)
(* queries still to be run those of the whole query that no page gave.        *)

(* Rows that nobody updates, a value in every field, and queries whose filters*)
(* the paginator may replace: what an enumeration in one ranking takes.       *)
Static ==
    /\ MutableRows = {}
    /\ \A f \in Fields : Null \notin FieldValues[f]
    /\ \A q \in WholeQueries : Sound(q)

(* The field the first call would cut the query at.                           *)
RankField == PaginationField(schema_info, whole)

(* A page of a query that is split is below what remains.                     *)
PageIsBelow ==
    \A a, b \in Rows : Matches(table[a], page) /\ Matches(table[b], remainder[1]) =>
                          table[a][RankField] < table[b][RankField]

OneRanking ==
    /\ touched = {} /\ Sound(whole)
    /\ AllKeys(schema_info) # {} => PaginationField(schema_info, query) = RankField
    /\ pc = "returned" /\ remainder # <<>> =>
          /\ AllKeys(schema_info) # {}
          /\ PaginationField(schema_info, remainder[1]) = RankField
          /\ PageIsBelow

-----------------------------------------------------------------------------
(* What stays *)

LEMMA SameKeysSameField ==
    ASSUME NEW a, NEW b, a.pagination_keys = b.pagination_keys, NEW q
    PROVE  AllKeys(a) = AllKeys(b) /\ PaginationField(a, q) = PaginationField(b, q)
BY DEF AllKeys, PaginationField, FirstKey

LEMMA NothingElseChanges ==
    ASSUME Static, [Next]_vars
    PROVE  /\ UNCHANGED <<table, touched, whole>>
           /\ schema_info'.pagination_keys = schema_info.pagination_keys
<1>1. CASE RefreshStatistics
  BY <1>1 DEF RefreshStatistics
<1>2. CASE ~RefreshStatistics
  BY <1>2 DEF Static, Next, vars, environment, local, result, Paginate, Client,
     RejectArguments, ReturnWithoutCounts, EstimateNumberOfPages, PlanWithoutKeys,
     RejectInterval, PlanWithoutCapacity, PlanOnePage, PlanVertexPartition, RejectPartition,
     GenerateNothing, GenerateParameter, RejectDeletion, GenerateParameterizedQueries,
     RejectPage, ExecutePage, UpdateRow, Raise, ReturnWhole
<1> QED BY <1>1, <1>2

LEMMA RankFieldStays ==
    ASSUME Static, [Next]_vars
    PROVE  /\ AllKeys(schema_info') = AllKeys(schema_info) /\ RankField' = RankField
           /\ \A q : PaginationField(schema_info', q) = PaginationField(schema_info, q)
<1>1. ASSUME NEW q
      PROVE  /\ AllKeys(schema_info') = AllKeys(schema_info)
             /\ PaginationField(schema_info', q) = PaginationField(schema_info, q)
  BY NothingElseChanges, SameKeysSameField
<1>2. whole' = whole
  BY NothingElseChanges
<1> QED BY <1>1, <1>2 DEF RankField

(* Every row counts: nobody touched it and no value is missing.               *)
LEMMA AllRowsAreStable ==
    ASSUME Static, CallInv, touched = {}
    PROVE  /\ StableRows = Rows
           /\ \A r \in Rows, f \in Fields : table[r][f] \in Int
<1>1. \A r \in Rows, f \in Fields : table[r][f] \in FieldValues[f]
  BY DEF CallInv, TypeOK
<1>2. \A r \in Rows, f \in Fields : table[r][f] # Null
  BY <1>1 DEF Static
<1> QED BY <1>1, <1>2, PaginationAssumption DEF StableRows

(* The field a query with keys is cut at is one of its fields.                *)
LEMMA RankFieldIsField ==
    ASSUME NEW info \in SchemaInfos, AllKeys(info) # {}, NEW q
    PROVE  PaginationField(info, q) \in Fields
<1>1. info.pagination_keys \in Seq(Fields) /\ AllKeys(info) \subseteq Fields
  BY PaginationAssumption DEF AllKeys
<1>2. CASE AllKeys(info) \cap FilteredFields(q) # {}
  <2>1. FirstKey(info, AllKeys(info) \cap FilteredFields(q)) \in FilteredFields(q)
    BY <1>2, FirstKeyIsKey
  <2> QED BY <1>2, <2>1 DEF PaginationField, FilteredFields
<1>3. CASE AllKeys(info) \cap FilteredFields(q) = {}
  <2>1. Len(info.pagination_keys) \in Nat /\ DOMAIN info.pagination_keys # {}
    BY <1>1 DEF AllKeys
  <2>2. info.pagination_keys[1] \in Fields
    BY <1>1, <2>1
  <2> QED BY <1>3, <2>2 DEF PaginationField
<1> QED BY <1>2, <1>3

-----------------------------------------------------------------------------
(* One ranking *)

LEMMA OneRankingInit == Static /\ Init => OneRanking
BY DEF Init, Static, OneRanking, RankField

(* A split puts what is below the parameter on the page and nothing else.     *)
LEMMA SplitIsRanked ==
    ASSUME Static, CallInv, Tracked, ChainInv, OneRanking, GenerateParameterizedQueries
    PROVE  /\ AllKeys(schema_info) # {} /\ remainder' # <<>>
           /\ PaginationField(schema_info, remainder'[1]) = RankField
           /\ \A a, b \in Rows :
                 Matches(table[a], page') /\ Matches(table[b], remainder'[1]) =>
                    table[a][RankField] < table[b][RankField]
<1> DEFINE f == RankField
           below == AddPaginationFilter(query, f, "<", parameter)
           from == AddPaginationFilter(query, f, ">=", parameter)
<1>1. /\ pc = "parameterize" /\ AllKeys(schema_info) # {}
      /\ plan.pagination_field = f /\ PaginationField(schema_info, query) = f
      /\ page' = below /\ remainder' = <<from>>
  BY DEF GenerateParameterizedQueries, ChainInv, OneRanking
<1>2. /\ schema_info \in SchemaInfos /\ IsQuery(query) /\ Sound(query) /\ parameter \in Int
      /\ f \in EligibleFields(query) /\ Fits(query, f, parameter)
  BY <1>1 DEF CallInv, TypeOK, Planned, OneRanking, Tracked
<1>3. PaginationField(schema_info, from) = f
  BY <1>1, <1>2, PaginationFieldStays
<1>4. f \in Fields
  BY <1>2 DEF EligibleFields
<1>5. ASSUME NEW r \in Rows
      PROVE  /\ table[r][f] \in Int
             /\ Matches(table[r], below) => table[r][f] < parameter
             /\ Matches(table[r], from) => table[r][f] >= parameter
  <2>1. table[r][f] \in Int
    BY <1>4, AllRowsAreStable DEF OneRanking
  <2> HIDE DEF f
  <2> QED BY <1>2, <2>1, SplitIsPartition
<1> HIDE DEF f, below, from
<1>6. remainder'[1] = from /\ remainder' # <<>>
  BY <1>1
<1>7. ASSUME NEW a \in Rows, NEW b \in Rows, Matches(table[a], below), Matches(table[b], from)
      PROVE  table[a][f] < table[b][f]
  BY <1>2, <1>5, <1>7
<1> QED BY <1>1, <1>3, <1>6, <1>7 DEF f

LEMMA OneRankingNext ==
    Static /\ CallInv /\ Tracked /\ ChainInv /\ OneRanking /\ [Next]_vars => OneRanking'
<1> SUFFICES ASSUME Static, CallInv, Tracked, ChainInv, OneRanking, [Next]_vars
             PROVE  OneRanking'
  OBVIOUS
<1> USE DEF environment, local, result
<1>1. /\ UNCHANGED <<table, touched, whole>> /\ RankField' = RankField
      /\ AllKeys(schema_info') = AllKeys(schema_info)
      /\ \A q : PaginationField(schema_info', q) = PaginationField(schema_info, q)
  BY NothingElseChanges, RankFieldStays
<1>2. touched' = {} /\ Sound(whole')
  BY <1>1 DEF OneRanking
<1>3. ASSUME query' = query, pc' # "returned" \/ remainder' = <<>> PROVE OneRanking'
  BY <1>1, <1>2, <1>3 DEF OneRanking
<1>4. CASE GenerateParameterizedQueries
  <2>1. query' = query
    BY <1>4 DEF GenerateParameterizedQueries
  <2>2. PageIsBelow'
    BY <1>1, <1>4, SplitIsRanked DEF PageIsBelow
  <2>3. AllKeys(schema_info) # {} /\ PaginationField(schema_info, remainder'[1]) = RankField
    BY <1>4, SplitIsRanked
  <2> QED BY <1>1, <1>2, <2>1, <2>2, <2>3 DEF OneRanking
<1>5. CASE ExecutePage
  <2>1. pc' # "returned" /\ (query' = query \/ (remainder # <<>> /\ query' = remainder[1]))
    BY <1>5 DEF ExecutePage
  <2> QED BY <1>1, <1>2, <1>5, <2>1 DEF OneRanking, ExecutePage
<1>6. CASE RefreshStatistics \/ UNCHANGED vars
  <2>1. UNCHANGED <<query, pc, page, remainder>>
    BY <1>6 DEF RefreshStatistics, vars
  <2>2. PageIsBelow' <=> PageIsBelow
    BY <1>1, <2>1 DEF PageIsBelow
  <2> QED BY <1>1, <1>2, <2>1, <2>2 DEF OneRanking
<1>7. CASE \E r \in MutableRows : UpdateRow(r)
  BY <1>7 DEF Static
<1>8. ASSUME Paginate \/ RejectPage, ~GenerateParameterizedQueries
      PROVE  query' = query /\ (pc' # "returned" \/ remainder' = <<>>)
  BY <1>8 DEF Paginate, RejectArguments, ReturnWithoutCounts, EstimateNumberOfPages,
     PlanWithoutKeys, RejectInterval, PlanWithoutCapacity, PlanOnePage, PlanVertexPartition,
     RejectPartition, GenerateNothing, GenerateParameter, RejectDeletion, RejectPage, Raise,
     ReturnWhole
<1> QED BY <1>3, <1>4, <1>5, <1>6, <1>7, <1>8 DEF Next, Client

LEMMA OneRankingInvariant == ASSUME Static PROVE Spec => []OneRanking
BY OneRankingInit, OneRankingNext, CallInvariant, TrackedInvariant, ChainInvariant, PTL DEF Spec

-----------------------------------------------------------------------------
(* Every step gives a page, gives up, or shows nothing *)

(* The results of the queries still to be run are those of the whole query    *)
(* that no page gave.                                                         *)
Ungiven == {r \in Rows : Matches(table[r], whole) /\ ~Returned(r)}

LEMMA OutstandingIsCount ==
    \A r \in Rows : Outstanding(r) \in Nat
BY DEF Outstanding, Count

LEMMA LeftIsUngiven ==
    ASSUME Static, CallInv, Tracked, OneRanking PROVE Left = Ungiven
<1>1. CASE pc = "raised"
  BY <1>1 DEF Left, Ungiven
<1>2. CASE pc # "raised"
  <2>1. ASSUME NEW r \in Rows
        PROVE  Outstanding(r) > 0 <=> Matches(table[r], whole) /\ ~Returned(r)
    <3>1. fetched[r] + Outstanding(r) = Count(Matches(table[r], whole))
      BY <1>2, AllRowsAreStable DEF OneRanking, Tracked, ExactlyOnce
    <3>2. fetched[r] \in Nat /\ Outstanding(r) \in Nat
      BY OutstandingIsCount DEF CallInv, TypeOK
    <3> QED BY <3>1, <3>2 DEF Count, Returned
  <2> QED BY <1>2, <2>1 DEF Left, Ungiven
<1> QED BY <1>1, <1>2

LEMMA EnumerationInit ==
    ASSUME Static, CallInv, OneRanking, Init PROVE Enumeration!Init
<1>1. Rank \in [Rows -> Int]
  <2>1. ASSUME AllKeys(schema_info) # {}, NEW r \in Rows PROVE table[r][RankField] \in Int
    <3>1. RankField \in Fields
      BY <2>1, RankFieldIsField DEF CallInv, TypeOK, RankField
    <3> QED BY <3>1, AllRowsAreStable DEF OneRanking
  <2> QED BY <2>1 DEF Rank, RankField
<1>2. Left \subseteq Rows
  BY DEF Left
<1>3. {r \in Rows : Returned(r)} = {} /\ pc = "paginate"
  BY DEF Init, Returned
<1> QED BY <1>1, <1>2, <1>3 DEF Enumeration!Init

(* The client runs the page: it gets a prefix of what is left, in rank.       *)
LEMMA ExecutePageGives ==
    ASSUME Static, CallInv, Tracked, OneRanking, ExecutePage,
           Left = Ungiven, Left' = Ungiven', Rank' = Rank, UNCHANGED <<table, whole>>
    PROVE  Enumeration!GivePage
<1> DEFINE batch == {r \in Rows : Matches(table[r], page)}
           given == {r \in Rows : Returned(r)}
<1>1. /\ pc = "returned"
      /\ fetched' = [r \in Rows |-> IF Matches(table[r], page) THEN fetched[r] + 1
                                                               ELSE fetched[r]]
      /\ IF remainder = <<>> THEN pc' = "done" ELSE pc' = "paginate"
  BY DEF ExecutePage
<1>2. \A r \in Rows : fetched[r] \in Nat
  BY DEF CallInv, TypeOK
<1>3. \A r \in Rows : Returned(r)' <=> Returned(r) \/ r \in batch
  BY <1>1, <1>2 DEF Returned
<1>4. given' = given \cup batch
  BY <1>3
<1>5. Ungiven' = Ungiven \ batch
  BY <1>3 DEF Ungiven
<1>6. \A r \in Rows : r \in Left <=> Outstanding(r) > 0
  BY <1>1 DEF Left
<1>7. batch \subseteq Left
  <2>1. ASSUME NEW r \in batch PROVE Outstanding(r) > 0
    <3>1. Outstanding(r) = Count(Matches(table[r], page))
              + (IF remainder = <<>> THEN 0 ELSE Count(Matches(table[r], remainder[1])))
      BY <1>1 DEF Outstanding
    <3> QED BY <3>1 DEF Count
  <2> QED BY <1>6, <2>1
<1>8. \A r \in Left \ batch : remainder # <<>> /\ Matches(table[r], remainder[1])
  <2>1. ASSUME NEW r \in Left \ batch
        PROVE  remainder # <<>> /\ Matches(table[r], remainder[1])
    <3>1. Outstanding(r) = Count(Matches(table[r], page))
              + (IF remainder = <<>> THEN 0 ELSE Count(Matches(table[r], remainder[1])))
      BY <1>1 DEF Outstanding
    <3>2. r \in Rows /\ Outstanding(r) > 0 /\ ~Matches(table[r], page)
      BY <1>6 DEF Left
    <3> QED BY <3>1, <3>2 DEF Count
  <2> QED BY <2>1
<1>9. ASSUME NEW a \in batch, NEW b \in Left \ batch PROVE Rank[a] < Rank[b]
  <2>1. /\ AllKeys(schema_info) # {} /\ table[a][RankField] < table[b][RankField]
        /\ a \in Rows /\ b \in Rows
    BY <1>1, <1>8 DEF OneRanking, PageIsBelow, Left
  <2> QED BY <2>1 DEF Rank, RankField
<1>10. pc' = "done" => Left' = {}
  BY <1>1, <1>5, <1>8
<1> HIDE DEF batch
<1>11. batch \in SUBSET Left /\ Left' = Left \ batch
  BY <1>5, <1>7
<1>12. /\ ~(pc \in {"done", "raised"})
       /\ (pc' \in {"done", "raised"}) \in BOOLEAN
       /\ pc' \in {"done", "raised"} => Left' = {}
  BY <1>1, <1>10
<1> QED BY <1>4, <1>9, <1>11, <1>12 DEF Enumeration!GivePage

LEMMA EnumerationNext ==
    ASSUME Static, CallInv, Tracked, OneRanking, Left = Ungiven, Left' = Ungiven', [Next]_vars
    PROVE  [Enumeration!Next]_<<Rank, Left, {r \in Rows : Returned(r)},
                                pc \in {"done", "raised"}>>
<1> USE DEF environment, local, result
<1>1. UNCHANGED <<table, whole>>
  BY NothingElseChanges
<1>2. Rank' = Rank
  BY <1>1, RankFieldStays DEF Rank, RankField
<1>3. CASE ExecutePage
  BY <1>1, <1>2, <1>3, ExecutePageGives DEF Enumeration!Next
<1>4. ASSUME UNCHANGED fetched
      PROVE  UNCHANGED <<Rank, Left, {r \in Rows : Returned(r)}>>
  BY <1>1, <1>2, <1>4 DEF Ungiven, Returned
<1>5. ASSUME UNCHANGED fetched, pc' = pc \/ {pc, pc'} \cap {"done", "raised"} = {}
      PROVE  UNCHANGED <<Rank, Left, {r \in Rows : Returned(r)}, pc \in {"done", "raised"}>>
  <2>1. pc' \in {"done", "raised"} <=> pc \in {"done", "raised"}
    BY <1>5
  <2> QED BY <1>4, <1>5, <2>1
<1>6. ASSUME NEW e, Raise(e), pc \notin {"done", "raised"} PROVE Enumeration!Next
  BY <1>4, <1>6 DEF Raise, Enumeration!Next, Enumeration!GiveUp
<1>7. CASE RejectArguments \/ RejectInterval \/ RejectPartition \/ RejectDeletion \/ RejectPage
  BY <1>6, <1>7 DEF RejectArguments, RejectInterval, RejectPartition, RejectDeletion, RejectPage
<1>8. CASE ReturnWithoutCounts \/ EstimateNumberOfPages \/ PlanWithoutKeys
             \/ PlanWithoutCapacity \/ PlanOnePage \/ PlanVertexPartition \/ GenerateNothing
             \/ GenerateParameter \/ GenerateParameterizedQueries
  <2>1. UNCHANGED fetched /\ {pc, pc'} \cap {"done", "raised"} = {}
    BY <1>8 DEF ReturnWithoutCounts, EstimateNumberOfPages, PlanWithoutKeys,
       PlanWithoutCapacity, PlanOnePage, PlanVertexPartition, GenerateNothing,
       GenerateParameter, GenerateParameterizedQueries, ReturnWhole
  <2> QED BY <1>5, <2>1
<1>9. CASE (\E r \in MutableRows : UpdateRow(r)) \/ RefreshStatistics \/ UNCHANGED vars
  <2>1. UNCHANGED fetched /\ pc' = pc
    BY <1>9 DEF UpdateRow, RefreshStatistics, vars
  <2> QED BY <1>5, <2>1
<1> QED BY <1>3, <1>7, <1>8, <1>9 DEF Next, Paginate, Client

(* Over rows that nobody updates, the client of paginate_query sees the       *)
(* results of its query page by page along one ranking, each once, and when   *)
(* it comes to an end without an exception it has seen them all.              *)
THEOREM PaginationImplementsEnumeration ==
    ASSUME Static PROVE Spec => ImplementsEnumeration
<1>1. CallInv /\ OneRanking /\ Init => Enumeration!Init
  BY EnumerationInit
<1>2. CallInv /\ Tracked /\ OneRanking /\ Left = Ungiven /\ (Left = Ungiven)' /\ [Next]_vars
        => [Enumeration!Next]_<<Rank, Left, {r \in Rows : Returned(r)},
                                pc \in {"done", "raised"}>>
  BY EnumerationNext
<1>3. Spec => []OneRanking
  BY OneRankingInvariant
<1>4. CallInv /\ Tracked /\ OneRanking => Left = Ungiven
  BY LeftIsUngiven
<1> QED
  BY <1>1, <1>2, <1>3, <1>4, CallInvariant, TrackedInvariant, PTL
  DEF Spec, ImplementsEnumeration, Enumeration!Spec, Enumeration!enumeration
=============================================================================
