----------------------------- MODULE SqlEmission ----------------------------
(***************************************************************************)
(* The SQL backend: lowering (compiler/ir_lowering_sql) and emission       *)
(* (compiler/emit_sql.py), which reads the blocks one by one and builds a  *)
(* single SELECT while it keeps the alias of every marked location.        *)
(*                                                                         *)
(* The SELECT is represented by the rows it stands for.  from_clause is a  *)
(* set of bindings, each giving every joined alias one of its rows, or     *)
(* NULL when a left join found none; the WHERE clause stays a set of       *)
(* predicates until the query is wrapped or finished, as in the code.      *)
(*                                                                         *)
(* Every table has a primary key of one column, and every edge joins one   *)
(* such key to a foreign key.                                              *)
(***************************************************************************)
EXTENDS CompilerFrontend, GraphValues

CONSTANT
  ForeignKeyAtEnd   \* the vertex fields whose foreign key is at their end

VARIABLES
  dialect, todo, current_location, current_alias, current_fold, aliases,
  came_from, recurse_needs_cte, from_clause, where, results,
  emission   \* "waiting", "emitting", "emitted", or the error that was raised

sql_vars == <<dialect, todo, current_location, current_alias, current_fold, aliases,
              came_from, recurse_needs_cte, from_clause, where, results, emission>>

(***************************************************************************)
(* Tables and aliases                                                      *)
(***************************************************************************)
AliasKey(location) == [path |-> location.path, fold |-> location.fold]

\* A row is of a vertex; a recursion also knows where and when it started.
TableRow(vertex) == [vertex |-> vertex, start |-> vertex, depth |-> 0]

TypeAt(location) == metadata.locations[location].type

Alias(key, kind, rows) == [key |-> key, kind |-> kind, rows |-> rows]

\* _relocate: the alias of a marked location, or a fresh alias of its table.
AliasAt(location) ==
  IF AliasKey(location) \in DOMAIN aliases THEN aliases[AliasKey(location)]
  ELSE Alias(AliasKey(location), "table",
             {TableRow(v) : v \in VerticesOf(TypeAt(location))})

IsInOptionalScope(location) ==
  location # NoLocation /\ metadata.locations[location].optional_depth > 0

NoFold == [outer |-> Alias(AliasKey(NoLocation), "none", {}), joins |-> <<>>,
           where |-> {}]

InFold == current_fold # NoFold

(***************************************************************************)
(* Expressions (to_sql in compiler/expressions.py)                         *)
(***************************************************************************)
Column(row, field) == IF row = NULL THEN NULL ELSE Properties[row.vertex][field]

EdgeInto(location) == location.path[Len(location.path)]

\* _find_non_null_columns and the lowering of ContextFieldExistence: a vertex is
\* there when the column it was joined by is not null.
Exists(location, binding) ==
  LET row == binding[AliasKey(location)] IN
  /\ row # NULL
  /\ EdgeInto(location) \in ForeignKeyAtEnd =>
       \E v \in DOMAIN VertexTypes : row.vertex \in Ends(v, EdgeInto(location))

SqlArgument(argument, key, binding) ==
  CASE argument.kind = "Variable" -> ParameterValues[argument.name]
    [] argument.kind = "LocalField" -> Column(binding[key], argument.name)
    [] OTHER -> Column(binding[AliasKey(argument.at)], argument.name)

SqlClauseHolds(block, i, value, key, binding) ==
  LET argument == block.args[i] IN
  \/ argument.unlessMissing # NoLocation /\ ~Exists(argument.unlessMissing, binding)
  \/ ClauseHolds(block.op, i, value, SqlArgument(argument, key, binding))

SqlHolds(block, value, key, binding) ==
  IF block.op \in UNARY_FILTERS THEN UnaryHolds(block.op, value)
  ELSE \A i \in DOMAIN block.args : SqlClauseHolds(block, i, value, key, binding)

\* The column of the fold's subquery: NULL where the left join finds no row.
FoldSize(row) == IF row = NULL THEN NULL ELSE Cardinality(row.members)

\* The members of a WHERE clause.
FilterPredicate(block, key, orMissing) ==
  [block |-> block, key |-> key, parent |-> key, orMissing |-> orMissing]
MandatoryEdge(key, parent) ==
  [block |-> Block("Traverse"), key |-> key, parent |-> parent, orMissing |-> TRUE]

Satisfies(binding, predicate) ==
  \/ predicate.orMissing /\ binding[predicate.parent] = NULL
  \/ predicate.block.kind = "Traverse" /\ binding[predicate.key] # NULL
  \/ /\ predicate.block.kind = "Filter"
     /\ SqlHolds(predicate.block,
                 IF predicate.block.field = COUNT
                 THEN FoldSize(binding[predicate.key])
                 ELSE Column(binding[predicate.key], predicate.block.field),
                 predicate.key, binding)

\* get_query
Selected == {b \in from_clause : \A p \in where : Satisfies(b, p)}

(***************************************************************************)
(* What the backend refuses                                                *)
(***************************************************************************)
ArgumentType(argument) == PropertyType(TypeAt(argument.at), argument.name)

FilterError(block, location) ==
  LET fieldless == {"has_edge_degree", "name_or_alias", "intersects"}
      columns == DOMAIN PropertyTypes[TypeAt(location)] \cup {COUNT}
      tags == {block.args[i] : i \in {j \in DOMAIN block.args :
                 block.args[j].kind \in {"ContextField", "GlobalContextField"}}}
  IN  IF block.op \in fieldless THEN "NotImplementedError"
      ELSE IF block.field \notin columns THEN "KeyError"
      ELSE IF PropertyType(TypeAt(location), block.field).list
              \/ (InFold /\ tags # {}) \/ (\E t \in tags : ArgumentType(t).list)
           THEN "NotImplementedError"
      ELSE ""

\* The CTE's columns are looked up by name in aliases that do not have them.  (For a
\* fold, this is here if its base uses a column beside the key, and otherwise when the
\* fold's own columns are asked for, which no CTE exports.)
WrapError ==
  IF /\ recurse_needs_cte
     /\ \E key \in DOMAIN aliases :
          \/ aliases[key].kind \in {"recursion", "fold"}
          \/ aliases[key].kind = "routed" /\ key \in came_from
  THEN "KeyError" ELSE ""

\* The fields collected at the location where the current fold ends.
FoldedFields(key) ==
  {metadata.outputs[n].field : n \in {m \in DOMAIN metadata.outputs :
                                        AliasKey(metadata.outputs[m].location) = key}}
  \cup {COUNT : f \in {g \in metadata.filters : COUNT \in g.fields
                                              /\ AliasKey(g.location) = key}}

FoldEnd == current_fold.joins[Len(current_fold.joins)].to.key

UnfoldError ==
  IF dialect = "mssql" /\ (COUNT \in FoldedFields(FoldEnd)
                           \/ Cardinality(FoldedFields(FoldEnd)) > 1)
  THEN "NotImplementedError" ELSE ""

TraverseError ==
  IF InFold /\ current_alias.key # FoldEnd THEN "AssertionError" ELSE ""

ResultError(fields) ==
  IF \E n \in DOMAIN fields :
       PropertyType(TypeAt(fields[n].at), fields[n].field).list
  THEN "NotImplementedError" ELSE ""

\* The error that the next block raises, or "".
ErrorOf(block) ==
  CASE block.kind \in {"CoerceType", "OutputSource"} -> "NotImplementedError"
    [] block.kind = "Filter" ->
         FilterError(block, IF current_location = NoLocation THEN block.at
                                                             ELSE current_location)
    [] block.kind = "Recurse" -> WrapError
    [] block.kind = "Traverse" -> TraverseError
    [] block.kind = "Fold" ->
         IF current_alias.kind = "routed" THEN "AttributeError" ELSE ""
    [] block.kind = "Unfold" -> UnfoldError
    [] block.kind = "ConstructResult" -> ResultError(block.fields)
    [] OTHER -> ""

(***************************************************************************)
(* Joins                                                                   *)
(***************************************************************************)
\* The bindings in the domain of matching JOIN or LEFT JOIN the alias of a key,
\* where matching gives for each of them the rows that satisfy the ON clause.
Joined(key, matching, isouter) ==
  UNION {{[k \in DOMAIN b \cup {key} |-> IF k = key THEN r ELSE b[k]]
          : r \in matching[b] \cup (IF matching[b] = {} /\ isouter THEN {NULL} ELSE {})}
         : b \in DOMAIN matching}

\* A slip: a mandatory edge in an optional scope is an inner join.
IsOuterJoinIfOptional(location, optional) == IsInOptionalScope(location) /\ optional

IsOuterJoin(location, optional) == IsInOptionalScope(location)

\* _join_to_parent_location: in an optional scope every join is a left join, and
\* the WHERE clause makes a mandatory edge mandatory again.
JoinToParentLocation(matching, clause, parent, location, alias, optional) ==
  /\ from_clause' = Joined(alias.key, matching, IsOuterJoin(location, optional))
  /\ where' = clause \cup (IF IsInOptionalScope(location) /\ ~optional
                           THEN {MandatoryEdge(alias.key, parent.key)} ELSE {})
  /\ came_from' = came_from \cup {alias.key}

(***************************************************************************)
(* Blocks                                                                  *)
(***************************************************************************)
ThisBlock == Head(todo)

Reads(kinds) ==
  /\ emission = "emitting"
  /\ todo # <<>>
  /\ ThisBlock.kind \in kinds
  /\ ErrorOf(ThisBlock) = ""
  /\ todo' = Tail(todo)
  /\ UNCHANGED dialect

Here(location, alias) == current_location' = location /\ current_alias' = alias

RootLocation == Location(<<query[1].edge>>, 1)

\* lower_ir and the constructor of CompilationState.
StartEmission ==
  /\ outcome = "compiled" /\ emission = "waiting"
  /\ dialect' \in {"postgresql", "mssql"}
  /\ todo' = basic_blocks
  /\ LET root == AliasAt(RootLocation)
     IN  /\ Here(RootLocation, root)
         /\ from_clause' = {[k \in {root.key} |-> r] : r \in root.rows}
  /\ emission' = "emitting"
  /\ UNCHANGED <<current_fold, aliases, came_from, recurse_needs_cte, where, results>>

\* QueryRoot and EndOptional need no work.
SkipBlock ==
  /\ Reads({"QueryRoot", "EndOptional"})
  /\ UNCHANGED <<current_location, current_alias, current_fold, aliases, came_from,
                 recurse_needs_cte, from_clause, where, results, emission>>

EmitMarkLocation ==
  /\ Reads({"MarkLocation"})
  /\ aliases' = With(aliases, AliasKey(current_location), current_alias)
  /\ UNCHANGED <<current_location, current_alias, current_fold, came_from,
                 recurse_needs_cte, from_clause, where, results, emission>>

EmitBacktrack ==
  /\ Reads({"Backtrack"})
  /\ Here(ThisBlock.location, AliasAt(ThisBlock.location))
  /\ UNCHANGED <<current_fold, aliases, came_from, recurse_needs_cte, from_clause,
                 where, results, emission>>

EmitTraverse ==
  /\ Reads({"Traverse"})
  /\ recurse_needs_cte' = TRUE
  /\ LET location == NavigateToSubpath(current_location, ThisBlock.edge)
         alias == AliasAt(location)
         matching == [b \in from_clause |->
                        {r \in alias.rows :
                           /\ b[current_alias.key] # NULL
                           /\ r.vertex \in Ends(b[current_alias.key].vertex, ThisBlock.edge)}]
     IN  /\ Here(location, alias)
         /\ IF InFold
            THEN /\ current_fold' = [current_fold EXCEPT !.joins =
                                       Append(@, [edge |-> ThisBlock.edge, to |-> alias])]
                 /\ UNCHANGED <<from_clause, where, came_from>>
            ELSE /\ JoinToParentLocation(matching, where, current_alias, location,
                                         alias, ThisBlock.optional)
                 /\ UNCHANGED current_fold
  /\ UNCHANGED <<aliases, results, emission>>

\* The rows of a recursive CTE: from each start, one step at a time in the table.
RecursionRows(starts, edge, depth, table) ==
  LET reached[d \in 0..depth] ==
        IF d = 0 THEN {TableRow(v) : v \in starts}
        ELSE UNION {{[vertex |-> v, start |-> r.start, depth |-> d]
                     : v \in Ends(r.vertex, edge) \cap table} : r \in reached[d - 1]}
  IN  UNION {reached[d] : d \in 0..depth}

\* After anything selective, the query so far becomes a CTE, whose columns stand
\* for all the aliases, and the recursion starts only at what it selects.
EmitRecurse ==
  /\ Reads({"Recurse"})
  /\ LET location == NavigateToSubpath(current_location, ThisBlock.edge)
         table == VerticesOf(TypeAt(location))
         from == IF recurse_needs_cte THEN Selected ELSE from_clause
         routed == [k \in DOMAIN aliases |-> [aliases[k] EXCEPT !.kind = "routed"]]
         parent == IF recurse_needs_cte THEN routed[AliasKey(current_location)]
                                        ELSE current_alias
         starts == IF recurse_needs_cte
                   THEN table \cap {b[parent.key].vertex :
                                      b \in {c \in from : c[parent.key] # NULL}}
                   ELSE table
         alias == Alias(AliasKey(location), "recursion",
                        RecursionRows(starts, ThisBlock.edge, ThisBlock.depth, table))
         matching == [b \in from |-> {r \in alias.rows :
                        b[parent.key] # NULL /\ b[parent.key].vertex = r.start}]
     IN  /\ aliases' = IF recurse_needs_cte THEN routed ELSE aliases
         /\ Here(location, alias)
         /\ JoinToParentLocation(matching, IF recurse_needs_cte THEN {} ELSE where,
                                 parent, location, alias, FALSE)
  /\ UNCHANGED <<current_fold, recurse_needs_cte, results, emission>>

EmitFilter ==
  /\ Reads({"Filter"})
  /\ recurse_needs_cte' = TRUE
  /\ LET key == IF current_location = NoLocation THEN AliasKey(ThisBlock.at)
                                                 ELSE current_alias.key
         predicate == FilterPredicate(ThisBlock, key, ~InFold /\ IsInOptionalScope(current_location))
     IN  IF InFold
         THEN /\ current_fold' = [current_fold EXCEPT !.where = @ \cup {predicate}]
              /\ UNCHANGED where
         ELSE /\ where' = where \cup {predicate}
              /\ UNCHANGED current_fold
  /\ UNCHANGED <<current_location, current_alias, aliases, came_from, from_clause,
                 results, emission>>

EmitFold ==
  /\ Reads({"Fold"})
  /\ LET alias == AliasAt(ThisBlock.location)
     IN  /\ Here(ThisBlock.location, alias)
         /\ current_fold' = [outer |-> current_alias, where |-> {},
                joins |-> <<[edge |-> ThisBlock.location.fold[1], to |-> alias]>>]
  /\ UNCHANGED <<aliases, came_from, recurse_needs_cte, from_clause, where, results,
                 emission>>

\* The joined and filtered rows inside the fold, for one row of the outer table.
FoldTraces(row) ==
  LET step(traces, join) ==
        LET matching == [t \in traces.rows |->
                           {r \in join.to.rows :
                              r.vertex \in Ends(t[traces.last].vertex, join.edge)}]
        IN  [last |-> join.to.key, rows |-> Joined(join.to.key, matching, FALSE)]
      start == [last |-> current_fold.outer.key,
                rows |-> {[k \in {current_fold.outer.key} |-> row]}]
  IN  {t \in FoldLeft(step, start, current_fold.joins).rows :
         \A p \in current_fold.where : Satisfies(t, p)}

\* end_fold.  PostgreSQL groups by the primary key of the outer table; MSSQL has
\* one row for each row of the outer table, even if it collects nothing.
FoldSubquery ==
  LET outer == current_fold.outer.rows
      Members(rows) == UNION {{<<row, t>> : t \in FoldTraces(row)} : row \in rows}
  IN  IF dialect = "postgresql"
      THEN {s \in {[vertex |-> v, outer |-> NULL,
                    members |-> Members({row \in outer : row.vertex = v})]
                   : v \in {row.vertex : row \in outer}} : s.members # {}}
      ELSE {[vertex |-> row.vertex, outer |-> row, members |-> Members({row})] : row \in outer}

\* A slip: the fold is still open for the blocks that follow.
EmitUnfoldLeavingFoldOpen ==
  /\ Reads({"Unfold"})
  /\ LET base == [current_location EXCEPT !.fold = <<>>]
         alias == Alias(FoldEnd, "fold", FoldSubquery)
         matching == [b \in from_clause |->
                        {r \in alias.rows : b[AliasKey(base)].vertex = r.vertex}]
     IN  /\ Here(base, AliasAt(base))
         /\ aliases' = With(aliases, alias.key, alias)
         /\ from_clause' = Joined(alias.key, matching, dialect = "postgresql")
  /\ UNCHANGED <<current_fold, came_from, recurse_needs_cte, where, results, emission>>

EmitUnfold ==
  /\ Reads({"Unfold"})
  /\ LET base == [current_location EXCEPT !.fold = <<>>]
         alias == Alias(FoldEnd, "fold", FoldSubquery)
         matching == [b \in from_clause |->
                        {r \in alias.rows : b[AliasKey(base)].vertex = r.vertex}]
     IN  /\ Here(base, AliasAt(base))
         /\ aliases' = With(aliases, alias.key, alias)
         /\ from_clause' = Joined(alias.key, matching, dialect = "postgresql")
  /\ current_fold' = NoFold
  /\ UNCHANGED <<came_from, recurse_needs_cte, where, results, emission>>

EmitGlobalOperationsStart ==
  /\ Reads({"GlobalOperationsStart"})
  /\ current_location' = NoLocation
  /\ UNCHANGED <<current_alias, current_fold, aliases, came_from, recurse_needs_cte,
                 from_clause, where, results, emission>>

\* An output of the SELECT; PostgreSQL coalesces a missing list to an empty one.
SqlOutput(output, binding) ==
  LET row == binding[AliasKey(output.at)]
      Collected(m) == Column(m[2][AliasKey(output.at)], output.field)
  IN  IF ~IsFoldScopeLocation(output.at) THEN Column(row, output.field)
      ELSE IF output.field = COUNT THEN FoldSize(row)
      ELSE IF row = NULL THEN <<>>
      ELSE CountedBy(row.members, Collected)

EmitConstructResult ==
  /\ Reads({"ConstructResult"})
  /\ LET fields == ThisBlock.fields
         Row(b) == [name \in DOMAIN fields |-> SqlOutput(fields[name], b)]
     IN  results' = CountedBy(Selected, Row)
  /\ emission' = "emitted"
  /\ UNCHANGED <<current_location, current_alias, current_fold, aliases, came_from,
                 recurse_needs_cte, from_clause, where>>

FailEmission ==
  /\ emission = "emitting" /\ todo # <<>>
  /\ ErrorOf(ThisBlock) # ""
  /\ emission' = ErrorOf(ThisBlock)
  /\ UNCHANGED <<dialect, todo, current_location, current_alias, current_fold, aliases,
                 came_from, recurse_needs_cte, from_clause, where, results>>

----------------------------------------------------------------------------

EmissionInit ==
  /\ dialect = "" /\ todo = <<>>
  /\ current_location = NoLocation
  /\ current_alias = NoFold.outer /\ current_fold = NoFold
  /\ aliases = <<>> /\ came_from = {} /\ recurse_needs_cte = FALSE
  /\ from_clause = {} /\ where = {} /\ results = <<>>
  /\ emission = "waiting"

EmissionNext ==
  \/ StartEmission \/ SkipBlock \/ EmitMarkLocation \/ EmitBacktrack \/ EmitTraverse
  \/ EmitRecurse \/ EmitFilter \/ EmitFold \/ EmitUnfold \/ EmitGlobalOperationsStart
  \/ EmitConstructResult \/ FailEmission
=============================================================================
