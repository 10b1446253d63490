---------------------------- MODULE Compilation -----------------------------
(***************************************************************************)
(* A query on its way through the compiler: the front end turns it into    *)
(* basic blocks, and the SQL backend turns those into a SELECT, for one of *)
(* the two dialects it knows.  What comes out of each is compared with     *)
(* what QueryMeaning says of the query itself.                             *)
(***************************************************************************)
EXTENDS QueryMeaning, SqlEmission

LOCAL Machine == INSTANCE BlockMachine

compilation_vars == <<frontend_vars, sql_vars>>

Init == FrontendInit /\ EmissionInit

Next ==
  \/ FrontendNext /\ UNCHANGED sql_vars
  \/ EmissionNext /\ UNCHANGED frontend_vars

Spec == Init /\ [][Next]_compilation_vars

Compiled == outcome = "compiled" /\ emission = "waiting"

(***************************************************************************)
(* The front end                                                           *)
(***************************************************************************)
\* Two type coercions at one vertex field.
CoercedTwice(q) == \E v \in DOMAIN q : Cardinality(CoercedTypes(q, v)) > 1

\* A filter on a vertex field that compares with a tag of that very vertex field.
FiltersByOwnTag(q) ==
  \E f \in FiltersOf(q) : ~f.own /\
    \E p \in Tagged(q) : /\ p[1] = f.at
                         /\ PropertyAtPosition(q, p).tag \in TagArguments(f.filter)

\* The front end compiles every query that keeps the rules it enforces and no other,
\* whatever scopes were opened and closed before a check is made; what it trips over
\* is a second coercion of the same vertex field, and a tag that is read before the
\* properties are looked at (compiler_frontend.py, metadata.py).
EnforcesRules ==
  /\ Compiled => KeepsEnforcedRules(query) /\ ~FiltersByOwnTag(query)
  /\ outcome = "GraphQLError" => ~KeepsEnforcedRules(query) \/ FiltersByOwnTag(query)
  /\ outcome = "AssertionError" => CoercedTwice(query)

\* What query_directives.rst says of them: the queries that compile are legal.  Some
\* of its rules have no check in the walk of compiler_frontend.py, although the context
\* it keeps (the innermost scope of a fold, an optional, an output source) looks as if
\* they did.
CompiledQueriesAreLegal == Compiled => Legal(query)

\* A recursion whose elder sibling is a fold.
RecursesAfterFold(q) ==
  \E v, w \in DOMAIN q \ {1} :
    /\ v < w /\ q[v].parent = q[w].parent
    /\ Under(q, v, "fold") /\ Under(q, w, "recurse")
    /\ \A u \in (v + 1)..(w - 1) : q[u].parent # q[v].parent

\* The blocks pass the checks that three of the backends make before they lower
\* them (ir_self_consistency_checks.py), but for a recursion right after a fold.
BlocksAreConsistent ==
  Compiled /\ ~RecursesAfterFold(query) =>
    SelfConsistent(basic_blocks, metadata.locations)

\* The blocks, run one after another, find exactly the matches of the query, with
\* the outputs of each: locations, visits, tags and scopes are all in place.  An
\* output source promises less, so queries with one are left aside.
BlocksComputeQuery ==
  Compiled /\ OutputSources(query) = {} =>
    Machine!ResultsOf(basic_blocks) = Meaning(query, 0)

\* What ir_self_consistency_checks.py states of the front end's output without
\* the exception above.
FrontendIsConsistent == Compiled => SelfConsistent(basic_blocks, metadata.locations)

(***************************************************************************)
(* The SQL backend                                                         *)
(***************************************************************************)
IsList(q, p) == PropertyType(TypeWithin(q, p[1]), PropertyAtPosition(q, p).name).list

CoercionsOf(q, v) ==
  LET types == <<TypeEntered(q, v)>> \o [i \in DOMAIN q[v].fragments |-> q[v].fragments[i].type]
  IN  {i \in DOMAIN q[v].fragments : CoercionIsNeeded(types[i], types[i + 1])}

OutputsOfFold(q, f) ==
  {PropertyAtPosition(q, p).name : p \in {r \in AllProperties(q) :
     /\ FoldOf(q, r[1]) = f
     /\ PropertyAtPosition(q, r).output # "" \/ PropertyAtPosition(q, r).name = COUNT}}

\* The features that the backend says it does not have.
IsNotInSql(q) ==
  \/ OutputSources(q) # {}
  \/ \E v \in DOMAIN q : CoercionsOf(q, v) # {}
  \/ \E p \in AllProperties(q) :
       /\ IsList(q, p)
       /\ p \in Outputs(q) \cup Tagged(q) \/ PropertyAtPosition(q, p).filters # <<>>
  \/ \E f \in FiltersOf(q) :
       \/ f.filter.op \in {"has_edge_degree", "name_or_alias", "intersects"}
       \/ FoldOf(q, f.at) # 0 /\ ~FiltersCount(q, f.at) /\ TagArguments(f.filter) # {}
  \/ /\ dialect = "mssql"
     /\ \E f \in FoldRoots(q) : \/ COUNT \in OutputsOfFold(q, f)
                                \/ Cardinality(OutputsOfFold(q, f)) > 1

\* What makes a recursion start from a CTE: an edge or a filter before it.
IsSelective(q, v) ==
  \/ v > 1 /\ ~Under(q, v, "recurse") /\ ~Under(q, v, "fold")
  \/ \E f \in FiltersOf(q) : f.at = v /\ f.target.type # IntType
  \/ \E i \in DOMAIN q[v].properties :
       q[v].properties[i].name # COUNT /\ q[v].properties[i].filters # <<>>

RecursesFromCte(q, r) ==
  /\ r > 1 /\ Under(q, r, "recurse")
  /\ \E v \in 1..(r - 1) : IsSelective(q, v)

\* Queries that the backend cannot emit although it has the features.  Illegal ones
\* that the front end let through: a null check of a vertex, two edges from one
\* vertex inside a fold.  Legal ones: a recursion from a CTE after a fold or another
\* recursion, a fold of a vertex that is in such a CTE already.
IsUnforeseen(q) ==
  \/ \E f \in FiltersOf(q) : f.target.vertex /\ f.filter.op \in UNARY_FILTERS
  \/ \E v, w \in DOMAIN q : /\ v < w /\ v > 1
                            /\ q[v].parent = q[w].parent /\ FoldOf(q, q[v].parent) # 0
  \/ \E r \in DOMAIN q :
       /\ RecursesFromCte(q, r)
       /\ \/ \E u \in 2..(r - 1) : Under(q, u, "recurse") \/ Under(q, u, "fold")
          \/ \E f \in FoldRoots(q) : q[f].parent < r /\ r < f

\* Emission fails on the features that SQL lacks and in the unforeseen cases, and
\* nowhere else: no state of a fold, an optional scope or a recursion that is
\* over gets in the way of a later block (emit_sql.py).
EmissionFailsWhereNamed ==
  /\ emission = "NotImplementedError" => IsNotInSql(query)
  /\ emission \in {"KeyError", "AttributeError", "AssertionError"} => IsUnforeseen(query)
  /\ emission = "emitted" => ~IsNotInSql(query) /\ ~IsUnforeseen(query)

\* A fold of a vertex that was reached by a recursion.
FoldsRecursed(q) == \E f \in FoldRoots(q) : q[f].parent > 1 /\ Under(q, q[f].parent, "recurse")

\* A tag in an optional scope, at a vertex that was reached by a recursion along
\* a foreign key that may be null at the vertex it starts from.
TagsRecursedOptional(q) ==
  \E p \in Tagged(q) : /\ InOptional(q, p[1])
                       /\ Under(q, p[1], "recurse") /\ q[p[1]].edge \in ForeignKeyAtEnd

SqlIsExact(q) == ~FoldsRecursed(q) /\ ~TagsRecursedOptional(q)

\* The SELECT finds exactly the matches of the query, although optional scopes
\* have become left joins with conditions, recursions CTEs and folds grouped
\* subqueries.  The size of an empty fold is NULL (emit_sql.py).
SqlComputesQuery ==
  emission = "emitted" /\ SqlIsExact(query) => results = Meaning(query, NULL)

\* What the comments in expressions.py promise of the size of an empty fold.
EmptyFoldsHaveSizeZero ==
  emission = "emitted" /\ SqlIsExact(query) => results = Meaning(query, 0)
=============================================================================
