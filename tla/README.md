# A formal model of graphql-compiler

TLA+ modules that model parts of `graphql_compiler`, the TLC configurations that
check them on small instances, and proofs checked by TLAPS.  All paths below are
relative to `src/graphql_compiler/`.

## 1. The system

graphql-compiler turns a GraphQL query with its own directives (`@filter`,
`@output`, `@optional`, `@fold`, `@recurse`, `@tag`) into MATCH, Gremlin, Cypher or
SQL.  Around the compiler proper it has components that transform schemas and
queries.  There are no threads: what makes the components hard is *sequences of
calls* on which a client relies (page after page, macro after macro, schema after
schema), the *statistics and databases* that change between the calls, and large
amounts of case analysis over bounds, types and names.

| Component | State | Operations | Interacts with | What makes it correct |
|---|---|---|---|---|
| Query pagination (`query_pagination/`) | a query and its parameters, handed from call to call by the client | `paginate_query`: estimate, plan, generate a parameter, split | cost estimation, statistics, the database through the client | every result in exactly one page; what it returns validates; it ends |
| Cost estimation (`cost_estimation/`) | none of its own; reads statistics | intervals of filters, selectivity, cardinality, capacities | statistics, query metadata | intervals are exact; estimates are monotone; capacities never promise splits that cannot be made |
| Statistics (`cost_estimation/statistics.py`) | class counts, quantiles, distinct values | read, collected anew by the owner | cost estimation, pagination | none assumed beyond sorted quantiles |
| Macro registry (`macros/`) | registered macro edges and two indexes of them by class | `register_macro_edge`, `get_schema_with_macros` | schema, subclass sets, compiler front end | at most one macro edge of a name per class; reversibility; independence of the order of registration |
| Macro expansion (`macros/macro_edge/`) | the query being rewritten, names of its tags | `perform_macro_expansion` | macro registry | no name of the user is captured; the selection ends up at the target |
| Schema renaming (`schema_transformation/rename_schema.py`, `rename_query.py`) | name maps built while visiting the schema | `rename_schema`, `rename_query` | schema | the result is a schema; the reverse map leads back |
| Schema merging (`merge_schemas.py`) | merged AST, name-to-schema map | `merge_schemas` | schema | names stay unique; cross-schema edges join fields of one scalar type |
| Query splitting and plans (`split_query.py`, `make_query_plan.py`, `query_planning/`) | tree of sub-queries | `split_query`, `make_query_plan` | merged schema | joining the sub-results equals the whole query |
| Compiler front end (`compiler/compiler_frontend.py`, `filters.py`, `metadata.py`) | context of the traversal, metadata table, list of blocks | recursive `_compile_*_ast_to_ir` | schema | scopes are closed, tags defined before use, outputs distinct |
| IR and lowering (`compiler/blocks.py`, `expressions.py`, `ir_lowering_*`) | list of blocks | lowering passes, optional-traversal splitting | front end | each pass keeps the meaning and the block grammar |
| Emission (`compiler/emit_*.py`, `workarounds/`) | SQL compilation state | one handler per block | lowering | aliases and clauses refer to what is in scope |
| Schema graph (`schema_generation/`) | classes, inheritance sets | construction from database metadata | databases | inheritance is transitive and acyclic, edges have ends |
| Schema, scalars, formatting, post-processing, interpreter, tools | little | conversions | all | round trips |

`PROJECT.json` lists every component with its status, and under `hazards` what in
this code is hard to test, line by line.

## 2. What is modelled

### Pagination

A client of pagination repeats: call `paginate_query` on a query, run the page that
comes back, go on with the remainder, until there is none.  The promise of
`PageAndRemainder` is about one call; what a client needs is about the whole chain
of calls, while other clients write to the database and statistics are collected
anew.  That chain is the core of the project.

* `Interval` - `cost_estimation/interval.py` and the intervals of the inequality
  filters (`filter_selectivity_utils.py`).  `NoBound` is Python's `None`.
* `Quantiles` - the arithmetic on sorted quantiles: which quantiles lie inside an
  interval, which of them become page boundaries, which fraction of the values an
  interval holds (`parameter_generator.py`, `analysis.py`,
  `filter_selectivity_utils.py`).
* `CostEstimation` - selectivity of the filters on the pagination keys, the
  cardinality estimate at the root and the pagination capacities (`analysis.py`,
  `filter_selectivity_utils.py`, `cardinality_estimator.py`).
* `Pagination` - the state machine.  `pc` says where the call or the client is;
  every exit of `paginate_query_ast`, `get_pagination_plan`,
  `generate_parameters_for_vertex_partition` and `generate_parameterized_queries`
  is an action of its own:

  | Action | Code |
  |---|---|
  | `RejectArguments` | `validate_arguments` in `query_formatting/common.py`, reached through the metadata table |
  | `ReturnWithoutCounts`, `EstimateNumberOfPages` | `paginate_query_ast`, `_estimate_number_of_pages` |
  | `PlanWithoutKeys`, `PlanWithoutCapacity`, `PlanOnePage`, `PlanVertexPartition`, `RejectInterval` | `get_pagination_plan` and the uuid conversion it calls |
  | `GenerateParameter`, `GenerateNothing`, `RejectPartition` | `generate_parameters_for_vertex_partition` |
  | `GenerateParameterizedQueries`, `RejectDeletion` | `generate_parameterized_queries`, `_add_pagination_filter_at_node` |
  | `ExecutePage`, `RejectPage` | the client (external) |
  | `UpdateRow`, `RefreshStatistics` | other clients, the owner of the statistics (external) |

* `PagedEnumeration` - the abstract specification: the results are handed out in
  batches, each a prefix of what is left in one fixed ranking.
  `PaginationImplements` gives the refinement mapping.
* `QuantileSplits` - takes page after page of a single field and compares the
  boundaries with the plan, for every sorted list of quantiles up to a bound.
* `MCPagination` - the instances; `MCPaginationImplements` those of the refinement.

What is abstracted.  Fractions are exact where the code uses floats.  A field value
is the integer it converts to (`int_value_conversion.py`), which keeps the order.
Of the query, the model keeps the filters on the pagination keys at the root, the
names its other parts use (`elsewhere`), the combined selectivity of its other
filters (`rest`) and the estimate of its other vertices.  Rows are those that
pass the filters elsewhere.  The query root is a vertex without a type coercion.
`page_size` is positive.  A class count that is there when a call starts is there
during the whole call.  `in_collection` filters and distinct-value counts on the keys
themselves are not modelled.

### Macros

A macro edge is a piece of a query with a name, a base class and a target class; it
can be used like an edge of the schema.  The registry takes macro edges one by one,
and the expansion replaces them in a query.

* `MacroRegistry` - `register_macro_edge` with its validations, and the fields that
  `get_schema_with_macros` adds.  `macro_edges_at_class` and `macro_edges_to_class`
  are the two indexes, over the subclasses of the base and the target class.  An
  action is one call:

  | Action | Code |
  |---|---|
  | `RejectInvalid` | `get_and_validate_macro_edge_info` |
  | `RejectDefinition` | `check_macro_edge_for_definition_conflicts`, with the `AssertionError` of the description of unrelated types |
  | `RejectReversal` | `check_macro_edge_for_reversal_definition_conflicts` |
  | `RegisterMacroEdge` | `register_macro_edge` past its checks: the list and both indexes |

  The search for a conflict returns the first macro edge in the iteration order of a
  set, so it is a set of possible answers here (`FoundIn`).  Whether the body of a
  macro edge is a valid query is one predicate (`ValidExpansions`).
* `MacroEdgeSet` - the abstract specification: a set of pairwise compatible macro
  edges that takes a new one exactly if it is compatible with all.  Compatibility is
  symmetric, so the order of registration is of no consequence.
  `MacroRegistryImplements` gives the refinement mapping, `MCMacroRegistry` the
  instances.
* `MacroExpansion` - `expand_macros_in_query_ast`.  An AST is the sequence of its
  vertices in document order, each with its path from the root; an action is the
  expansion of the first macro edge that is left, or the error that it raises:

  | Action | Code |
  |---|---|
  | `RejectDirectives` | `_ensure_directives_on_macro_edge_are_supported` |
  | `RejectCoercion` | `_merge_selection_into_target`, the check of the type coercion |
  | `RejectMerge` | `merge_selection_sets`: an edge traversed twice, two tags on a field |
  | `RejectArguments` | `merge_non_overlapping_dicts` |
  | `ExpandMacroEdge` | `expand_potential_macro_edge`: new tag names, splicing, merging, arguments |
  | `Return` | `expand_macros_in_query_ast` |

  The recursion of `_expand_macros_in_inner_ast` visits macro edges in document order,
  those below a macro edge after it was moved into the body, which is what taking the
  first one over and over does.  `scope` on directives is a ghost: which expansion a
  directive comes from.  `MCMacroExpansion` has the macro edges (grandparents, rich
  siblings, coerced targets, as in the tests) and the queries.

What is abstracted.  Property fields without directives are left out: they are only
there so that selections are not empty.  Directives on one field are a set.  A tag name
is a sequence, the given name and the index of each `_macro_edge_` suffix; that a user
may write such a name by hand is included.  Left out: bodies whose root is a type
coercion, selections beside a type coercion (an error) and the sharing of AST nodes.
The text of a filter stands for its operator and its other arguments.

Two premises of properties are there because the code needs them.
`NamesAreApart` of `TagsStayInOrder` (no tag of a macro edge is another tag of it with
a suffix): `generate_disambiguations` compares a new name with the names being replaced and not
with the names chosen for them, so with tags `t` and `t_macro_edge_0` in one body and
a `t` in the query both may become `t_macro_edge_0`, depending on the order of a set.
`NoFilterBesideCoercion`: see "Seen and not checked".  Two more things to know: a
macro edge with arguments that is used twice in a query raises `AssertionError`
(`RejectArguments`), and a query whose field already has a filter can become one the
compiler rejects when a body tags that field; neither contradicts a promise.

### Schema transformation

Schemas are renamed, merged into one, and a query on the merged schema is taken apart
again into queries on single schemas in their own names.  What a client relies on is
the way there and back.

* `SchemaDefinitions` - schemas as sequences of definitions, and what makes them valid
  (`build_ast_schema`, `check_schema_identifier_is_valid`, `check_ast_schema_is_valid` and the like in
  `schema_transformation/utils.py`).
* `RenameSchema` - `rename_schema`.  One visitor walks over the schema, edits it and
  records what is wrong with the renamings; errors are raised at its end, the most basic
  kind first.

  | Action | Code |
  |---|---|
  | `RejectUnsupported` | `_ensure_no_unsupported_suppressions` |
  | `SuppressDefinition`, `EnterDefinition` | `RenameSchemaTypesVisitor.enter` on a definition, `_rename_fields` with it |
  | `EnterNamedType` | the same visitor on a reference to a type |
  | `LeaveSchema` | the errors raised after the visit, the two reverse maps |
  | `RenameQueryTypeFields` | `_rename_and_suppress_query_type_fields` |

* `RenameQuery` - `rename_query`, with the visitor's stack of types; the query is written
  while it is read (`EnterRootField`, `EnterField`, `EnterInlineFragment`, `Leave`, `LeaveQuery`),
  each time by any node that the renamed schema admits, `MaxNodes` in all.
  `MCRenameQuery` has the instances.
* `MergeSchemas` - `merge_schemas`.  An action is one definition or one cross-schema
  edge, each with its conflicts:

  | Action | Code |
  |---|---|
  | `RejectSingleSchema` | the check of the number of schemas |
  | `TakeQueryType`, `FinishSchema` | `_accumulate_types` |
  | `MergeDirective`, `MergeScalar`, `MergeType` | `_process_directive_definition`, `_process_scalar_definition`, `_process_generic_type_definition` |
  | `StartEdges`, `AddCrossSchemaEdge` | `_add_cross_schema_edges` and the checks of an edge |
  | `BuildMergedSchema` | `build_ast_schema` on the result |

* `SplitQuery` - `split_query` and `make_query_plan`.  A query is a sequence of vertices,
  each with its parent; a vertex that is cut off becomes a root.  `selections` are the
  vertices of the current node that are still to be split, the first one in the document
  next.

  | Action | Code |
  |---|---|
  | `PoseQuery` | `check_query_is_valid_to_split` |
  | `RejectRepeatedProperty` | `_split_selections_property_and_vertex` |
  | `RejectCrossSchemaField`, `ProcessCrossSchemaField` | `_process_cross_schema_field`, `_get_property_field`, `_get_out_name_optionally_add_output` |
  | `RecurseOnIntraSchemaFields` | `_split_query_ast_one_level_recursive_normal_fields` |
  | `FinishNode` | `_split_query_one_level`, `SchemaIdSetterVisitor` |
  | `MakeQueryPlan` | `_make_query_plan_recursive` |

* `FederatedQuery` - the abstract meaning: what a query asks of all databases together,
  where a cross-schema edge links rows with equal values, and what a client gets that
  runs the queries of the plan, parents first, and joins them on the columns the plan
  names.  The code has no executor; the one here does what the docstrings of
  `split_query` and `make_query_plan` tell the client to do.  `MCFederatedQuery` has the
  federations with their rows.

What is abstracted.  Descriptions, arguments of fields and enum values are left out.
Names are strings, their validity is the set `ValidNames`.  `__typename` in queries is
left out.  `@optional` and filters on cross-schema edges are moved as the code moves
them (`NothingIsDropped`), but have no meaning in `FederatedQuery`.

### Compilation

* `QueryLocations` (`compiler/helpers.py`), `FilterOperators` (`filters.py`),
  `BlockSequence` (`blocks.py`, `ir_self_consistency_checks.py`) - locations and their
  visits, which filters are allowed where and what they compare, the blocks and the
  grammar they keep to.
* `CompilerFrontend` - `compiler_frontend.py`, its directives and its metadata table.
  The recursive functions are a stack of frames, each with the agenda of its vertex.

  | Action | Code |
  |---|---|
  | `CompileRoot`, `FinishCompilation` | `_compile_root_ast_to_ir` |
  | `CoerceToFragment` | `_compile_fragment_ast` |
  | `ProcessFilter` | `process_filter_directive`, at the vertex or from its parent |
  | `ProcessTag`, `ProcessProperty` | `_compile_property_ast` |
  | `MarkVertex` | the middle of `_compile_vertex_ast` |
  | `VisitVertexField`, `LeaveVertexField` | the loop over vertex fields: `@optional`, `@fold`, `@recurse`, and what is closed after them |
  | `RejectQuery` | every `GraphQLCompilationError` and assertion on the way |

* `GraphValues`, `BlockMachine` - a small property graph, and what the blocks mean when
  they are run one after another on a set of traversers, as the Gremlin they print and
  its lowering define it.
* `QueryMeaning` - the abstract specification, said of the query as a tree without
  walk, context or blocks: which queries are legal, and which matches a query has.  The
  rules (`Legal`) are those of `docs/source/language_specification/query_directives.rst`
  and, where it is silent, of `tests/test_ir_generation_errors.py`: unused tags (`:565`),
  queries without outputs (`:1067`), a tag beside a filter on one field (`:1486`), and the
  types of a recursion (`:645`; the case of a union that the documentation names cannot
  occur, as unions have no fields).  Which operator takes which arguments is the code's.
  `KeepsEnforcedRules` are the rules that the front end sees to; each of the others is a
  definition of its own.
* `SqlEmission` - `ir_lowering_sql` and `emit_sql.py`, which builds one SELECT and keeps
  an alias for every location:

  | Action | Code |
  |---|---|
  | `StartEmission` | `emit_code_from_ir`, `SQLCompilationState.__init__`, lowering |
  | `EmitMarkLocation`, `EmitBacktrack`, `EmitTraverse`, `EmitRecurse`, `EmitFilter`, `EmitFold`, `EmitUnfold`, `EmitGlobalOperationsStart`, `EmitConstructResult` | the methods of `CompilationState` of the same names |
  | `SkipBlock` | blocks that nothing is emitted for |
  | `FailEmission` | the errors of the methods, with their kind |

  The SELECT is represented by the rows it stands for: the FROM clause by bindings of
  aliases to rows, the WHERE clause by predicates that stay pending until the query is
  wrapped in a CTE or finished, as in the code.
* `Compilation` composes the front end and the backend and compares both with
  `QueryMeaning`; `MCCompilation` has the graph and the queries.

What is abstracted.  Results are bags of records.  Tables have one key column, and an
edge joins a key to a foreign key.  A CTE that is made after a fold ends in `KeyError` at once;
where the fold's base vertex uses no column beside its key, the code gets as far as the
first use of the fold's own columns before it raises it.  The restriction of the base
of a recursion matters only when a CTE is made.  The post-processing of MSSQL's string
of folded values is the identity.  Strings are not ordered in the instance: `<`, `>`
and `between` are tried on integers.  Left out: `__typename`, validation against the
schema (`compiler/validation.py`), an `_x_count` without directives in an outer scope of a
fold (it has no effect), the recursion and history tables of the metadata,
MATCH, Gremlin and Cypher beyond the checks made before they are lowered, and the text.

## 3. Runs

| Run | Instance | Shows |
|---|---|---|
| `pagination` | an integer key, values 0..5, and a uuid key, values 0..9, two rows (one may be updated), twenty queries (four of them ill-formed, two bounded by a unique index), eight sets of statistics that may change between and in the middle of calls, pages of 2 | no row lost or repeated (`ExactlyOnce`) and no split empty, with boundaries from quantiles and by integer division; what is returned validates, queries do not grow, the field is kept, remainders move up |
| `pagination_implements` | two integer keys, three of the queries of `pagination`, two tables, two sets of statistics that change only between calls | refinement of `PagedEnumeration`, termination of the client, only ill-formed queries raise |
| `quantile_splits` | all sorted lists of up to 6 of 4 values, all intervals, up to 4 splits | splits are even, estimates shrink with the interval, plans compose when quantiles do not repeat |
| `macro_registry` | five classes with an interface, a union equivalent to one, one edge name and its reverse, every order of registration | one macro edge of a name per class, reversibility, a schema can be built, refinement of `MacroEdgeSet` |
| `macro_expansion` | six macro edges, three classes, 456 queries with up to four macro edges nested and side by side, tags of the query named like those of the bodies | tags unique and declared before use, no capture, every selection kept, arguments match, each macro edge expanded once |
| `rename` | four schemas (interfaces with and without implementers, one that the query type implements, a union, an enum, a scalar, a field that leads back to the query type), 150 type and 30 field renamings, every query of up to five nodes | what is accepted gives a valid schema, the reverse maps undo it, every renaming that is given has an effect, queries come back in the original names up to the first type coercion |
| `federation` | 31 federations of up to three schemas, queries of up to four vertices over those that merge, a database of a few rows | conflicts do not depend on the order of schemas, the merged schema is valid, its edges lead somewhere, every query of it can be split, intermediate names are unique, nothing of the query is dropped, the plan computes the query |
| `compilation` | 1862 queries of up to four vertex fields with every combination of optional, fold and recurse, tags and filters across them, six vertices, both SQL dialects | which queries are compiled, that blocks keep their grammar, that blocks and SELECT find exactly the matches of the query, and that emission fails only where `EmissionFailsWhereNamed` says |

The bounds are small, but every action fires, chains of remainders go as deep as the
values allow, and quantiles repeat, coincide with bounds and are too few in some
instance.  Two rows suffice for every property about rows: the properties speak of
one row at a time, and the second one is there to be updated; the first takes every value
of both keys.  Ten uuids are enough for intervals with more and with fewer values than
splits, and for divisions with and without a rest.  Names of different
macro edges do not interact except through their reverses, so one name and its
reverse suffice in the registry.  In the expansion, a third use of a tag name and a
macro edge inside the selections of another are the deepest interactions: a body
holds no macro edges.  Five nodes are a vertex, a type coercion, fields in it and a field
after it: what a stack out of step needs.  Three schemas are needed for an edge between
sub-queries neither of which is the root.  Four vertex fields give every pair of
scopes, nested and side by side, with a use after both.  Sessions, registrations,
expansions, renamings, splits and compilations end, so deadlock is not checked in them
(`macro_registry` does check it).

Four runs end in a violation of what a comment, docstring or assertion of the code, or
its documentation, says
(`findings` in `PROJECT.json`):

| Run | What it shows |
|---|---|
| `rename_coercions` | a field that comes after a type coercion is translated against the wrong type, or raises `AssertionError` |
| `compilation_recurse` | a recursion right after a sibling fold gives blocks that fail the checks made before lowering to MATCH, Gremlin and Cypher |
| `compilation_count` | the size of an empty fold is NULL in SQL, is output as NULL, and passes no filter |
| `compilation_legal` | queries are compiled that `query_directives.rst` forbids: with a recursion inside of an optional scope, with two vertex fields side by side in a fold (if the first has no outputs), with `is_null` on a vertex field, with a fold after the output source, with a tag on a vertex field around a type coercion |

Each has a counterpart in a passing run of the same module.  Of the first three it has the
premise under which the promise is kept: `NamesAreTranslatedBeforeCoercions`,
`BlocksAreConsistent`, and `SqlComputesQuery`, which takes the size of an empty fold as
NULL.  Of the last it is `EnforcesRules`: the front end compiles exactly the queries that
keep the rules it enforces (`KeepsEnforcedRules`), but for those with two coercions at a
vertex field or a filter on a vertex field by its own tag.  What is asked beyond that are
the rules of `DocumentedRules`, so these are all the ways in which what is compiled is not
legal; TLC stops at the first, and `EachRuleTakenAlone`, an assumption that the runs
evaluate, says that the instance has a compiled query for each of them alone.

Fairness.  `WF_vars(Paginate)`: a call is a plain sequential computation that returns
or raises.  `WF_vars(Client)`: a client that wants all results runs each page and goes
on.  There is none on updates and on statistics.  `MacroExpansion` has weak fairness
of its next step for the same reason; the registry has none, its caller may stop.
Termination is checked on the small instance of `pagination_implements` only
(`Ordered...` in `MCPagination`): evaluating ENABLED of the whole call is slow.

## 4. Proofs

Eight modules hold the theorems (`theorems` in `PROJECT.json` lists those to know of),
each for all constants that satisfy the named assumptions of the model:

| Module | About |
|---|---|
| `QuantileProofs` | page boundaries and estimated fractions of one list of quantiles |
| `PaginationProofs` | one call and what no page and remainder lose; what the planner promises, chains of calls, and the refinement of `PagedEnumeration` |
| `QuantileSplitProofs` | plans of page after page over one field |
| `MacroRegistryProofs` | the registry and the refinement of `MacroEdgeSet` |
| `MacroExpansionProofs` | queries whose macro edges are expanded: their tags, selections, arguments and macro edges |
| `RenameProofs` | `rename_schema` and `rename_query` |
| `MergeProofs` | `merge_schemas` |
| `SplitProofs` | `split_query` and `make_query_plan` |

The assumptions say what the types of the constants are, and what the code takes for
granted of its arguments:

* `PaginationAssumption`: quantiles are ascending and at least two for each field
  (`cost_estimation/statistics.py:190`); the vertices of a query are numbered
  from 1 (0 is the position of the filter the paginator adds); a class whose key is a
  uuid has no more rows than there are uuids.
* `SchemasAreValid`: a schema to be renamed is one that `check_ast_schema_is_valid`
  admits, written down as a definition of its kind is (an enum has no fields).
* `FederationsAssumption`: each schema to be merged is one that
  `check_ast_schema_is_valid` admits, written down as a definition of its kind is, with
  root fields that lead to vertices; no interface implements another (the comment at
  `compiler/subclass.py:54-57`); an equivalence is what the docstring of
  `type_equivalence_hints` says, "the most-derived common supertype" of the types of a
  union, so these have its fields.
* `QueriesAssumption`: a query is written down as a tree of vertices, each after its
  parent, the root first.
* `RegistryAssumption`: classes are object types and interfaces, object types implement
  interfaces, and a macro edge leads from a class to a class.
* `ExpansionAssumption`: queries and bodies of macro edges compile but for the macro edges
  in queries: a tag is declared once, before it is used, and on a property field
  (`compiler/directive_helpers.py:15,147`); no edge is traversed twice from one vertex.
  The root of a body has no directive but `@macro_edge_definition`
  (`macros/macro_edge/validation.py:157-180`).  A macro edge exists at the subclasses of the
  class its body starts from (`macros/__init__.py:138-141`), a class being one of its own
  (`macro_edge/validation.py:183-191`), and leads to vertices of the class at its target
  (`macro_edge/ast_traversal.py:113`), where a coercion may be outside only
  (`macro_edge/validation.py:134-143`).  Its name is no field of these classes
  (`macro_edge/validation.py:208-240`), and a class has the fields of those it is a subclass
  of, so the fields of a body are no macro edges at whatever subclass it is used
  (`HoldsNoMacroEdges`).

### Pagination

1. `BoundariesInside`: page boundaries lie inside the query's interval.  Rests on
   facts about `BisectLeft`/`BisectRight` on ascending sequences.
2. `SplitIsPartition`: the filters of the page and of the remainder split the rows
   of the query, although filters are dropped.  A dropped filter has the operator
   of the new one and a weaker bound: that is where (1) is needed, as
   `GeneratedParameterFits`.
3. `CallInvariant`: the locals of a call agree with its query; by itself not
   enough for anything but needed for the next ones.
4. `TypeCorrect`, `NothingLostOrRepeated` and `SoundResultsValidate` are
   `Spec => []TypeOK`, `[]ExactlyOnce` and `[]PagesValidate`.  `ExactlyOnce` is
   not inductive: `Tracked` adds that every remainder is again a query that
   validates and shares no parameter the paginator may delete, and what the page
   and remainder are in terms of the query.
5. `PlannedSplitsCanBeMade`: the planner and the parameter generator are two pieces of
   code that look at the same statistics differently, by an estimated number of pages
   and by counting quantiles; the one never plans what the other cannot make.  It rests
   on how estimates compare: a capacity never counts more quantiles than there are
   (`CapacityIsBounded`), and a uuid query is estimated to have at most one result, or at
   most one for each uuid of its interval (`DistinctEstimateBound`, through the fold that
   combines the selectivities of the filters).
6. `RaisesOnlyOnBad`, `NoSplitIsEmpty` and `PagingMovesUp` are
   `[]RaisesOnlyOnBadQueries`, `[]SplitsAreNotEmpty` and the action property
   `RemaindersMoveUp`.  The invariant is `SessionInv`: `WithinReach` hands (5) from the
   planner on to the generator and the splitter, and `SplitsMoveOn` says of what a split
   leaves that it can be split in turn and starts higher.
7. `FieldStays` and `QueriesStaySmall` are `[]FieldIsStable` and `[]QueriesDoNotGrow`.
   The invariant is `ChainInv`: the paginator's own filter is on the field that the next
   call will choose, so the next call replaces it.
8. `PaginationImplementsEnumeration` is the refinement: initial states map to initial
   states and every step to a step of the enumeration or a stutter.  `OneRanking` adds
   that every call cuts at the field the whole query would be cut at (from 7) and that a
   page lies below its remainder on it; with `ExactlyOnce` (from 4), the results of the
   queries still to be run are those of the whole query that no page gave.  The theorem
   asks for rows that nobody updates and that have a value in each field (`Static`).
9. `SplitsStayEven`, `EstimatesStayMonotone` and `PlansCompose` are about every list of
   quantiles, interval and number of splits, where the run has lists of up to six.  The
   invariant `SplitsInv` is simple, the work is arithmetic of rounded divisions: where
   the next plan starts to count (`SplitIndexOfRemainder`).

`ExactlyOnce` as proved says nothing of rows that are updated meanwhile or that
miss a value in a key: these have no guarantee (see "Seen and not checked").
`NoSplitIsEmpty` and `PagingMovesUp` have the premise `CountsValues`.  Without it both
are false: a filter on a unique index bounds the results of a query but says nothing of
the interval of its uuids, so a query for three results with one uuid is split in two.

### Macro registry

The inductive invariant is `Consistent`: both indexes have the
classes as their domain; an entry is a registered definition under its own name at a
class that inherits it, and every registered definition is in the entries of all
such classes; any two that are registered are compatible.  The safety properties
follow from it without looking at the steps again:
`RegistryTypeCorrect`, `OneMacroEdgePerClass`, `IndexesAgree`,
`MacroEdgesAreReversible`, `VerdictDoesNotDependOnIteration`,
`SchemaWithMacrosCanBeBuilt`.  `Accepts` says that the checks of the code (searches in
the indexes, in whichever order) let a definition pass exactly if it is compatible
with all that are registered; with it, `RegistryImplementsMacroEdgeSet` is the
refinement, initial states and steps.

### Macro expansion

`FiltersReadTheirOwnTags`, `TagsAreInOrder`, `SelectionsStay`, `ArgumentsStayMatched` and
`MacroEdgesOnce` are `[]ScopesDoNotMix`, `[]TagsStayInOrder`, `[]SelectionsAreMerged`,
`[]ArgumentsMatch` and `[]EachMacroEdgeOnce`, for every set of macro edges and every query.
The argument has three parts.

* Names.  A name with a suffix that is not taken is found, because so many names cannot
  all be taken (`DisambiguationIsFree`, a pigeonhole over a finite set).  So the new names
  of a body are none of those in use, and different ones get different names if no name is
  another one with a suffix (`ChangeIs`); a body is in order under its new names
  (`BodyStaysWellTagged`).
* Places.  The seven parts that `_expand_specific_macro_edge` puts together hold the
  vertices of the query and those of the body, each in their own order and nothing else;
  at two places one of each is put together, at the target and at the vertex the macro edge
  starts from (`Weave`, `AssembledWeaves`).  What is woven together stays in order
  (`WovenPrecede`), unique when the names are apart (`WovenUnique`), and within its scopes:
  a filter uses tags of its own part only, and the parts share none (`WovenScopes`).

* Paths.  The new vertices are in document order again (`AssembledTree`), because the
  vertices under one follow it without a gap (`NoGap`).  What was under the macro edge is at
  the path of the target and then its own, all else stays where it was (`Grown`), so a
  vertex below another one stays below it (`GrownKeepsPaths`), and the parent of a vertex
  becomes the parent of the one it becomes.  Parents keep their types but for the target, so
  a vertex of the query is a macro edge exactly if it was one, and the same
  (`GrownQueryEdges`); a vertex of the body starts from a subclass of the class it starts
  from in the body, so it is none (`GrownBodyEdges`).  The types fit because a coercion at a
  macro edge is to a subclass of its target (`FitsAt`).

There are two inductive invariants.  `ExpansionInv` adds to the properties about tags that
the query so far is a tree, vertices in document order and at different paths, that the set
of taken names is finite and that it holds every tag of the query so far.
`ScopesDoNotMix` needs no premise: two tags of one body that get the same name have the same
scope.  `MergeInv` adds to the others that macro edges are typed by their targets, that no
filter stands beside a type coercion at any macro edge *that is left*, and that there is a
function from the vertices of the query given to those of the query so far that keeps their
directives and what is below what (`HoldsQuery`): `SelectionsAreMerged`, which only says
that such vertices exist, one query vertex at a time, does not survive a step.

### Renaming

`RenamingMakesValidSchemas`, `ReverseMapsLeadBack` and `RenamingsHaveEffect` are
`[]RenamedSchemaIsValid`, `[]ReverseMapsUndo` and `[]EveryRenamingHasEffect`, for every
valid schema and every pair of renamings, and within the steps of `RenameQuery`, which
leave the schema alone.  The visitor only records what is wrong while it edits, and later
names overwrite earlier ones in its map; the argument is that nothing recorded and no
complaint is ever lost.  The invariant `RenameInv` has three parts:

* `VisitorInv`: for each type that was entered, the map holds its new name and, unless
  there is a complaint about names, leads back to it (`TypeRecorded`); for each object
  type that stays, its fields are recorded or complained of (`FieldsRecorded`); and
  nothing else is in the maps (`NamesInv`, `FieldsInv`).
* `MadeFrom`: the renamed definitions are, one for one, the images of those that stay.
* past the verdict, there is no complaint (`NoComplaints`).

From there on it is a matter of states: without complaints the renaming of types is one
to one (`OneToOne`), names of fields are apart (`NewNamesAreApart`), no field outlives its
type (`TypesOfFieldsStay`), and what is left builds (`ResultBuilds`) unless the query
type's name was taken or an interface lost the type of a field, which are the two cases
the visitor does not look for (`Unforeseen`).  The proof found a third:
`check_ast_schema_is_valid` admits a query type that implements an interface, whose root
fields are renamed while those of the interface are not.  The result builds with
`build_ast_schema` and is not a valid schema; `RenamedSchemaIsValid` has the premise
`~RootImplements`, and the run has such a schema.

`NamesAreTranslatedBack` is `[]NamesAreTranslatedBeforeCoercions`, about the visitor of
`rename_query` and its stack of types.  It rests on `RenameInv`, and on `QueryInv`: until
an inline fragment is left, the stack holds, by their original names, just the types of
the renamed schema that the visitor is in, and names written so far are those that the
reverse maps lead back to.  That the stack is out of step once a fragment was left is the
reason for the premise, and what the run `rename_coercions` shows.

### Merging

`ConflictsAreFoundInAnyOrder` is `Spec => []ConflictsDoNotDependOnOrder`:
schemas get merged only if no two of them are in conflict, and a conflict is raised
only if two of them are, although each definition is compared only with what was merged
before it and types, scalars and directives are kept in three tables.  The inductive
invariant `MergeInv` says that the tables hold exactly the names of the definitions
that have been read (all those of earlier schemas, and of the current schema those
before the current one), that no name is both a type and a scalar or a type of two
schemas, and that a conflict that was raised is one between two of the schemas.  Without
the assumption that a schema alone defines its types and directives once, two definitions
of one schema would be reported as a conflict of schemas.

`MergedSchemasAreValid` and `MergedEdgesCanBeWalked` are `[]MergedSchemaIsValid` and
`[]EdgesCanBeWalked`.  `_add_cross_schema_edges` checks an edge against the types it
names, one edge after another; what it then changes are all classes below these types,
and what it promises is about any class on the other side.  The invariant
`FederationInv` adds to `MergeInv`:

* `ReadingInv`: the merged definitions come, one for one, from definitions that were read
  (`IsFrom`), with the schema they are recorded under, and the fields of the query type
  are those of the query types that were read.
* `EdgesStand`, while edges are added and after: definitions have only gained fields
  (`IsExtended`); names of fields are apart; an implementer has the fields of its
  interface (`ImplementersFollow`), since the classes below the interface are those
  that get a field with it; every field with a `@stitch` is one direction of an edge, and
  such an edge joins single values of matching scalars of classes of two schemas
  (`StitchesAreEdges`, `Stitches`); and each edge so far is on every class below its ends
  (`Walked`).

That an edge is checked against definitions that have edges already does no harm: a
field with a `@stitch` is a list, so the fields an accepted edge joins are fields of the
schemas themselves (`ReferenceIs`), and the classes below have them too (`Subclasses`).
At the end a reference leads to a type of the same schema, to a scalar, or along an edge
to a class or its equivalent union (`TypeOfAnEdge`), so the result builds unless one
of the cases of `UnforeseenInMerge` is there (`BuildsAtLast`).  The proof found a case
that the run had not: a schema with a type that refers to its own query type
(`QueryTypeIsReferredTo`), whose merge ends in `TypeError` although no check objects.  It
is a premise of both properties, and the run has such a schema now.

### Splitting

`NothingOfAQueryIsDropped` is `[]NothingIsDropped`.  The query is taken apart in place: a
branch that is cut off becomes a root, its edge, coercion, filters and directives are
gone, and they must have found their way into the property that the edge stitches, whose
place in the parent is edited while the parent is still being split.  The invariant
`SplitInv` says of every reachable state of a split that

* properties of a vertex only grow (`Grown`): each keeps its place, its out name and its
  filters, later ones come after them;
* a vertex is as the query has it, or it is a root with the type it had, it was below a
  cross-schema edge, and its parent asks in the stitched field for what the edge did
  (`VerticesInv`);
* for a set `H` of vertices whose selections have been split (`HaveBeenSplit`), no
  property is repeated in it, every cross-schema edge out of it is cut, and what is not in
  it is `Due`, as a vertex to be split or the root of a node in the queue or of a child of
  the current node, or is below such a vertex.

When nothing is due any more, `H` is the whole query, as vertices come after their
parents (`AllHaveBeenSplit`).  Types of vertices are declared along the tree; that this
recursive function exists and is the only one is shown by a least counterexample
(`TypesCanBeDeclared`, `DeclaredTypesAre`), and that cutting a branch off keeps the type
of every vertex, the coerced type of the branch being its new root field, is
`CuttingKeepsTypes`.

`MergedSchemasSplitWell` is `[]MergedSchemasCanBeSplit`: a query that GraphQL validates,
over a schema that `merge_schemas` made, is never refused with `SchemaStructureError`, ends
in an `AssertionError` only if one of its edges leads to a type without a root field, and
every query of its plan has the id of the one schema that all its types are of.  The proof
takes `FederationInv` and `SplitInv` together:

* Of the merged schema: only classes have fields (`FieldsOfClasses`); a class that a vertex
  of another type is coerced to is of the same schema, be that type an interface, a union
  or the union that an equivalence adds (`CoercedWithinASchema`); a field without
  `@stitch` does not leave its schema (`FieldsWithinASchema`); and the fields that an edge
  stitches are scalars on both sides (`StitchLeads`, from `StitchMeans`, which also gives
  `MergedEdgesCanBeWalked`).
* Of a vertex: it is a class of the schema of its declared type (`VerticesAreClasses`), and
  of that of its parent, unless a cross-schema edge leads to it (`SameSchema`).
* Of a piece: the roots of vertices are a recursive function like their types (`RootsAre`).
  A piece whose root has been split is split all over, unless a vertex of it is still due
  (`PieceIsSplit`), so no cross-schema edge is left in it and all of it is of the schema of
  its root (`IdsInAPiece`, by its first vertex that is not); what it asks for is a
  property, also where the split added it, so it validates (`PieceValidates`).
* Of the states of a split (`PiecesInv`): roots of nodes are cut off, every property that
  is asked for is a scalar of the type of its vertex, and every node that is no longer in
  the queue has the id of the schema of its root; and of an error (`ErrorsInv`) that an edge
  to a type without a root field is there.

Without its premise the property is false, which the attempt to prove it showed: a field of
a schema's own query type is kept under that type's name when another schema has a type of
this name, and leads into that schema without a `@stitch` (section 5).  The run has such a
federation now.

### Only model-checked

* `Terminates`: liveness under fairness is out of the prover's reach; `PagingMovesUp` is
  what it rests on.
* `OutNamesStayUnique`: out names are made with `ToString`, of which the provers know
  nothing, and outputs are looked for among the first ten properties of a vertex.
* `PlanComputesQuery` and compilation: most of these compare results of
  recursive functions over a query tree, which need induction over data; the library's
  induction theorems cannot be instantiated here.

## 5. Seen and not checked

What the models (or reading for them) showed and no run keeps.

Pagination:

* A page of a valid query whose parameter is used in two filters does not validate when
  one filter is dropped: the parameter goes with it (`global_utils.py:54` asks for the
  same arguments; `PagesValidate` has the premise).
* A row without a value in the pagination field is in no page
  (`query_parameterizer.py:346`); `typedefs.py:25-26` says that page and remainder
  together are the query.
* When another filter bounds the results by a unique index, the remainder of a uuid query
  can be equivalent to the query, and a client pages for ever.
* With repeated quantiles, splitting a remainder again gives other boundaries than the
  first plan (`parameter_generator.py:72`); `ComposableWithoutRepetition` has the premise.

Macros:

* Two interfaces with a common implementation conflict, and the message cannot be built:
  `AssertionError` (`macros/validation.py:62-68`).
* A filter on a macro edge is lost when its selections are inside of a type coercion
  (`macros/macro_edge/expansion.py:104`, docstring at `:33`).
* The docstring of `get_schema_with_macros` (`macros/__init__.py:154-160`) asks that
  members of a union have no outgoing macro edges of one name and says that
  `register_macro_edge` sees to it; a macro edge at a class that stands for a union is
  added to all of its members (`macros/__init__.py:138-146`).

Schema transformation:

* Renaming a type to the name of the query type, or suppressing a type that is the
  only field of an interface without implementers, ends in `TypeError` from building the
  schema (`Unforeseen` in `RenameSchema`); `__typename` in a renamed query is not a field
  of any type.
* A root field that is used below the root, where a field of a type leads to the query
  type, keeps its renamed name: `_rename_name` (`rename_query.py:123`) knows root fields by
  their nesting only, and the docstring at `:34` says that all names are renamed.
  `NamesAreTranslatedBeforeCoercions` has the premise (`RootFieldBelowRoot`).
* A user's output named like an intermediate one, and a runtime parameter named like
  an output that a sub-query is joined on, collide; `OutNamesStayUnique` has the premise.
* A cross-schema edge to a type without a root field cannot be split (`AssertionError`).
* A type or scalar named `RootSchemaQuery`, or cross-schema edges without a definition of
  `@stitch`, end in `TypeError` (`UnforeseenInMerge`).
* A schema with a type that has a field of its own query type passes the checks and ends
  in `TypeError` when it is merged: `_accumulate_types` (`merge_schemas.py:297-324`) puts
  the merged query type in the place of the schema's, and the field's type is gone.  If
  another schema has a type of that name the merge succeeds, the field leads to that type,
  and a query along it ends in `SchemaStructureError`; `MergedSchemasCanBeSplit` has the
  premise (`QueryTypeIsReferredTo`).
* Root fields that lead to scalars are not rejected; two schemas with a root field for the
  same scalar would give the merged query type that field twice.
  `FederationsAssumption` leaves such schemas out.

Compilation:

* The second recursion after a traversal or filter, and a recursion after a fold with a
  filter or traversal inside, end in `KeyError`; a fold whose base was replaced by a CTE in
  `AttributeError`.  These are what `EmissionFailsWhereNamed` names.
* A fold below a recursion repeats folded values; the comment at the unfolding
  promises exactly one folded result per row.
* Two type coercions at one vertex field with different types end in `AssertionError`.
* `@output_source` on a vertex field is ignored when its selections are in a type coercion
  (`@tag` and `@output` are too: `compilation_legal`).
* A filter on a vertex field that uses a tag of the same vertex is refused with "Undeclared
  argument used": filters of a vertex field are processed before the tags of its properties
  are recorded (`compiler_frontend.py:796`).  `query_directives.rst:484` allows tags "at the
  same vertex".  `EnforcesRules` names the case (`FiltersByOwnTag`).
* Of the illegal queries that are compiled, those with two traversals side by side in a fold
  end in `AssertionError` in SQL, and those with `is_null` on a vertex field in `KeyError`;
  `EmissionFailsWhereNamed` names both.

## 6. Not modelled, and the plan

Done: pagination, macros, renaming, merging, splitting and plans, the front end, the
blocks, emission of SQL.  What is left, in this order:

1. Proofs for the front end: that the scopes of `CompilerFrontend` are closed where its
   stack says.
2. The recursion of the cardinality estimate over the location tree, `in_collection` and
   distinct-value counts, byte-swapped uuids.
3. Lowering to MATCH, Gremlin and Cypher: splitting at optionals and the rewriting of
   filters, each against `BlockMachine`.
4. The schema graph (inheritance sets, ends of edges), and the token stack of the
   interpreter's `DataContext`.

Left out for good: printing and parsing of query text, conversion of values and result
cells, reading of database metadata, command-line tools and type annotations.  They keep
no state and their correctness is a matter of text or I/O.
