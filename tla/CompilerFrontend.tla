-------------------------- MODULE CompilerFrontend --------------------------
(***************************************************************************)
(* The compiler front end (compiler/compiler_frontend.py): one walk over a *)
(* query that emits the basic blocks of the intermediate representation,   *)
(* while a mutable context says which scopes are open and a metadata table *)
(* collects locations, tags, outputs and filters.                          *)
(*                                                                         *)
(* The recursive functions are unrolled into a stack of frames, one for    *)
(* each vertex field being compiled.  A frame's agenda holds the work left *)
(* at the vertex itself, in the order of the code: its filters, type       *)
(* coercions, the filters its vertex fields put on it, tags, properties    *)
(* and the mark of its location; then its vertex fields are visited.       *)
(*                                                                         *)
(* A query is the sequence of its vertex fields in document order, the     *)
(* root first, each with the index of its parent.                          *)
(***************************************************************************)
EXTENDS BlockSequence

CONSTANTS
  Queries,              \* queries that are valid against the schema
  PropertyTypes,        \* type -> property field -> its type
  VertexFieldTypes,     \* type -> vertex field -> the type at its end
  Interfaces,           \* type -> the interfaces it implements
  UnionMembers,         \* union type -> its members
  TypeEquivalenceHints  \* type -> the union it stands for

VARIABLES
  query, stack, basic_blocks, global_filters, context, metadata, inputs,
  outcome   \* "parsed", "compiling", "compiled", or the error that was raised

frontend_vars == <<query, stack, basic_blocks, global_filters, context,
                   metadata, inputs, outcome>>

(***************************************************************************)
(* Types                                                                   *)
(***************************************************************************)
PropertyType(type, field) ==
  IF field = COUNT THEN IntType ELSE PropertyTypes[type][field]

\* hinted_base: a union that stands for a type is replaced by that type.
VertexFieldType(type, edge) ==
  LET end == VertexFieldTypes[type][edge]
      bases == {base \in DOMAIN TypeEquivalenceHints :
                  TypeEquivalenceHints[base] = end}
  IN  IF bases = {} THEN end ELSE CHOOSE base \in bases : TRUE

HintedMembers(type) ==
  IF type \in DOMAIN TypeEquivalenceHints
  THEN UnionMembers[TypeEquivalenceHints[type]] ELSE {}

RecurseTypesAreLegal(current, end) ==
  \/ current \in {end} \cup HintedMembers(end)
  \/ end \in Interfaces[current]

CoercionIsNeeded(current, to) ==
  /\ to # current
  /\ ~(/\ current \in DOMAIN UnionMembers
       /\ to \in DOMAIN TypeEquivalenceHints
       /\ TypeEquivalenceHints[to] = current)

(***************************************************************************)
(* The query's syntax tree                                                 *)
(***************************************************************************)
Children(q, v) == SelectSeq([i \in DOMAIN q |-> i], LAMBDA w : q[w].parent = v)

IsOuterScope(filter) == filter.op \in OUTER_SCOPE_VERTEX_FIELD_OPERATORS

Distinct(seq) == \A i, j \in DOMAIN seq : seq[i] = seq[j] => i = j

\* _get_fields, _get_inline_fragment, get_unique_directives and the checks of
\* get_local_filter_directives at one vertex field.  "flaw" names what the
\* document order of a selection, which is not kept here, can get wrong.
SelectionIsLegal(q, v) ==
  LET properties == q[v].properties
      edges == Children(q, v)
  IN  /\ q[v].flaw = ""
      /\ Distinct([i \in DOMAIN properties |-> properties[i].name])
      /\ Distinct([i \in DOMAIN edges |-> q[edges[i]].edge])
      /\ \A i \in DOMAIN properties : \A j \in DOMAIN properties[i].filters :
           ~IsOuterScope(properties[i].filters[j])
      /\ \A i \in DOMAIN q[v].fragments : \A j \in DOMAIN q[v].fragments[i].filters :
           ~IsOuterScope(q[v].fragments[i].filters[j])

NoFilter == [op |-> "", args |-> <<>>]

Task(kind, field, name) ==
  [kind |-> kind, on |-> "", field |-> field, name |-> name, filter |-> NoFilter]

FilterTasks(on, field, filters) ==
  [i \in DOMAIN filters |->
     [kind |-> "filter", on |-> on, field |-> field, name |-> "",
      filter |-> filters[i]]]

\* The order in which _compile_ast_node_to_ir, _compile_fragment_ast and
\* _compile_vertex_ast work at one vertex.  Every tag of the vertex is
\* declared before the filters of any of its properties.
Agenda(q, v) ==
  LET vertex == q[v]
      edges == Children(q, v)
      properties == vertex.properties
  IN  FilterTasks("vertex", vertex.edge,
        SelectSeq(vertex.filters, LAMBDA f : ~IsOuterScope(f)))
      \o FlattenSeq([i \in DOMAIN vertex.fragments |->
           <<Task("coerce", "", vertex.fragments[i].type)>>
           \o FilterTasks("fragment", "", vertex.fragments[i].filters)])
      \o FlattenSeq([i \in DOMAIN edges |->
           FilterTasks("edge", q[edges[i]].edge,
             SelectSeq(q[edges[i]].filters, IsOuterScope))])
      \o FlattenSeq([i \in DOMAIN properties |->
           IF properties[i].tag = "" THEN <<>>
           ELSE <<Task("tag", properties[i].name, properties[i].tag)>>])
      \o FlattenSeq([i \in DOMAIN properties |->
           FilterTasks("property", properties[i].name, properties[i].filters)
           \o <<Task("property", properties[i].name, properties[i].output)>>])
      \o <<Task("mark", "", "")>>

Frame(v, location, type, topmost) ==
  [vertex |-> v, location |-> location, type |-> type, topmost |-> topmost,
   agenda |-> Agenda(query, v), children |-> Children(query, v)]

(***************************************************************************)
(* The context and the metadata table                                      *)
(***************************************************************************)
InitialContext ==
  [fold |-> NoLocation, innermost |-> FALSE, count |-> FALSE,
   optional |-> NoLocation, output_source |-> NoLocation]

InFoldScope == context.fold # NoLocation
InOptionalScope == context.optional # NoLocation
HasOutputSource == context.output_source # NoLocation

\* f with one more entry.
With(f, key, value) == [k \in DOMAIN f \cup {key} |->
                          IF k = key THEN value ELSE f[k]]

LocationInfo(parent, type, optional, recursive, fold) ==
  [parent |-> parent, type |-> type, coerced_from |-> "",
   optional_depth |-> optional, recursive_depth |-> recursive, in_fold |-> fold]

RegisterLocation(table, location, info) ==
  [table EXCEPT !.locations = With(@, location, info)]

\* revisit_location: the revisit takes over the latest metadata of the location.
RevisitLocation(table, location) ==
  RegisterLocation(table, Revisit(location), table.locations[location])

ChildLocations(table, location) ==
  {l \in DOMAIN table.locations : table.locations[l].parent = location}

RecordCoercion(table, location, type) ==
  [table EXCEPT !.locations[location].type = type,
                !.locations[location].coerced_from = table.locations[location].type]

RecordTag(table, name, location, field, type, optional) ==
  [table EXCEPT !.tags = With(@, name,
     [location |-> location, field |-> field, type |-> type, optional |-> optional])]

RecordOutput(table, name, location, field, type, optional) ==
  [table EXCEPT !.outputs = With(@, name,
     [location |-> location, field |-> field, type |-> type, optional |-> optional])]

\* A FilterInfo: its fields, and the tags among its arguments.
RecordFilter(table, location, field, filter) ==
  [table EXCEPT !.filters = @ \cup
     {[location |-> location,
       fields |-> IF filter.op = "name_or_alias" THEN {"name", "alias"} ELSE {field},
       tags |-> {filter.args[i].name : i \in {j \in DOMAIN filter.args :
                                                filter.args[j].kind = "%"}}]}]

Emit(blocks) == basic_blocks' = basic_blocks \o blocks

(***************************************************************************)
(* The work at one vertex                                                  *)
(***************************************************************************)
Top == stack[Len(stack)]
ThisTask == Head(Top.agenda)

Pending(kind) ==
  /\ outcome = "compiling"
  /\ Top.agenda # <<>>
  /\ ThisTask.kind = kind

TaskDone == [stack EXCEPT ![Len(stack)].agenda = Tail(@)]

FilterTarget(task, type) ==
  CASE task.on = "property" ->
         [vertex |-> FALSE, type |-> PropertyType(type, task.field), fields |-> <<>>]
    [] task.on = "edge" ->
         [vertex |-> TRUE, type |-> Scalar(VertexFieldTypes[type][task.field]),
          fields |-> <<>>]
    [] OTHER ->
         [vertex |-> TRUE, type |-> Scalar(type), fields |-> PropertyTypes[type]]

FilterTaskIsLegal ==
  FilterIsLegal(ThisTask.filter, FilterTarget(ThisTask, Top.type),
                ThisTask.on = "fragment", inputs, metadata.tags)

\* A filter on the size of a fold leaves its place: it refers to the fold from
\* the global scope and so do the tags it compares with.
Globalized(block, location) ==
  [block EXCEPT !.at = location,
     !.args = [i \in DOMAIN @ |-> IF @[i].kind = "ContextField"
                 THEN [@[i] EXCEPT !.kind = "GlobalContextField"] ELSE @[i]]]

\* Step 1 of _compile_ast_node_to_ir.
ProcessFilter ==
  /\ Pending("filter") /\ FilterTaskIsLegal
  /\ LET filter == ThisTask.filter
         block == FilterBlock(filter, ThisTask.field, Top.location, metadata.tags)
     IN  /\ IF IsFoldScopeLocation(Top.location) /\ ThisTask.field = COUNT
            THEN /\ global_filters' =
                      Append(global_filters, Globalized(block, Top.location))
                 /\ context' = [context EXCEPT !.innermost = TRUE, !.count = TRUE]
                 /\ UNCHANGED basic_blocks
            ELSE /\ Emit(<<block>>)
                 /\ UNCHANGED <<global_filters, context>>
         /\ inputs' = InferredInputs(filter, FilterTarget(ThisTask, Top.type), inputs)
         /\ metadata' = RecordFilter(metadata, Top.location, ThisTask.field, filter)
  /\ stack' = TaskDone
  /\ UNCHANGED <<query, outcome>>

\* _compile_fragment_ast; record_coercion_at_location asserts that there was
\* no coercion at the location before.
CoerceToFragment ==
  /\ Pending("coerce")
  /\ LET type == ThisTask.name
         needed == CoercionIsNeeded(Top.type, type)
         coerced == metadata.locations[Top.location].coerced_from # ""
     IN  IF needed /\ coerced
         THEN /\ outcome' = "AssertionError"
              /\ UNCHANGED <<stack, basic_blocks, metadata>>
         ELSE /\ stack' = [TaskDone EXCEPT ![Len(stack)].type = type]
              /\ Emit(IF needed THEN <<CoerceType(type)>> ELSE <<>>)
              /\ metadata' = IF needed
                             THEN RecordCoercion(metadata, Top.location, type)
                             ELSE metadata
              /\ UNCHANGED outcome
  /\ UNCHANGED <<query, global_filters, context, inputs>>

PropertyOf(q, v, field) ==
  LET properties == q[v].properties IN
  properties[CHOOSE i \in DOMAIN properties : properties[i].name = field]

TagIsLegal ==
  /\ PropertyOf(query, Top.vertex, ThisTask.field).filters = <<>>
  /\ ~InFoldScope
  /\ ThisTask.field # COUNT
  /\ ThisTask.name \notin DOMAIN metadata.tags

\* Step V-2 and _process_tag_directive.
ProcessTag ==
  /\ Pending("tag") /\ TagIsLegal
  /\ metadata' = RecordTag(metadata, ThisTask.name, Top.location, ThisTask.field,
                           PropertyType(Top.type, ThisTask.field), InOptionalScope)
  /\ stack' = TaskDone
  /\ UNCHANGED <<query, basic_blocks, global_filters, context, inputs, outcome>>

PropertyIsLegal ==
  /\ ~PropertyOf(query, Top.vertex, ThisTask.field).vertex_only
  /\ ThisTask.field = COUNT => InFoldScope
  /\ ThisTask.name \notin DOMAIN metadata.outputs

\* Step V-3 and _compile_property_ast.  An output inside a fold closes the
\* fold to further traversals, and is a list unless it is the fold's size.
ProcessProperty ==
  /\ Pending("property") /\ PropertyIsLegal
  /\ LET type == PropertyType(Top.type, ThisTask.field)
         outType == IF InFoldScope /\ ThisTask.field # COUNT THEN ListOf(type) ELSE type
     IN  IF ThisTask.name = ""
         THEN UNCHANGED <<context, metadata>>
         ELSE /\ context' = [context EXCEPT !.innermost = @ \/ InFoldScope]
              /\ metadata' = RecordOutput(metadata, ThisTask.name, Top.location,
                               ThisTask.field, outType, InOptionalScope)
  /\ stack' = TaskDone
  /\ UNCHANGED <<query, basic_blocks, global_filters, inputs, outcome>>

\* The directives that reach _compile_vertex_ast: those of the innermost
\* selection, which is a fragment's, and empty, when there is a fragment.
LocalDirectives(q, v) == IF q[v].fragments = <<>> THEN q[v].directives ELSE {}

MarkIsLegal ==
  LET directives == LocalDirectives(query, Top.vertex) IN
  /\ directives \cap {"tag", "output"} = {}
  /\ "output_source" \in directives => ~HasOutputSource /\ ~InOptionalScope

\* Step V-4 and _process_output_source_directive.
MarkVertex ==
  /\ Pending("mark") /\ MarkIsLegal
  /\ IF "output_source" \in LocalDirectives(query, Top.vertex)
     THEN /\ Emit(<<MarkLocation(Top.location), Block("OutputSource")>>)
          /\ context' = [context EXCEPT !.output_source = Top.location]
     ELSE /\ Emit(<<MarkLocation(Top.location)>>)
          /\ UNCHANGED context
  /\ stack' = TaskDone
  /\ UNCHANGED <<query, global_filters, metadata, inputs, outcome>>

(***************************************************************************)
(* Vertex fields (step V-5)                                                *)
(***************************************************************************)
AtVertexFields == outcome = "compiling" /\ Top.agenda = <<>>

ReadyToVisit == AtVertexFields /\ Top.children # <<>>

\* validate_vertex_field_directive_interactions
InteractionsAreLegal(directives) ==
  /\ "fold" \in directives =>
       directives \cap {"optional", "output_source", "recurse"} = {}
  /\ "optional" \in directives => directives \cap {"output_source", "recurse"} = {}

\* validate_vertex_field_directive_in_context
DirectivesFitContext(directives) ==
  /\ InFoldScope =>
       directives \cap {"fold", "optional", "output_source", "recurse"} = {}
  /\ HasOutputSource => "fold" \in directives
  /\ InOptionalScope => directives \cap {"fold", "output_source"} = {}

VisitIsLegal ==
  LET child == Head(Top.children)
      directives == query[child].directives
      edge == query[child].edge
  IN  /\ ~context.innermost   \* validate_context_for_visiting_vertex_field
      /\ InteractionsAreLegal(directives)
      /\ DirectivesFitContext(directives)
      /\ "recurse" \in directives =>
           /\ RecurseTypesAreLegal(Top.type, VertexFieldType(Top.type, edge))
           /\ query[child].depth >= 1
      /\ SelectionIsLegal(query, child)

\* A slip: a location is never marked again before an optional.
IsTraversedNever(location) == FALSE

\* An optional needs a mark of its own when an edge was traversed since the last.
IsTraversedAlready(location) ==
  \E l \in ChildLocations(metadata, location) : ~IsFoldScopeLocation(l)

VisitVertexField ==
  /\ ReadyToVisit /\ VisitIsLegal
  /\ LET child == Head(Top.children)
         edge == query[child].edge
         type == VertexFieldType(Top.type, edge)
         optional == "optional" \in query[child].directives
         fold == "fold" \in query[child].directives
         recurse == "recurse" \in query[child].directives
         info == metadata.locations[Top.location]
         revisit == optional /\ IsTraversedAlready(Top.location)
         here == IF revisit THEN Revisit(Top.location) ELSE Top.location
         table == IF revisit THEN RevisitLocation(metadata, Top.location)
                             ELSE metadata
         inner == IF fold THEN NavigateToFold(here, edge)
                          ELSE NavigateToSubpath(here, edge)
         topmost == optional /\ ~InOptionalScope
     IN  /\ metadata' = RegisterLocation(table, inner,
              LocationInfo(here, type,
                info.optional_depth + (IF optional THEN 1 ELSE 0),
                info.recursive_depth + (IF recurse THEN 1 ELSE 0),
                info.in_fold \/ fold))
         /\ context' = [context EXCEPT !.optional = IF topmost THEN inner ELSE @,
                                       !.fold = IF fold THEN inner ELSE @]
         /\ Emit((IF revisit THEN <<MarkLocation(here)>> ELSE <<>>) \o
                 <<IF fold THEN Fold(inner)
                   ELSE IF recurse
                        THEN Recurse(edge, query[child].depth, InOptionalScope)
                        ELSE Traverse(edge, optional, InOptionalScope)>>)
         /\ stack' = Append([stack EXCEPT
                               ![Len(stack)].children = Tail(@),
                               ![Len(stack)].location = here],
                            Frame(child, inner, type, topmost))
  /\ UNCHANGED <<query, global_filters, inputs, outcome>>

\* _validate_fold_has_outputs_or_count_filter
FoldHasEffect ==
  \/ context.count
  \/ \E name \in DOMAIN metadata.outputs :
       InSameFold(metadata.outputs[name].location, context.fold)

ReadyToLeave == AtVertexFields /\ Top.children = <<>> /\ Len(stack) > 1

LeavingFold == "fold" \in query[Top.vertex].directives

LeaveIsLegal == LeavingFold => FoldHasEffect

\* A slip: the mark of a fold's innermost scope survives the fold.
LeaveWithInnermostMark ==
  [context EXCEPT !.fold = IF LeavingFold THEN NoLocation ELSE @,
                  !.count = @ /\ ~LeavingFold,
                  !.optional = IF Top.topmost THEN NoLocation ELSE @]

ContextOnLeaving ==
  [context EXCEPT !.fold = IF LeavingFold THEN NoLocation ELSE @,
                  !.count = @ /\ ~LeavingFold,
                  !.innermost = @ /\ ~LeavingFold,
                  !.optional = IF Top.topmost THEN NoLocation ELSE @]

\* What follows the blocks of a vertex field: a fold is closed, an optional is
\* ended and its parent marked anew, anything else backtracks to the parent.
\* After an output source there is no way back.
LeaveVertexField ==
  /\ ReadyToLeave /\ LeaveIsLegal
  /\ LET parent == stack[Len(stack) - 1]
         optional == "optional" \in query[Top.vertex].directives
         revisited == Revisit(parent.location)
         back == ~LeavingFold /\ ~HasOutputSource
     IN  /\ Emit(IF LeavingFold THEN <<Block("Unfold")>>
                 ELSE IF ~back THEN <<>>
                 ELSE IF optional
                      THEN <<Block("EndOptional"), Backtrack(parent.location, TRUE),
                             MarkLocation(revisited)>>
                      ELSE <<Backtrack(parent.location, FALSE)>>)
         /\ stack' = [SubSeq(stack, 1, Len(stack) - 1) EXCEPT
                        ![Len(stack) - 1].location =
                           IF back /\ optional THEN revisited ELSE @]
         /\ metadata' = IF back /\ optional
                        THEN RevisitLocation(metadata, parent.location)
                        ELSE metadata
  /\ context' = ContextOnLeaving
  /\ UNCHANGED <<query, global_filters, inputs, outcome>>

(***************************************************************************)
(* The root                                                                *)
(***************************************************************************)
RootIsLegal ==
  /\ query[1].fragments = <<>>
  /\ query[1].directives \cap {"optional", "recurse", "fold"} = {}
  /\ \A i \in DOMAIN query[1].filters : ~IsOuterScope(query[1].filters[i])
  /\ SelectionIsLegal(query, 1)

\* The first half of _compile_root_ast_to_ir.
CompileRoot ==
  /\ outcome = "parsed" /\ RootIsLegal
  /\ LET type == query[1].edge
         root == Location(<<type>>, 1)
     IN  /\ metadata' = RegisterLocation(metadata, root,
                          LocationInfo(NoLocation, type, 0, 0, FALSE))
         /\ Emit(<<QueryRoot(type)>>)
         /\ stack' = <<Frame(1, root, type, FALSE)>>
  /\ outcome' = "compiling"
  /\ UNCHANGED <<query, global_filters, context, inputs>>

ReadyToFinish == AtVertexFields /\ Top.children = <<>> /\ Len(stack) = 1

\* _validate_all_tags_are_used, and the check of _compile_output_step.
ResultIsLegal ==
  /\ DOMAIN metadata.tags \subseteq UNION {f.tags : f \in metadata.filters}
  /\ DOMAIN metadata.outputs # {}

\* _compile_output_step: an output from an optional scope is null when its
\* vertex is not there.
OutputFields ==
  [name \in DOMAIN metadata.outputs |->
     LET output == metadata.outputs[name] IN
     [at |-> output.location, field |-> output.field,
      unlessMissing |-> IF output.optional THEN output.location ELSE NoLocation]]

\* The second half of _compile_root_ast_to_ir.
FinishCompilation ==
  /\ ReadyToFinish /\ ResultIsLegal
  /\ Emit(<<Block("GlobalOperationsStart")>> \o global_filters \o
          <<ConstructResult(OutputFields)>>)
  /\ stack' = <<>>
  /\ outcome' = "compiled"
  /\ UNCHANGED <<query, global_filters, context, metadata, inputs>>

\* Every check that fails raises a GraphQLError, and that ends the compilation.
RejectQuery ==
  /\ \/ outcome = "parsed" /\ ~RootIsLegal
     \/ Pending("filter") /\ ~FilterTaskIsLegal
     \/ Pending("tag") /\ ~TagIsLegal
     \/ Pending("property") /\ ~PropertyIsLegal
     \/ Pending("mark") /\ ~MarkIsLegal
     \/ ReadyToVisit /\ ~VisitIsLegal
     \/ ReadyToLeave /\ ~LeaveIsLegal
     \/ ReadyToFinish /\ ~ResultIsLegal
  /\ outcome' = "GraphQLError"
  /\ UNCHANGED <<query, stack, basic_blocks, global_filters, context, metadata,
                 inputs>>

----------------------------------------------------------------------------

FrontendInit ==
  /\ query \in Queries
  /\ stack = <<>> /\ basic_blocks = <<>> /\ global_filters = <<>>
  /\ context = InitialContext
  /\ metadata = [locations |-> <<>>, tags |-> <<>>, outputs |-> <<>>, filters |-> {}]
  /\ inputs = <<>>
  /\ outcome = "parsed"

FrontendNext ==
  \/ CompileRoot \/ ProcessFilter \/ CoerceToFragment \/ ProcessTag
  \/ ProcessProperty \/ MarkVertex \/ VisitVertexField \/ LeaveVertexField
  \/ FinishCompilation \/ RejectQuery
=============================================================================
