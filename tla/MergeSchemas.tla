---------------------------- MODULE MergeSchemas -----------------------------
(* merge_schemas (graphql_compiler/schema_transformation): schemas are merged *)
(* definition by definition into one, and edges between their types are added *)
(* to it as vertex fields with a @stitch directive.                           *)
(*                                                                            *)
(* A field of a type has, besides its name and type, list (its type is a      *)
(* list) and stitch: the arguments <<source_field, sink_field>> of a @stitch  *)
(* directive, or NULL.  A directive definition is a definition of kind        *)
(* "directive" that is, for its refs, what the directive says; those of the   *)
(* merged schema are kept in directives alone.                                *)
EXTENDS SchemaDefinitions

CONSTANTS
    Federations,        \* what may be merged
    MergedQueryType     \* "RootSchemaQuery"

VARIABLES
    federation,         \* the arguments of merge_schemas
    schema_index, definition_index,   \* what has been read of the schemas
    new_query_type_fields,            \* of the schema that is read
    definitions,        \* the types and scalars of merged_schema_ast but for the query type
    query_type_fields,  \* the fields of the merged query type
    type_name_to_schema_id, scalars, directives,
    edge_index,         \* how many cross-schema edges have been added
    merge_outcome       \* "accumulating", "adding edges", "merged", or what was raised

merge_vars ==
    <<federation, schema_index, definition_index, new_query_type_fields, definitions,
      query_type_fields, type_name_to_schema_id, scalars, directives, edge_index, merge_outcome>>

(* What GraphQL asks of a schema: it defines each type and each directive     *)
(* once, and only a scalar is called like a builtin one.                      *)
DefinesOnce(defs) ==
    \A i, j \in DOMAIN defs : i # j =>
        \/ defs[i].name # defs[j].name
        \/ (defs[i].kind = "directive") # (defs[j].kind = "directive")

(* The types among the definitions, at the places where they are.             *)
Types(defs) == [k \in {l \in DOMAIN defs : defs[l].kind # "directive"} |-> defs[k]]

(* A definition as the parser makes it.  "Interface types [...] cannot be     *)
(* implemented by other interface types"; no cross-schema edge is there yet.  *)
IsNode(d) ==
    /\ d = [kind |-> d.kind, name |-> d.name, fields |-> d.fields, refs |-> d.refs]
    /\ d.kind \in {"object", "interface", "union", "enum", "scalar", "directive"}
    /\ d.kind \notin {"object", "interface"} => d.fields = {}
    /\ d.kind \notin {"object", "union", "directive"} => d.refs = {}
    /\ \A f \in d.fields : f.stitch = NULL

(* A schema that check_ast_schema_is_valid lets through, whose root fields    *)
(* lead to vertices.                                                          *)
IsMergeable(s) ==
    LET defs == s.definitions
    IN  /\ Len(defs) \in Nat /\ DOMAIN defs = 1..Len(defs)
        /\ DefinesOnce(defs)
        /\ \A k \in DOMAIN defs :
              /\ IsNode(defs[k])
              /\ defs[k].name \in BuiltinScalars => defs[k].kind \in {"scalar", "directive"}
              /\ defs[k].kind \in {"object", "union"} => defs[k].refs \cap BuiltinScalars = {}
        /\ IsValidSchema(Types(defs), s.query_type)
        /\ \A d \in DefinitionsNamed(Types(defs), s.query_type) : \A f \in d.fields :
              \E k \in DOMAIN defs :
                 /\ defs[k].name = f.type /\ defs[k].name # s.query_type
                 /\ defs[k].kind \in {"object", "interface", "union"}

(* A type and the union that it is "the most-derived common supertype of".    *)
IsEquivalent(s, t, u) ==
    \E k, l \in DOMAIN s.definitions : LET type == s.definitions[k]
                                          union == s.definitions[l] IN
        /\ type.name = t /\ type.kind \in {"object", "interface"} /\ t # s.query_type
        /\ union.name = u /\ union.kind = "union"
        /\ \A d \in ToSet(s.definitions) :
              d.kind = "object" /\ d.name \in union.refs => type.fields \subseteq d.fields

ASSUME FederationsAssumption ==
    /\ MergedQueryType \in ValidNames \ BuiltinScalars
    /\ NULL \notin ValidNames \cup BuiltinScalars
    /\ \A f \in Federations :
          /\ Len(f.schemas) \in Nat /\ DOMAIN f.schemas = 1..Len(f.schemas)
          /\ \A i \in DOMAIN f.schemas : IsMergeable(f.schemas[i])
          /\ Len(f.edges) \in Nat /\ DOMAIN f.edges = 1..Len(f.edges)
          /\ \A k \in DOMAIN f.edges : LET e == f.edges[k] IN
                NULL \notin {<<e.outbound.field, e.inbound.field>>, <<e.inbound.field, e.outbound.field>>}
          /\ \A t \in DOMAIN f.hints :
                \E i \in DOMAIN f.schemas : IsEquivalent(f.schemas[i], t, f.hints[t])

-----------------------------------------------------------------------------
QueryTypeOf(fields) == [kind |-> "object", name |-> MergedQueryType, fields |-> fields, refs |-> {}]

(* The types of the merged AST, the query type in front of them.              *)
MergedTypes ==
    [i \in 0..Len(definitions) |-> IF i = 0 THEN QueryTypeOf(query_type_fields) ELSE definitions[i]]

(* build_ast_schema on the merged AST: its types build, and @stitch is        *)
(* defined where it is used.                                                  *)
BuildsWithDirectives ==
    /\ Builds(MergedTypes)
    /\ (\E i \in DOMAIN definitions : \E f \in definitions[i].fields : f.stitch # NULL) =>
          "stitch" \in DOMAIN directives

CurrentSchema == federation.schemas[schema_index]
CurrentDefinition == CurrentSchema.definitions[definition_index]

Reading ==
    /\ merge_outcome = "accumulating" /\ Len(federation.schemas) > 1
    /\ schema_index <= Len(federation.schemas)
    /\ definition_index <= Len(CurrentSchema.definitions)

RaiseInMerge(error) ==
    /\ merge_outcome' = error
    /\ UNCHANGED <<federation, schema_index, definition_index, new_query_type_fields, definitions,
                   query_type_fields, type_name_to_schema_id, scalars, directives, edge_index>>

(* "Expected at least two schemas to merge."                                  *)
RejectSingleSchema ==
    /\ merge_outcome = "accumulating" /\ Len(federation.schemas) <= 1
    /\ RaiseInMerge("ValueError")

-----------------------------------------------------------------------------
(* _accumulate_types                                                          *)

TakeQueryType ==
    /\ Reading
    /\ CurrentDefinition.kind = "object" /\ CurrentDefinition.name = CurrentSchema.query_type
    /\ new_query_type_fields' = CurrentDefinition.fields
    /\ definition_index' = definition_index + 1
    /\ UNCHANGED <<federation, schema_index, definitions, query_type_fields,
                   type_name_to_schema_id, scalars, directives, edge_index, merge_outcome>>

AppendCurrent ==
    /\ definitions' = Append(definitions, CurrentDefinition)
    /\ definition_index' = definition_index + 1
    /\ UNCHANGED <<federation, schema_index, new_query_type_fields, query_type_fields,
                   directives, edge_index, merge_outcome>>

Skip ==
    /\ definition_index' = definition_index + 1
    /\ UNCHANGED <<federation, schema_index, new_query_type_fields, definitions,
                   query_type_fields, type_name_to_schema_id, scalars, directives, edge_index,
                   merge_outcome>>

(* _process_directive_definition                                              *)
MergeDirective ==
    /\ Reading /\ CurrentDefinition.kind = "directive"
    /\ LET d == CurrentDefinition
       IN  \/ /\ d.name \notin DOMAIN directives
              /\ directives' = With(directives, d.name, d.refs)
              /\ definition_index' = definition_index + 1
              /\ UNCHANGED <<federation, schema_index, new_query_type_fields, definitions,
                             query_type_fields, type_name_to_schema_id, scalars, edge_index,
                             merge_outcome>>
           \/ /\ d.name \in DOMAIN directives /\ directives[d.name] = d.refs
              /\ Skip
           \/ /\ d.name \in DOMAIN directives /\ directives[d.name] # d.refs
              /\ RaiseInMerge("SchemaMergeNameConflictError")

(* A slip: a scalar is not compared with the types there are.                 *)
ScalarWithoutTypes(n) == FALSE

ScalarClashes(n) == n \in DOMAIN type_name_to_schema_id

(* _process_scalar_definition: a scalar may be defined by several schemas.    *)
MergeScalar ==
    /\ Reading /\ CurrentDefinition.kind = "scalar"
    /\ LET n == CurrentDefinition.name
       IN  \/ /\ n \in scalars
              /\ Skip
           \/ /\ n \notin scalars /\ ScalarClashes(n)
              /\ RaiseInMerge("SchemaMergeNameConflictError")
           \/ /\ n \notin scalars /\ ~ScalarClashes(n)
              /\ scalars' = scalars \cup {n}
              /\ AppendCurrent
              /\ UNCHANGED type_name_to_schema_id

TypeClashes(n) == n \in scalars \cup DOMAIN type_name_to_schema_id

(* _process_generic_type_definition                                           *)
MergeType ==
    /\ Reading /\ CurrentDefinition.kind \in {"object", "interface", "union", "enum"}
    /\ CurrentDefinition.name # CurrentSchema.query_type
    /\ LET n == CurrentDefinition.name
       IN  \/ /\ TypeClashes(n)
              /\ RaiseInMerge("SchemaMergeNameConflictError")
           \/ /\ ~TypeClashes(n)
              /\ type_name_to_schema_id' = With(type_name_to_schema_id, n, CurrentSchema.id)
              /\ AppendCurrent
              /\ UNCHANGED scalars

FinishSchema ==
    /\ merge_outcome = "accumulating" /\ Len(federation.schemas) > 1
    /\ schema_index <= Len(federation.schemas)
    /\ definition_index > Len(CurrentSchema.definitions)
    /\ query_type_fields' = query_type_fields \cup new_query_type_fields
    /\ schema_index' = schema_index + 1 /\ definition_index' = 1
    /\ UNCHANGED <<federation, new_query_type_fields, definitions, type_name_to_schema_id,
                   scalars, directives, edge_index, merge_outcome>>

(* The merged AST is built before edges are added to it.                      *)
StartEdges ==
    /\ merge_outcome = "accumulating" /\ Len(federation.schemas) > 1
    /\ schema_index > Len(federation.schemas)
    /\ merge_outcome' = IF BuildsWithDirectives
                        THEN "adding edges" ELSE "TypeError"
    /\ UNCHANGED <<federation, schema_index, definition_index, new_query_type_fields, definitions,
                   query_type_fields, type_name_to_schema_id, scalars, directives, edge_index>>

-----------------------------------------------------------------------------
(* _add_cross_schema_edges.  A reference is a schema, a type and a field; an  *)
(* edge is a name, two references and out_edge_only; type_equivalence_hints   *)
(* give a type the union that is equivalent to it.                            *)

FieldsNamed(t, f) ==
    UNION {{x \in d.fields : x.name = f} : d \in DefinitionsNamed(definitions, t)}

(* compute_subclass_sets                                                      *)
SubclassSet(t) ==
    {t} \cup {d.name : d \in {x \in ToSet(definitions) : x.kind = "object" /\ t \in x.refs}}
        \cup UNION {d.refs : d \in {x \in ToSet(definitions) :
                                       x.name = Lookup(federation.hints, t, NULL)}}

(* _check_field_reference_is_valid                                            *)
IsValidReference(r) ==
    /\ r.type \in {d.name : d \in {x \in ToSet(definitions) : x.kind \in {"object", "interface"}}}
    /\ type_name_to_schema_id[r.type] = r.schema
    /\ FieldsNamed(r.type, r.field) # {}

(* _scalars_match                                                             *)
ScalarsMatch(s, t) == s = t \/ {s, t} \in {{"String", "ID"}, {"Int", "ID"}}

(* _check_field_types_are_matching_scalars                                    *)
StitchesMatchingScalars(edge) ==
    \A f \in FieldsNamed(edge.outbound.type, edge.outbound.field) :
        \A g \in FieldsNamed(edge.inbound.type, edge.inbound.field) :
            /\ ~f.list /\ ~g.list
            /\ {f.type, g.type} \subseteq scalars
            /\ ScalarsMatch(f.type, g.type)

IsValidEdge(edge) ==
    /\ IsValidReference(edge.outbound) /\ IsValidReference(edge.inbound)
    /\ edge.outbound.schema # edge.inbound.schema
    /\ StitchesMatchingScalars(edge)

(* _add_edge_field on every class below `source`.                             *)
EdgeTo(name, source, sink) ==
    [name |-> name, type |-> Lookup(federation.hints, sink.type, sink.type),
     list |-> TRUE, stitch |-> <<source.field, sink.field>>]

(* A slip: subclasses do not get the edge.                                    *)
AddedToOneClass(defs, name, source, sink) ==
    [i \in DOMAIN defs |->
        IF defs[i].name = source.type
        THEN [defs[i] EXCEPT !.fields = @ \cup {EdgeTo(name, source, sink)}] ELSE defs[i]]

(* A slip: the fields to stitch are swapped.                                  *)
AddedWithFieldsSwapped(defs, name, source, sink) ==
    [i \in DOMAIN defs |->
        IF defs[i].name \in SubclassSet(source.type)
        THEN [defs[i] EXCEPT !.fields =
                 @ \cup {[EdgeTo(name, source, sink) EXCEPT !.stitch = <<sink.field, source.field>>]}]
        ELSE defs[i]]

AddedEdgeFields(defs, name, source, sink) ==
    [i \in DOMAIN defs |->
        IF defs[i].name \in SubclassSet(source.type)
        THEN [defs[i] EXCEPT !.fields = @ \cup {EdgeTo(name, source, sink)}] ELSE defs[i]]

Clashes(defs, name, source) ==
    \E i \in DOMAIN defs : defs[i].name \in SubclassSet(source.type) /\ name \in FieldNames(defs[i])

AddCrossSchemaEdge ==
    /\ merge_outcome = "adding edges" /\ edge_index < Len(federation.edges)
    /\ LET edge == federation.edges[edge_index + 1]
           out_name == "out_" \o edge.name
           in_name == "in_" \o edge.name
           outward == AddedEdgeFields(definitions, out_name, edge.outbound, edge.inbound)
       IN  \/ /\ ~IsValidEdge(edge)
              /\ RaiseInMerge("InvalidCrossSchemaEdgeError")
           \/ /\ IsValidEdge(edge)
              /\ \/ Clashes(definitions, out_name, edge.outbound)
                 \/ ~edge.out_edge_only /\ Clashes(outward, in_name, edge.inbound)
              /\ RaiseInMerge("SchemaMergeNameConflictError")
           \/ /\ IsValidEdge(edge)
              /\ ~Clashes(definitions, out_name, edge.outbound)
              /\ edge.out_edge_only \/ ~Clashes(outward, in_name, edge.inbound)
              /\ definitions' = IF edge.out_edge_only THEN outward
                                ELSE AddedEdgeFields(outward, in_name, edge.inbound, edge.outbound)
              /\ edge_index' = edge_index + 1
              /\ UNCHANGED <<federation, schema_index, definition_index, new_query_type_fields,
                             query_type_fields, type_name_to_schema_id, scalars, directives,
                             merge_outcome>>

BuildMergedSchema ==
    /\ merge_outcome = "adding edges" /\ edge_index = Len(federation.edges)
    /\ RaiseInMerge(IF BuildsWithDirectives
                    THEN "merged" ELSE "TypeError")

MergeInit ==
    /\ federation \in Federations
    /\ schema_index = 1 /\ definition_index = 1
    /\ new_query_type_fields = {} /\ query_type_fields = {}
    /\ definitions = <<>>
    /\ type_name_to_schema_id = << >> /\ scalars = BuiltinScalars /\ directives = << >>
    /\ edge_index = 0
    /\ merge_outcome = "accumulating"

MergeNext ==
    \/ RejectSingleSchema
    \/ TakeQueryType \/ MergeDirective \/ MergeScalar \/ MergeType \/ FinishSchema
    \/ StartEdges \/ AddCrossSchemaEdge \/ BuildMergedSchema

MergeSpec == MergeInit /\ [][MergeNext]_merge_vars

-----------------------------------------------------------------------------
(* Properties *)

OwnTypes(i) ==
    LET s == federation.schemas[i]
    IN  {d.name : d \in {x \in ToSet(s.definitions) :
                            x.kind \notin {"scalar", "directive"} /\ x.name # s.query_type}}
OfKind(i, kind) == {x \in ToSet(federation.schemas[i].definitions) : x.kind = kind}

(* Schemas may be merged, whatever their order: types are no one else's,      *)
(* types or scalars, and directives that have the same name say the same.     *)
Compatible ==
    \A i, j \in DOMAIN federation.schemas : i # j =>
        /\ OwnTypes(i) \cap OwnTypes(j) = {}
        /\ OwnTypes(i) \cap {x.name : x \in OfKind(j, "scalar")} = {}
        /\ \A x \in OfKind(i, "directive") : \A y \in OfKind(j, "directive") :
              x.name = y.name => x.refs = y.refs

Accumulated == schema_index > Len(federation.schemas)

(* Conflicts are looked for in what was merged before; yet they are found if  *)
(* and only if there are any, whichever schema comes first.                   *)
ConflictsDoNotDependOnOrder ==
    /\ Accumulated => Compatible
    /\ merge_outcome = "SchemaMergeNameConflictError" /\ ~Accumulated => ~Compatible

(* A type of a schema refers to the query type, which is replaced.            *)
QueryTypeIsReferredTo ==
    \E i \in DOMAIN federation.schemas : LET s == federation.schemas[i] IN
        \E d \in ToSet(s.definitions) : d.kind # "directive" /\ s.query_type \in References(d)

(* What no check of merge_schemas is about: a type or scalar that has the     *)
(* name of the merged query type, or edges while no schema defines @stitch.   *)
UnforeseenInMerge ==
    \/ \E i \in DOMAIN federation.schemas :
          MergedQueryType \in OwnTypes(i) \cup {x.name : x \in OfKind(i, "scalar")}
    \/ \A i \in DOMAIN federation.schemas :
          "stitch" \notin {x.name : x \in OfKind(i, "directive")}

(* The merged schema, cross-schema edges included, is a schema that could be  *)
(* renamed or merged again; and but for the cases above merge_schemas checks  *)
(* all that could keep it from being built.                                   *)
MergedSchemaIsValid ==
    /\ ~QueryTypeIsReferredTo
    /\ merge_outcome = "merged" \/ (merge_outcome = "TypeError" /\ ~UnforeseenInMerge)
    => IsValidSchema(MergedTypes, MergedQueryType)

(* The classes a vertex field may lead to.                                    *)
ClassesOf(t) ==
    UNION {IF d.kind = "union" THEN d.refs ELSE SubclassSet(t) : d \in DefinitionsNamed(definitions, t)}

(* Every class below an end of an edge has the edge, in the directions it is  *)
(* to be walked and in no other; the fields it stitches are there on both     *)
(* sides, whatever class is found on the other, and hold single values of     *)
(* matching scalars.                                                          *)
EdgesCanBeWalked ==
    merge_outcome = "merged" /\ ~QueryTypeIsReferredTo =>
        /\ \A i \in DOMAIN federation.edges : LET e == federation.edges[i] IN
              /\ \A t \in SubclassSet(e.outbound.type) : FieldsNamed(t, "out_" \o e.name) # {}
              /\ e.out_edge_only
                 \/ \A t \in SubclassSet(e.inbound.type) : FieldsNamed(t, "in_" \o e.name) # {}
        /\ \A d \in ToSet(definitions) : \A f \in d.fields : f.stitch # NULL =>
              /\ \E i \in DOMAIN federation.edges : LET e == federation.edges[i] IN
                    \/ d.name \in SubclassSet(e.outbound.type) /\ f.name = "out_" \o e.name
                    \/ /\ ~e.out_edge_only
                       /\ d.name \in SubclassSet(e.inbound.type) /\ f.name = "in_" \o e.name
              /\ \A t \in ClassesOf(f.type) :
                    /\ type_name_to_schema_id[d.name] # type_name_to_schema_id[t]
                    /\ \E x \in FieldsNamed(d.name, f.stitch[1]) :
                          \E y \in FieldsNamed(t, f.stitch[2]) :
                              /\ ~x.list /\ ~y.list /\ {x.type, y.type} \subseteq scalars
                              /\ ScalarsMatch(x.type, y.type)
=============================================================================
