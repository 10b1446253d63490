----------------------------- MODULE SplitQuery ------------------------------
(* split_query (graphql_compiler/schema_transformation) cuts a query over a   *)
(* merged schema at its cross-schema edges into a tree of queries over single *)
(* schemas, and make_query_plan (graphql_compiler/query_planning) adds to     *)
(* each of them the filter by what its parent puts out.                       *)
(*                                                                            *)
(* A query is the sequence of its vertices in the order of the document, each *)
(* after its parent: the parent (0 at the root), the field that leads to it,  *)
(* the type it is coerced to or NULL, the directives and filters on the       *)
(* field, and its property fields: their name, out name or NULL, filters and  *)
(* whether they are @optional.  A filter is an operator and a runtime         *)
(* parameter.                                                                 *)
EXTENDS MergeSchemas

CONSTANT Queries

IsList(s) == Len(s) \in Nat /\ s = [k \in 1..Len(s) |-> s[k]]
IsProperty(p) ==
    /\ p = [field |-> p.field, out |-> p.out, filters |-> p.filters, optional |-> p.optional]
    /\ IsList(p.filters) /\ p.optional \in BOOLEAN
IsVertex(v) ==
    /\ v = [parent |-> v.parent, edge |-> v.edge, coerced_to |-> v.coerced_to,
            directives |-> v.directives, filters |-> v.filters, properties |-> v.properties]
    /\ IsList(v.filters) /\ IsList(v.properties)
    /\ \A k \in DOMAIN v.properties : IsProperty(v.properties[k])
IsTree(vs) ==
    /\ IsList(vs) /\ vs # <<>>
    /\ \A i \in DOMAIN vs :
          /\ IsVertex(vs[i])
          /\ vs[i].parent \in 0..(i - 1)
          /\ vs[i].parent = 0 => i = 1

ASSUME QueriesAssumption == \A q \in Queries : IsTree(q)

VARIABLES
    query,          \* the query as it was posed
    vertices,       \* its vertices by now; those at which it was cut have parent 0
    nodes,          \* SubQueryNodes, in the order they are made
    query_nodes_to_split,
    selections,     \* vertices of the node being split, their selections to be split
    intermediate_output_count,
    output_join_descriptors,
    split_outcome   \* "asked", "splitting", "split", "planned", or what was raised

split_vars ==
    <<query, vertices, nodes, query_nodes_to_split, selections, intermediate_output_count,
      output_join_descriptors, split_outcome>>
vars == <<merge_vars, split_vars>>

-----------------------------------------------------------------------------
(* Types of vertices.  A field that is not there leads to NULL.               *)

FieldType(t, f) ==
    IF FieldsNamed(t, f) = {} THEN NULL ELSE (CHOOSE x \in FieldsNamed(t, f) : TRUE).type
CoercedType(v, t) == IF v.coerced_to = NULL THEN t ELSE v.coerced_to

DeclaredTypes(vs) ==
    LET declared[i \in DOMAIN vs] ==
            IF vs[i].parent = 0 THEN vs[i].edge
            ELSE FieldType(CoercedType(vs[vs[i].parent], declared[vs[i].parent]), vs[i].edge)
    IN  declared
TypesOf(vs) ==
    LET declared == DeclaredTypes(vs)
    IN  [i \in DOMAIN vs |-> CoercedType(vs[i], declared[i])]

ChildrenOf(vs, i) == {j \in DOMAIN vs : vs[j].parent = i}

RootFields == {f.name : f \in query_type_fields}
(* What GraphQL's own validation asks of the vertices in I.                   *)
Validates(vs, I) ==
    LET t == TypesOf(vs)
        declared == DeclaredTypes(vs)
    IN  \A i \in I :
          /\ vs[i].parent = 0 => vs[i].edge \in RootFields
          /\ declared[i] \in NamesOf(definitions)
          /\ t[i] \in ClassesOf(declared[i]) \cup {declared[i]}
          /\ \A k \in DOMAIN vs[i].properties :
                FieldType(t[i], vs[i].properties[k].field) \in scalars
          /\ vs[i].properties # <<>> \/ ChildrenOf(vs, i) # {}

(* Fields of cross-schema edges: those in edge_to_stitch_fields.              *)
StitchOf(t, f) == {x.stitch : x \in FieldsNamed(t, f)} \ {NULL}
(* A slip: they are looked up in the type before it is coerced.               *)
IsCrossSchemaBeforeCoercion(vs, i) ==
    vs[i].parent # 0 /\ StitchOf(DeclaredTypes(vs)[vs[i].parent], vs[i].edge) # {}

IsCrossSchema(vs, i) ==
    vs[i].parent # 0 /\ StitchOf(TypesOf(vs)[vs[i].parent], vs[i].edge) # {}

(* The piece a vertex is in, by the vertex at its root.                       *)
Roots(vs) ==
    LET root[i \in DOMAIN vs] == IF vs[i].parent = 0 THEN i ELSE root[vs[i].parent]
    IN  root
Piece(r) == {i \in DOMAIN vertices : Roots(vertices)[i] = r}

-----------------------------------------------------------------------------
(* Property fields and their out names *)

NewProperty(f) == [field |-> f, out |-> NULL, filters |-> <<>>, optional |-> FALSE]
Has(v, f) == \E k \in DOMAIN v.properties : v.properties[k].field = f
PropertyOf(v, f) ==
    IF Has(v, f) THEN v.properties[CHOOSE k \in DOMAIN v.properties : v.properties[k].field = f]
    ELSE NewProperty(f)
WithProperty(v, p) ==
    [v EXCEPT !.properties =
        IF Has(v, p.field) THEN [k \in DOMAIN @ |-> IF @[k].field = p.field THEN p ELSE @[k]]
        ELSE Append(@, p)]

(* A slip: the directives of a property field there is already are dropped.   *)
PropertyFieldFromEdge(v, f, edge) ==
    [NewProperty(f) EXCEPT !.out = PropertyOf(v, f).out, !.filters = edge.filters,
                           !.optional = "optional" \in edge.directives]

(* _get_property_field                                                        *)
PropertyField(v, f, edge) ==
    LET p == PropertyOf(v, f)
    IN  [p EXCEPT !.filters = @ \o edge.filters,
                  !.optional = @ \/ "optional" \in edge.directives]

OutName(k) == "__intermediate_output_" \o ToString(k)
(* A slip: the counter is not looked at.                                      *)
SameOutName(k) == "__intermediate_output_0"

(* IntermediateOutNameAssigner                                                *)
AssignOutName(k) == OutName(k)

(* _get_out_name_optionally_add_output                                        *)
WithOutput(p, count) == IF p.out = NULL THEN [p EXCEPT !.out = AssignOutName(count)] ELSE p

(* A vertex field without directives, for the end of an edge.                 *)
NoDirectives == [filters |-> <<>>, directives |-> {}]

(* A slip: a type coercion below the edge is not looked into.                 *)
RootWithoutCoercion(vs, i) == DeclaredTypes(vs)[i]

(* _get_child_query_node_and_out_name: the root field of a branch cut off.    *)
RootOfBranch(vs, i) == TypesOf(vs)[i]

HasRepeatedProperty(v) ==
    \E k, l \in DOMAIN v.properties : k # l /\ v.properties[k].field = v.properties[l].field

-----------------------------------------------------------------------------
NewNode(root) ==
    [root |-> root, schema_id |-> NULL, parent_query_connection |-> NULL,
     child_query_connections |-> <<>>]
Connection(sink, source_out, sink_out) ==
    [sink_query_node |-> sink, source_field_out_name |-> source_out, sink_field_out_name |-> sink_out]

SplitInit ==
    /\ query = <<>> /\ vertices = <<>> /\ nodes = <<>>
    /\ query_nodes_to_split = <<>> /\ selections = {}
    /\ intermediate_output_count = 0
    /\ output_join_descriptors = {}
    /\ split_outcome = "asked"

SupportedDirectives == {"filter", "output", "optional"}

(* check_query_is_valid_to_split; only queries that GraphQL validates are     *)
(* posed.                                                                     *)
PoseQuery ==
    /\ merge_outcome = "merged" /\ split_outcome = "asked" /\ query = <<>>
    /\ \E q \in Queries :
          /\ Validates(q, DOMAIN q)
          /\ query' = q /\ vertices' = q
          /\ \/ /\ \E i \in DOMAIN q : ~(q[i].directives \subseteq SupportedDirectives)
                /\ split_outcome' = "GraphQLValidationError"
                /\ UNCHANGED <<nodes, query_nodes_to_split, selections>>
             \/ /\ \A i \in DOMAIN q : q[i].directives \subseteq SupportedDirectives
                /\ split_outcome' = "splitting"
                /\ nodes' = <<NewNode(1)>>
                /\ query_nodes_to_split' = <<1>>
                /\ selections' = {1}
    /\ UNCHANGED <<merge_vars, intermediate_output_count, output_join_descriptors>>

Splitting == split_outcome = "splitting"
CurrentNode == Last(query_nodes_to_split)
(* Depth first, in the order of the document.                                 *)
Unsplit == Min(selections)
CrossSchemaFields == {j \in ChildrenOf(vertices, Unsplit) : IsCrossSchema(vertices, j)}

RaiseInSplit(error) ==
    /\ split_outcome' = error
    /\ UNCHANGED <<merge_vars, query, vertices, nodes, query_nodes_to_split, selections,
                   intermediate_output_count, output_join_descriptors>>

(* _split_selections_property_and_vertex                                      *)
RejectRepeatedProperty ==
    /\ Splitting /\ selections # {}
    /\ HasRepeatedProperty(vertices[Unsplit])
    /\ RaiseInSplit("GraphQLValidationError")

(* _get_property_field, _get_child_query_node_and_out_name                    *)
RejectCrossSchemaField ==
    /\ Splitting /\ selections # {}
    /\ ~HasRepeatedProperty(vertices[Unsplit])
    /\ CrossSchemaFields # {}
    /\ LET sink == Min(CrossSchemaFields)
       IN  "output" \in vertices[sink].directives \/ HasRepeatedProperty(vertices[sink])
    /\ RaiseInSplit("GraphQLValidationError")

(* _process_cross_schema_field: the branch becomes a query of its own, with   *)
(* the type it leads to at its root; both sides put out the stitched field.   *)
ProcessCrossSchemaField ==
    /\ Splitting /\ selections # {}
    /\ ~HasRepeatedProperty(vertices[Unsplit])
    /\ CrossSchemaFields # {}
    /\ LET source == Unsplit
           sink == Min(CrossSchemaFields)
           edge == vertices[sink]
           type == RootOfBranch(vertices, sink)
           stitch == CHOOSE s \in StitchOf(TypesOf(vertices)[source], edge.edge) : TRUE
           asked == PropertyField(vertices[source], stitch[1], edge)
           source_property == WithOutput(asked, intermediate_output_count)
           count == intermediate_output_count + (IF asked.out = NULL THEN 1 ELSE 0)
           asked_of_sink == PropertyField(edge, stitch[2], NoDirectives)
           sink_property == WithOutput(asked_of_sink, count)
       IN  /\ "output" \notin edge.directives /\ ~HasRepeatedProperty(edge)
           /\ vertices' = [vertices EXCEPT
                  ![source] = WithProperty(vertices[source], source_property),
                  ![sink] = [WithProperty(edge, sink_property) EXCEPT
                                !.parent = 0, !.edge = type, !.coerced_to = NULL,
                                !.filters = <<>>, !.directives = {}]]
           /\ intermediate_output_count' = count + (IF asked_of_sink.out = NULL THEN 1 ELSE 0)
           /\ nodes' = Append(
                  [nodes EXCEPT ![CurrentNode].child_query_connections =
                      Append(@, Connection(Len(nodes) + 1, source_property.out, sink_property.out))],
                  [NewNode(sink) EXCEPT !.parent_query_connection =
                      Connection(CurrentNode, sink_property.out, source_property.out)])
    /\ UNCHANGED <<merge_vars, query, query_nodes_to_split, selections, output_join_descriptors,
                   split_outcome>>

(* Intra-schema fields are recursed on.                                       *)
RecurseOnIntraSchemaFields ==
    /\ Splitting /\ selections # {}
    /\ ~HasRepeatedProperty(vertices[Unsplit])
    /\ CrossSchemaFields = {}
    /\ selections' = (selections \ {Unsplit}) \cup ChildrenOf(vertices, Unsplit)
    /\ UNCHANGED <<merge_vars, query, vertices, nodes, query_nodes_to_split,
                   intermediate_output_count, output_join_descriptors, split_outcome>>

(* SchemaIdSetterVisitor                                                      *)
SchemaIdsIn(I) ==
    {type_name_to_schema_id[t] :
        t \in (UNION {{TypesOf(vertices)[i], DeclaredTypes(vertices)[i]} : i \in I})
              \cap DOMAIN type_name_to_schema_id}

(* The rest of _split_query_one_level, and the loop of split_query.           *)
FinishNode ==
    /\ Splitting /\ selections = {}
    /\ LET piece == Piece(nodes[CurrentNode].root)
           children == nodes[CurrentNode].child_query_connections
           rest == Front(query_nodes_to_split)
                       \o [k \in DOMAIN children |-> children[k].sink_query_node]
       IN  \/ /\ ~Validates(vertices, piece) \/ Cardinality(SchemaIdsIn(piece)) # 1
              /\ RaiseInSplit(IF Validates(vertices, piece) THEN "SchemaStructureError"
                              ELSE "AssertionError")
           \/ /\ Validates(vertices, piece)
              /\ Cardinality(SchemaIdsIn(piece)) = 1
              /\ nodes' = [nodes EXCEPT ![CurrentNode].schema_id =
                              CHOOSE s \in SchemaIdsIn(piece) : TRUE]
              /\ query_nodes_to_split' = rest
              /\ selections' = IF rest = <<>> THEN {} ELSE {nodes[Last(rest)].root}
              /\ split_outcome' = IF rest = <<>> THEN "split" ELSE "splitting"
              /\ UNCHANGED <<merge_vars, query, vertices, intermediate_output_count,
                             output_join_descriptors>>

-----------------------------------------------------------------------------
(* make_query_plan *)

InCollection(parameter) == [op |-> "in_collection", value |-> parameter]

WithFilter(p, filter) == [p EXCEPT !.filters = Append(@, filter)]
(* _add_filter_at_field_with_output, at one vertex                            *)
WithFilterAtOutput(v, out, parameter) ==
    [v EXCEPT !.properties =
        [k \in DOMAIN @ |-> IF @[k].out = out THEN WithFilter(@[k], InCollection(parameter)) ELSE @[k]]]

(* The properties of a piece that have an out name.                           *)
PropertiesWithOutput(I, out) ==
    {p \in I \X (1..10) : p[2] \in DOMAIN vertices[p[1]].properties
                          /\ vertices[p[1]].properties[p[2]].out = out}

Children == {n \in DOMAIN nodes : nodes[n].parent_query_connection # NULL}
(* The name of the parent's output is that of the filter's runtime parameter. *)
ParameterOf(connection) == connection.sink_field_out_name

MakeQueryPlan ==
    /\ split_outcome = "split"
    /\ \/ /\ \E n \in Children :
                Cardinality(PropertiesWithOutput(Piece(nodes[n].root),
                    nodes[n].parent_query_connection.source_field_out_name)) # 1
          /\ RaiseInSplit("GraphQLValidationError")
       \/ /\ \A n \in Children :
                Cardinality(PropertiesWithOutput(Piece(nodes[n].root),
                    nodes[n].parent_query_connection.source_field_out_name)) = 1
          /\ vertices' = [i \in DOMAIN vertices |->
                LET at == {n \in Children : nodes[n].root = Roots(vertices)[i]}
                IN  IF at = {} THEN vertices[i]
                    ELSE LET c == nodes[CHOOSE n \in at : TRUE].parent_query_connection
                         IN  WithFilterAtOutput(vertices[i], c.source_field_out_name, ParameterOf(c))]
          /\ output_join_descriptors' =
                {<<nodes[n].parent_query_connection.sink_field_out_name,
                   nodes[n].parent_query_connection.source_field_out_name>> : n \in Children}
          /\ split_outcome' = "planned"
          /\ UNCHANGED <<merge_vars, query, nodes, query_nodes_to_split, selections,
                         intermediate_output_count>>

-----------------------------------------------------------------------------
Init == MergeInit /\ SplitInit

Merge == MergeNext /\ UNCHANGED split_vars

Next ==
    \/ Merge
    \/ PoseQuery \/ RejectRepeatedProperty \/ RejectCrossSchemaField \/ ProcessCrossSchemaField
    \/ RecurseOnIntraSchemaFields \/ FinishNode \/ MakeQueryPlan

Spec == Init /\ [][Next]_vars
=============================================================================
