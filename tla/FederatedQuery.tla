--------------------------- MODULE FederatedQuery ----------------------------
(* What split_query and make_query_plan promise: the queries of the plan, run *)
(* on the schemas' own databases and joined as the plan says, give the result *)
(* of the query on all of them.                                               *)
(*                                                                            *)
(* federation.data has rows, each of a type and with values of its property   *)
(* fields, and for every vertex field within a schema the pairs of rows that  *)
(* it links; federation.arguments gives every runtime parameter of the user   *)
(* the set of values it admits.                                               *)
EXTENDS SplitQuery

data == federation.data

Value(row, f) == Lookup(data.rows[row].values, f, NULL)
Admits(arguments, p, value) ==
    \A k \in DOMAIN p.filters : value # NULL /\ value \in arguments[p.filters[k].value]

(* A cross-schema edge links rows that have the same value in the fields of   *)
(* its descriptor.                                                            *)
Links(field, row, other) ==
    \/ <<row, other>> \in Lookup(data.edges, field, {})
    \/ \E i \in DOMAIN federation.edges : LET e == federation.edges[i] IN
          \/ /\ field = "out_" \o e.name
             /\ Value(row, e.outbound.field) = Value(other, e.inbound.field)
             /\ Value(row, e.outbound.field) # NULL
          \/ /\ field = "in_" \o e.name /\ ~e.out_edge_only
             /\ Value(row, e.inbound.field) = Value(other, e.outbound.field)
             /\ Value(row, e.inbound.field) # NULL

(* Rows for the vertices I of a query that satisfy it.                        *)
Candidates(vs, i, arguments) ==
    LET classes == ClassesOf(TypesOf(vs)[i])
    IN  {row \in DOMAIN data.rows :
        /\ data.rows[row].type \in classes
        /\ \A k \in DOMAIN vs[i].properties :
              Admits(arguments, vs[i].properties[k], Value(row, vs[i].properties[k].field))}
Matches(vs, I, arguments) ==
    LET matches[i \in 0..Len(vs)] ==
          IF i = 0 THEN {<< >>}
          ELSE IF i \notin I THEN matches[i - 1]
          ELSE LET candidates == Candidates(vs, i, arguments)
               IN  UNION {{m @@ (i :> row) : row \in {c \in candidates :
                               vs[i].parent # 0 => Links(vs[i].edge, m[vs[i].parent], c)}} :
                             m \in matches[i - 1]}
    IN  matches[Len(vs)]

Outputs(vs, I) ==
    {p \in I \X (1..10) : p[2] \in DOMAIN vs[p[1]].properties
                          /\ vs[p[1]].properties[p[2]].out # NULL}
OutNameAt(vs, p) == vs[p[1]].properties[p[2]].out
Result(vs, I, arguments) ==
    {[o \in {OutNameAt(vs, p) : p \in Outputs(vs, I)} |->
        LET p == CHOOSE q \in Outputs(vs, I) : OutNameAt(vs, q) = o
        IN  Value(a[p[1]], vs[p[1]].properties[p[2]].field)] : a \in Matches(vs, I, arguments)}

(* The plan, run from the root down: a query gets the values that its parent  *)
(* put out as the argument named like that output.                            *)
ResultsOfPieces ==
    LET results[n \in DOMAIN nodes] ==
          LET c == nodes[n].parent_query_connection
              from_parent ==
                  IF c = NULL THEN << >>
                  ELSE c.sink_field_out_name
                          :> {r[c.sink_field_out_name] : r \in results[c.sink_query_node]}
          IN  Result(vertices, Piece(nodes[n].root), from_parent @@ federation.arguments)
    IN  results

(* Results of the first n pieces, joined.                                     *)
Joined ==
    LET joined[n \in 0..Len(nodes)] ==
          IF n = 0 THEN {<< >>}
          ELSE {r[1] @@ r[2] : r \in {x \in joined[n - 1] \X ResultsOfPieces[n] :
                    \A d \in output_join_descriptors :
                        d[1] \in DOMAIN x[1] /\ d[2] \in DOMAIN x[2] => x[1][d[1]] = x[2][d[2]]}}
    IN  joined[Len(nodes)]

IntermediateOutNames == {OutName(k) : k \in 0..(intermediate_output_count - 1)}
ResultOfPlan ==
    {[o \in DOMAIN r \ IntermediateOutNames |-> r[o]] : r \in Joined}

-----------------------------------------------------------------------------
(* Properties *)

OutNames(vs) ==
    LET outputs == Outputs(vs, DOMAIN vs)
    IN  {OutNameAt(vs, p) : p \in outputs}
OutNamesAreUnique(vs) == Cardinality(OutNames(vs)) = Cardinality(Outputs(vs, DOMAIN vs))

(* The compiler accepts the query: out names are unique.                      *)
IsQuery == OutNamesAreUnique(query)

(* The user has taken an out name that split_query gives away, or has called  *)
(* a runtime parameter like an output.                                        *)
NamesMeet ==
    \/ \E k \in 0..9 : OutName(k) \in OutNames(query)
    \/ DOMAIN federation.arguments \cap OutNames(query) # {}

(* A schema that merge_schemas made can be split along: pieces never reach    *)
(* over schemas, and the only query that ends in an error of the compiler's   *)
(* own is one with an edge to a type without a root field.  (A reference to a *)
(* query type may have become one to a type of another schema.)               *)
MergedSchemasCanBeSplit ==
    ~QueryTypeIsReferredTo =>
        /\ split_outcome # "SchemaStructureError"
        /\ split_outcome = "AssertionError" =>
              \E i \in DOMAIN query : IsCrossSchema(query, i) /\ TypesOf(query)[i] \notin RootFields
        /\ split_outcome = "planned" =>
              \A n \in DOMAIN nodes : SchemaIdsIn(Piece(nodes[n].root)) = {nodes[n].schema_id}

(* "All output names of @output directives will be unique": over all pieces,  *)
(* unless the user has used names that split_query gives away.                *)
OutNamesStayUnique ==
    split_outcome \in {"split", "planned"} /\ IsQuery /\ ~NamesMeet => OutNamesAreUnique(vertices)

(* What is asked at a vertex is asked in the piece that it is in: outputs,    *)
(* filters in their order; and what is asked on a cross-schema edge is asked  *)
(* of the field that the edge stitches.                                       *)
NothingIsDropped ==
    split_outcome = "planned" =>
        \A i \in DOMAIN query :
          /\ \A k \in DOMAIN query[i].properties :
                LET asked == query[i].properties[k]
                    there == PropertyOf(vertices[i], asked.field)
                IN  /\ Has(vertices[i], asked.field)
                    /\ asked.out # NULL => there.out = asked.out
                    /\ IsPrefix(asked.filters, there.filters)
                    /\ asked.optional => there.optional
          /\ IsCrossSchema(query, i) =>
                LET stitch == CHOOSE s \in StitchOf(TypesOf(query)[query[i].parent], query[i].edge) :
                                 TRUE
                    there == PropertyOf(vertices[query[i].parent], stitch[1])
                IN  /\ ToSet(query[i].filters) \subseteq ToSet(there.filters)
                    /\ "optional" \in query[i].directives => there.optional
          /\ ~IsCrossSchema(query, i) =>
                vertices[i].filters = query[i].filters /\ vertices[i].directives = query[i].directives

(* Directives on vertex fields are outside of what Result says.               *)
IsPlain == \A i \in DOMAIN query : query[i].directives = {} /\ query[i].filters = <<>>

(* Running the pieces from the root down and joining their results gives the  *)
(* result of the query.                                                       *)
PlanComputesQuery ==
    split_outcome = "planned" /\ IsQuery /\ IsPlain /\ ~NamesMeet =>
        ResultOfPlan = Result(query, DOMAIN query, federation.arguments)
=============================================================================
