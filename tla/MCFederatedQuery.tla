-------------------------- MODULE MCFederatedQuery --------------------------
(* Small instances of MergeSchemas, SplitQuery and FederatedQuery for TLC.    *)
EXTENDS FederatedQuery

Node(kind, name, fields, refs) == [kind |-> kind, name |-> name, fields |-> fields, refs |-> refs]
To(field, type) == [name |-> field, type |-> type, list |-> FALSE, stitch |-> NULL]
ToMany(field, type) == [To(field, type) EXCEPT !.list = TRUE]

Stitch == Node("directive", "stitch", {}, {"FIELD_DEFINITION"})
Date == Node("scalar", "Date", {}, {})
Root(name, types) == Node("object", name, {To(t, t) : t \in types}, {})

Being == {To("id", "ID"), To("born", "Date")}
Animals ==
    [id |-> "animals", query_type |-> "Animals", definitions |->
        << Stitch, Root("Animals", {"Being", "Dog", "Puppy"}), Date,
           Node("interface", "Being", Being, {}),
           Node("object", "Dog", Being \cup {ToMany("out_Parent", "Dog"), ToMany("toys", "ID")}, {"Being"}),
           Node("object", "Puppy", Being \cup {ToMany("out_Parent", "Dog"), ToMany("toys", "ID")}, {"Being"}),
           Node("union", "AnyDog", {}, {"Dog", "Puppy"}) >>]
People ==
    [id |-> "people", query_type |-> "RootSchemaQuery", definitions |->
        << Node("object", "Owner", {To("name", "String"), To("dog", "String"), To("born", "Date"),
                                    ToMany("out_Lives", "House")}, {}),
           Date, Stitch,
           Node("object", "House", {To("street", "String"), To("town", "String")}, {}),
           Root("RootSchemaQuery", {"Owner", "House"}) >>]
Towns ==
    [id |-> "towns", query_type |-> "Query", definitions |->
        << Root("Query", {"Town"}),
           Node("object", "Town", {To("label", "String"), To("size", "Int")}, {}),
           Node("object", "Street", {To("label", "String")}, {}) >>]

(* A schema that refers to its query type, and one that has a type of the     *)
(* same name.                                                                 *)
Loops ==
    [id |-> "loops", query_type |-> "Query", definitions |->
        << Root("Query", {"Loop"}),
           Node("object", "Loop", {To("id", "ID"), To("query", "Query")}, {}) >>]
Queried ==
    [id |-> "queried", query_type |-> "Queries", definitions |->
        << Root("Queries", {"Query"}), Node("object", "Query", {To("id", "ID")}, {}) >>]

(* Another schema of one definition.                                          *)
Other(definition) ==
    [id |-> "other", query_type |-> "Query", definitions |->
        << Root("Query", {"Thing"}), definition, Node("object", "Thing", {To("id", "ID")}, {}) >>]

Ref(schema, type, field) == [schema |-> schema, type |-> type, field |-> field]
Edge(name, outbound, inbound) ==
    [name |-> name, outbound |-> outbound, inbound |-> inbound, out_edge_only |-> FALSE]
Owns == Edge("Owns", Ref("people", "Owner", "dog"), Ref("animals", "Being", "id"))
Knows == Edge("Knows", Ref("people", "Owner", "name"), Ref("animals", "Dog", "id"))
Near == [Edge("Near", Ref("people", "House", "town"), Ref("towns", "Town", "label"))
            EXCEPT !.out_edge_only = TRUE]
On == [Near EXCEPT !.name = "On", !.outbound = Ref("people", "House", "street"),
                   !.inbound = Ref("towns", "Street", "label")]

Row(type, values) == [type |-> type, values |-> values]
Rows ==
    ("d1" :> Row("Dog", [id |-> "a", born |-> "1"]))
    @@ ("d2" :> Row("Puppy", [id |-> "b", born |-> "2"]))
    @@ ("o1" :> Row("Owner", [name |-> "b", dog |-> "a", born |-> "1"]))
    @@ ("o2" :> Row("Owner", [name |-> "a", dog |-> "a", born |-> "2"]))
    @@ ("o3" :> Row("Owner", [name |-> "c", born |-> "2"]))
    @@ ("h1" :> Row("House", [street |-> "s", town |-> "t"]))
    @@ ("h2" :> Row("House", [street |-> "s"]))
    @@ ("t1" :> Row("Town", [label |-> "t", size |-> "1"]))
    @@ ("t2" :> Row("Town", [label |-> "u", size |-> "2"]))
Data ==
    [rows |-> Rows,
     edges |-> ("out_Parent" :> {<<"d2", "d1">>})
               @@ ("out_Lives" :> {<<"o1", "h1">>, <<"o2", "h2">>, <<"o2", "h1">>})]

Federation(schemas, edges, hints) ==
    [schemas |-> schemas, edges |-> edges, hints |-> hints, data |-> Data,
     arguments |-> [x |-> {"a", "t"}, y |-> {"1", "b"}, dog |-> {"a"}]]

Walkable == <<Owns, Knows, Near, On>>

Misfits ==
    {Node("object", "Dog", {To("id", "ID")}, {}), Node("enum", "Date", {}, {}),
     Node("scalar", "Dog", {}, {}), Node("directive", "stitch", {}, {"OBJECT"}),
     Node("object", "RootSchemaQuery", {To("id", "ID")}, {}), Node("scalar", "RootSchemaQuery", {}, {}),
     Node("object", "Loop", {To("query", "Query")}, {})}
BadReferences ==
    {Ref("animals", "AnyDog", "id"), Ref("animals", "Cat", "id"), Ref("towns", "Dog", "id"),
     Ref("animals", "Dog", "name"), Ref("animals", "Dog", "toys"), Ref("animals", "Dog", "out_Parent"),
     Ref("animals", "Dog", "born"), Ref("people", "House", "town")}

SmallFederations ==
    {Federation(s, Walkable, h) : s \in {<<Animals, People, Towns>>, <<Towns, People, Animals>>},
                                  h \in {<< >>, "Dog" :> "AnyDog"}}
    \cup {Federation(<<Animals>>, <<>>, << >>),
          Federation(<<Towns, Other(Date)>>, <<Edge("E", Ref("towns", "Town", "label"),
                                                         Ref("other", "Thing", "id"))>>, << >>)}
    \cup {Federation(<<Animals, Other(m)>>, <<>>, << >>) : m \in Misfits}
    \cup {Federation(<<Other(m), Animals>>, <<>>, << >>) : m \in Misfits}
    \cup {Federation(<<Animals, People>>, <<[Knows EXCEPT !.inbound = r]>>, << >>) : r \in BadReferences}
    \cup {Federation(<<Animals, People>>, <<Edge("Parent", Knows.inbound, Knows.outbound)>>, << >>),
          Federation(<<Animals, People>>, <<Owns, Owns>>, << >>),
          Federation(<<Loops, Queried>>, <<>>, << >>)}

-----------------------------------------------------------------------------
Vertex(parent, edge, coerced_to) ==
    [parent |-> parent, edge |-> edge, coerced_to |-> coerced_to, directives |-> {},
     filters |-> <<>>, properties |-> <<>>]

Shapes ==
    {<<Vertex(0, "Owner", NULL), Vertex(1, "out_Owns", t)>> : t \in {NULL, "Dog", "Puppy"}}
    \cup {<<Vertex(0, "Owner", NULL), Vertex(1, "out_Knows", t)>> : t \in {NULL, "Dog", "Puppy"}}
    \cup {<<Vertex(0, "Being", NULL), Vertex(1, "in_Owns", NULL)>>,
          <<Vertex(0, "House", NULL), Vertex(1, "out_On", NULL)>>,
          <<Vertex(0, "Being", "Dog"), Vertex(1, "in_Knows", NULL)>>,
          <<Vertex(0, "Loop", NULL), Vertex(1, "query", NULL)>>,
          <<Vertex(0, "Owner", NULL), Vertex(1, "out_Lives", NULL), Vertex(2, "out_Near", NULL)>>,
          <<Vertex(0, "Being", "Puppy"), Vertex(1, "out_Parent", NULL), Vertex(2, "in_Owns", NULL)>>,
          <<Vertex(0, "Owner", NULL), Vertex(1, "out_Owns", NULL), Vertex(2, "in_Owns", NULL)>>,
          <<Vertex(0, "Owner", NULL), Vertex(1, "out_Owns", NULL), Vertex(1, "out_Owns", NULL)>>}
LongShapes ==
    {<<Vertex(0, "Owner", NULL), Vertex(1, "out_Owns", NULL), Vertex(1, "out_Lives", NULL),
       Vertex(3, "out_Near", NULL)>>,
     <<Vertex(0, "Dog", NULL), Vertex(1, "in_Owns", NULL), Vertex(2, "out_Lives", NULL),
       Vertex(3, "out_Near", NULL)>>}

KeyField ==
    [Owner |-> "dog", Being |-> "id", Dog |-> "id", House |-> "town", Loop |-> "id", query |-> "id",
     out_Owns |-> "id", in_Owns |-> "dog", out_Knows |-> "id", in_Knows |-> "name", out_On |-> "label",
     out_Near |-> "label", out_Lives |-> "town", out_Parent |-> "id"]

Property(field, out, filters) ==
    [field |-> field, out |-> out, filters |-> filters, optional |-> FALSE]
Equals(parameter) == <<[op |-> "=", value |-> parameter]>>

(* Property fields of the i-th vertex.                                        *)
PropertiesAt(i, edge) ==
    LET key == KeyField[edge]
        out == "o" \o ToString(i)
    IN  {<<>>, <<Property(key, out, <<>>)>>, <<Property(key, NULL, Equals("x"))>>,
         <<Property("born", out, Equals("y"))>>,
         <<Property("born", NULL, <<>>), Property(key, out, Equals("x"))>>}
FewPropertiesAt(i, edge) ==
    LET key == KeyField[edge]
    IN  {<<>>, <<Property(key, "o" \o ToString(i), <<>>)>>, <<Property(key, NULL, Equals("x"))>>}

Decorated(shape, At(_, _)) ==
    {[i \in DOMAIN shape |-> [shape[i] EXCEPT !.properties = d[i]]] :
        d \in {e \in [DOMAIN shape -> UNION {At(i, shape[i].edge) : i \in DOMAIN shape}] :
                  \A i \in DOMAIN shape : e[i] \in At(i, shape[i].edge)}}

OwnerOfDog(out, parameter, sink) ==
    << [Vertex(0, "Owner", NULL) EXCEPT !.properties = <<Property("dog", out, <<>>)>>],
       [Vertex(1, "out_Owns", NULL) EXCEPT
           !.properties = <<Property("id", "id", Equals(parameter))>>,
           !.filters = sink.filters, !.directives = sink.directives] >>

(* Directives on a cross-schema edge, property fields that are repeated, and  *)
(* names that meet.                                                           *)
Oddities ==
    {OwnerOfDog("dog", p, [filters |-> f, directives |-> d]) :
        p \in {"x", "dog"}, f \in {<<>>, Equals("y")},
        d \in {{}, {"optional"}, {"output"}, {"fold"}, {"optional", "filter"}}}
    \cup {OwnerOfDog(NULL, "x", [filters |-> <<>>, directives |-> {}]),
          OwnerOfDog("__intermediate_output_0", "x", NoDirectives)}
    \cup {[OwnerOfDog("dog", "x", NoDirectives) EXCEPT ![i].properties = @ \o @] : i \in 1..2}
    \cup {[OwnerOfDog("dog", "x", NoDirectives) EXCEPT
              ![2].properties = Append(@, Property("born", "id", <<>>))]}

SmallQueries ==
    UNION {Decorated(s, PropertiesAt) : s \in Shapes}
    \cup UNION {Decorated(s, FewPropertiesAt) : s \in LongShapes}
    \cup Oddities

Valid ==
    {"Being", "Dog", "Puppy", "AnyDog", "Owner", "House", "Town", "Street", "Thing", "Loop", "Date",
     "Animals", "RootSchemaQuery", "Query", "Queries"}
=============================================================================
