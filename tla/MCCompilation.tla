--------------------------- MODULE MCCompilation ----------------------------
(***************************************************************************)
(* A schema of animals and species, a graph of six vertices, and queries:  *)
(* every way to put the scopes on up to four vertex fields, and hand-made  *)
(* ones for each operator, rule and error.                                 *)
(***************************************************************************)
EXTENDS Compilation

CONSTANT Null

\* The schema.
StringList == ListOf(StringType)
MCPropertyTypes ==
  [type \in {"Animal", "Dog", "Species", "Entity"} |->
     CASE type = "Species" -> [name |-> StringType]
       [] type = "Entity" -> [name |-> StringType]
       [] OTHER -> [name |-> StringType, alias |-> StringList, age |-> IntType]]
AnimalFields ==
  [out_ParentOf |-> "AnimalUnion", in_ParentOf |-> "AnimalUnion",
   out_OfSpecies |-> "Species", out_Related |-> "Entity"]
MCVertexFieldTypes ==
  [Animal |-> AnimalFields, Dog |-> AnimalFields,
   Species |-> [in_OfSpecies |-> "AnimalUnion"],
   Entity |-> [out_Related |-> "Entity"]]
MCInterfaces ==
  [Animal |-> {"Entity"}, Dog |-> {"Entity"}, Species |-> {"Entity"}, Entity |-> {}]
MCUnionMembers == [AnimalUnion |-> {"Animal", "Dog"}]
MCHints == [Animal |-> "AnimalUnion"]

\* The graph: Ann is the parent of Bo and of the dog Cy, and the dog Di is its
\* own parent.  Nobody knows Cy's age or the name of the second species.
MCVertexTypes ==
  [Ann |-> {"Animal", "Entity"}, Bo |-> {"Animal", "Entity"},
   Cy |-> {"Animal", "Dog", "Entity"}, Di |-> {"Animal", "Dog", "Entity"},
   Ape |-> {"Species", "Entity"}, Cat |-> {"Species", "Entity"}]
MCNeighbors ==
  [out_ParentOf |-> [Ann |-> {"Bo", "Cy"}, Di |-> {"Di"}],
   in_ParentOf |-> [Bo |-> {"Ann"}, Cy |-> {"Ann"}, Di |-> {"Di"}],
   out_OfSpecies |-> [Ann |-> {"Ape"}, Bo |-> {"Ape"}, Di |-> {"Cat"}],
   in_OfSpecies |-> [Ape |-> {"Ann", "Bo"}, Cat |-> {"Di"}],
   out_Related |-> [Ann |-> {"Bo"}, Bo |-> {"Ape"}]]
a == <<"a">>
ab == <<"a", "b">>
b == <<"b">>
MCProperties ==
  [Ann |-> [name |-> ab, alias |-> {a}, age |-> 1],
   Bo |-> [name |-> b, alias |-> {}, age |-> 2],
   Cy |-> [name |-> a, alias |-> {b}, age |-> Null],
   Di |-> [name |-> ab, alias |-> {a, b}, age |-> 2],
   Ape |-> [name |-> a], Cat |-> [name |-> Null]]
MCParameterValues ==
  [number |-> 2, high |-> 3, numbers |-> {1}, text |-> a, texts |-> {a, b}]
MCForeignKeyAtEnd == {"out_ParentOf", "in_OfSpecies"}

\* Queries.
Variable(name) == [kind |-> "$", name |-> name]
Tag(name) == [kind |-> "%", name |-> name]
FilterOn(op, args) == [op |-> op, args |-> args]
Property(name, output) ==
  [name |-> name, tag |-> "", output |-> output, filters |-> <<>>, vertex_only |-> FALSE]
WithFilter(property, op, args) == [property EXCEPT !.filters = Append(@, FilterOn(op, args))]
WithTag(property, name) == [property EXCEPT !.tag = name]
VertexField(parent, edge, directives, properties) ==
  [parent |-> parent, edge |-> edge, directives |-> directives, depth |-> 2,
   filters |-> <<>>, fragments |-> <<>>, properties |-> properties, flaw |-> ""]
Root(properties) == VertexField(0, "Animal", {}, properties)
On(type) == [type |-> type, filters |-> <<>>]

\* An edge for each position, so that siblings have different ones.
EdgeAt(i) == CASE i = 2 -> "out_ParentOf" [] i = 3 -> "in_ParentOf" [] i = 4 -> "out_OfSpecies"
OutputAt(i) == CASE i = 1 -> "one" [] i = 2 -> "two" [] i = 3 -> "three" [] i = 4 -> "four"

Scopes == {{}, {"optional"}, {"recurse"}, {"fold"}}
Shapes == {<<0>>, <<0, 1>>, <<0, 1, 1>>, <<0, 1, 2>>,
           <<0, 1, 1, 1>>, <<0, 1, 2, 1>>, <<0, 1, 2, 2>>, <<0, 1, 2, 3>>, <<0, 1, 1, 3>>}

HasChild(shape, i) == \E j \in DOMAIN shape : shape[j] = i

\* Leaves output the name, and so does the root.
Plain ==
  UNION {{[i \in DOMAIN shape |->
             IF i = 1 THEN Root(<<Property("name", "one")>>)
             ELSE VertexField(shape[i], EdgeAt(i), scopes[i - 1],
                    IF HasChild(shape, i) THEN <<>> ELSE <<Property("name", OutputAt(i))>>)]
          : scopes \in [1..(Len(shape) - 1) -> Scopes]} : shape \in Shapes}

\* The same with every vertex field's name among the outputs.
Chatty == {[i \in DOMAIN q |-> [q[i] EXCEPT !.properties = <<Property("name", OutputAt(i))>>]]
           : q \in Plain}

Short == {q \in Plain : Len(q) \in 2..3}

AddProperty(q, i, property) == [q EXCEPT ![i].properties = Append(@, property)]

\* A filter on the age of a vertex or on the size of its fold.
Filtered ==
  UNION {{AddProperty(q, i, WithFilter(Property(field, ""), "<", <<Variable("number")>>))
          : i \in DOMAIN q, field \in {"age", COUNT}} : q \in Short}

\* An age is tagged and another, or the size of a fold, is compared with it.
Compared ==
  UNION {{AddProperty(AddProperty(q, i, WithTag(Property("age", ""), "t")),
                      j, WithFilter(Property(field, ""), ">=", <<Tag("t")>>))
          : i, j \in DOMAIN q, field \in {"age", COUNT}} : q \in Short}

Counted ==
  UNION {{AddProperty(q, i, Property(COUNT, "size")) : i \in DOMAIN q} : q \in Short}

\* An output source at each vertex, among the other scopes.
Sourced ==
  UNION {{[q EXCEPT ![i].directives = @ \cup {"output_source"}] : i \in DOMAIN q} : q \in Short}

Two(child) == <<Root(<<Property("name", "one")>>), child>>
Three(child, grandchild) == Append(Two(child), grandchild)
Child(edge, directives) == VertexField(1, edge, directives, <<Property("name", "two")>>)
Grandchild(edge, directives) == VertexField(2, edge, directives, <<Property("name", "three")>>)

OnAge(op, args) == Two([Child("out_ParentOf", {}) EXCEPT !.properties =
                          Append(@, WithFilter(Property("age", ""), op, args))])

\* Every operator on every property, with the arguments that it takes there, one
\* argument too few, and a literal.  Strings are not ordered in this graph.
Operators == COMPARISON_OPERATORS \cup UNARY_FILTERS \cup
  {"between", "in_collection", "not_in_collection", "has_substring", "starts_with",
   "ends_with", "contains", "not_contains", "intersects", "name_or_alias",
   "has_edge_degree", "unheard_of"}
ArgumentOf(type) ==
  Variable(IF type.list THEN IF type.name = "Int" THEN "numbers" ELSE "texts"
           ELSE IF type.name = "Int" THEN "number" ELSE "text")
ArgumentLists(field, op) ==
  {<<>>, <<[kind |-> "literal", name |-> "2"]>>} \cup
  {[i \in DOMAIN s |-> ArgumentOf(s[i])] : s \in
     Signatures(op, [vertex |-> FALSE, type |-> MCPropertyTypes["Animal"][field], fields |-> <<>>])}
EveryOperator ==
  UNION {{<<Root(<<Property("age", "one"), WithFilter(Property(field, ""), op, args)>>)>>
          : args \in ArgumentLists(field, op)}
          : field \in {"name", "alias"},
             op \in Operators \ {">", "<", ">=", "<=", "between"}}
  \cup UNION {{OnAge(op, args) : args \in ArgumentLists("age", op)} : op \in Operators}

VertexFilters ==
  {Two([child EXCEPT !.filters = <<filter>>])
   : child \in {Child("out_ParentOf", {}), Child("out_OfSpecies", {"optional"}),
                Child("out_ParentOf", {"fold"}), Child("in_ParentOf", {"recurse"})},
     filter \in {FilterOn("name_or_alias", <<Variable("text")>>),
                 FilterOn("has_edge_degree", <<Variable("number")>>),
                 FilterOn("has_edge_degree", <<Tag("t")>>)}}

Coerced(child, types) ==
  [child EXCEPT !.fragments = [i \in DOMAIN types |-> On(types[i])]]
Coercions ==
  {Two(Coerced(Child(edge, directives), types))
   : edge \in {"out_ParentOf", "out_Related"},
     directives \in Scopes \cup {{"output_source"}, {"tag"}},
     types \in {<<"Animal">>, <<"Dog">>, <<"Animal", "Dog">>, <<"Animal", "Animal">>}}

\* The rules that no family above breaks, and shapes that only SQL minds.
Special ==
  {<<Coerced(Root(<<Property("name", "one")>>), <<"Dog">>)>>,
   <<Root(<<>>)>>,
   <<[Root(<<Property("name", "one")>>) EXCEPT !.flaw = "vertex field before property field"]>>,
   <<[Root(<<Property("name", "one")>>) EXCEPT !.filters =
        <<FilterOn("has_edge_degree", <<Variable("number")>>)>>]>>,
   <<Root(<<[Property("name", "one") EXCEPT !.vertex_only = TRUE]>>)>>,
   <<Root(<<WithTag(Property("age", "one"), "t")>>)>>,
   <<Root(<<WithTag(Property("age", "one"), "t"), WithTag(Property("name", ""), "t")>>)>>,
   <<Root(<<WithFilter(Property("age", "one"), "<", <<Variable("number")>>),
            WithFilter(Property("name", ""), "=", <<Variable("number")>>)>>)>>,
   <<Root(<<WithTag(Property("age", "one"), "t"), WithFilter(Property("name", ""), "=", <<Tag("t")>>)>>)>>,
   Two([Child("out_ParentOf", {"recurse"}) EXCEPT !.depth = 0]),
   Two(Child("out_OfSpecies", {"recurse"})),
   Two(Child("out_Related", {"recurse"})),
   Two(Child("out_ParentOf", {"tag"})),
   Three(Child("out_Related", {}), Grandchild("out_Related", {"recurse"})),
   Three(Coerced(Child("out_Related", {}), <<"Dog">>), Grandchild("in_ParentOf", {"optional"})),
   Three([Child("out_ParentOf", {"fold"}) EXCEPT !.properties = <<>>], Grandchild("out_OfSpecies", {})),
   Append(Three([Child("out_ParentOf", {"fold"}) EXCEPT !.properties = <<>>],
                [Grandchild("out_ParentOf", {}) EXCEPT !.properties = <<>>]),
          VertexField(2, "in_ParentOf", {}, <<Property("name", "four")>>)),
   Append(Two([Child("out_ParentOf", {"recurse"}) EXCEPT !.properties =
                 Append(@, WithFilter(Property("age", ""), "<", <<Variable("number")>>))]),
          VertexField(2, "in_ParentOf", {"fold"}, <<Property("name", "three"), Property("age", "four")>>)),
   Two([Child("out_ParentOf", {}) EXCEPT !.filters = <<FilterOn("is_null", <<>>)>>]),
   Two([Child("out_ParentOf", {}) EXCEPT !.filters = <<FilterOn("name_or_alias", <<Tag("t")>>)>>,
                                         !.properties = <<WithTag(Property("name", "two"), "t")>>]),
   Append(Two(Child("out_ParentOf", {"output_source"})),
          VertexField(1, "in_ParentOf", {"fold"}, <<Property("name", "three")>>)),
   Append(Two(Coerced(Child("out_Related", {"output_source"}), <<"Dog">>)),
          VertexField(1, "in_ParentOf", {}, <<Property("name", "three")>>)),
   Three(Coerced(Child("out_Related", {}), <<"Dog">>), Grandchild("in_ParentOf", {"recurse"})),
   Two([Coerced(Child("out_Related", {}), <<"Animal">>) EXCEPT !.fragments[1].filters =
          <<FilterOn("name_or_alias", <<Variable("text")>>)>>]),
   Two([Coerced(Child("out_Related", {}), <<"Animal">>) EXCEPT !.fragments[1].filters =
          <<FilterOn("is_null", <<>>)>>])}
  \cup {Two(Child("out_ParentOf", directives))
        : directives \in {d \in SUBSET {"optional", "recurse", "fold", "output_source", "output"} :
                            Cardinality(d) = 2}}

MCQueries == Plain \cup Chatty \cup Filtered \cup Compared \cup Counted \cup Sourced
             \cup EveryOperator \cup VertexFilters \cup Coercions \cup Special

\* For each rule that is only in the documentation there is a query that breaks it
\* and no other, and that EnforcesRules says is compiled; and there is a legal one
\* that it says is refused, for its filter uses a tag of its own vertex field.
ASSUME EachRuleTakenAlone ==
  /\ \A rule \in DocumentedRules : \E q \in MCQueries :
       /\ KeepsEnforcedRules(q) /\ ~FiltersByOwnTag(q) /\ ~CoercedTwice(q)
       /\ BrokenRules(q) = {rule}
  /\ \E q \in MCQueries : Legal(q) /\ FiltersByOwnTag(q) /\ ~CoercedTwice(q)
=============================================================================
