--------------------------- MODULE MCRenameQuery ----------------------------
(* Small instances of RenameSchema and RenameQuery for TLC.                   *)
EXTENDS RenameQuery

Node(kind, name, fields, refs) == [kind |-> kind, name |-> name, fields |-> fields, refs |-> refs]
To(field, type) == [name |-> field, type |-> type]

Root(types) == Node("object", "Query", {To(t, t) : t \in types}, {})

(* A type that implements an interface, two that do not, and their union.     *)
WithUnion ==
    << Root({"A", "B", "I"}),
       Node("interface", "I", {To("id", "String")}, {}),
       Node("object", "A", {To("id", "String"), To("b", "B")}, {"I"}),
       Node("object", "B", {To("id", "Date"), To("u", "U"), To("x", "String")}, {}),
       Node("object", "C", {To("id", "Date"), To("b", "B"), To("u", "C")}, {}),
       Node("union", "U", {}, {"B", "C"}),
       Node("scalar", "Date", {}, {}),
       Node("enum", "E", {}, {}) >>

(* An interface that nothing implements.                                      *)
Unimplemented ==
    << Node("interface", "I", {To("b", "B")}, {}),
       Node("object", "B", {To("id", "String")}, {}),
       Node("object", "C", {To("id", "String")}, {}),
       Root({"B", "C"}) >>

(* An interface that the query type implements.                               *)
RootImplementing ==
    << Node("interface", "I", {To("B", "B")}, {}),
       Node("object", "B", {To("id", "String")}, {}),
       Node("object", "Query", {To("B", "B")}, {"I"}) >>

(* A field of a type that leads back to the query type.                       *)
LeadingBack ==
    << Root({"A", "B"}),
       Node("object", "A", {To("id", "String")}, {}),
       Node("object", "B", {To("id", "String"), To("q", "Query")}, {}) >>

SmallSchemas == {WithUnion, Unimplemented, RootImplementing}
AllSchemas == SmallSchemas \cup {LeadingBack}

Singles(keys, values) == {k :> v : k \in keys, v \in values}
Pairs(keys, values) ==
    {(k :> v) @@ (l :> w) : k \in keys, l \in keys, v \in values, w \in values}

SmallTypeRenamings ==
    {<< >>} \cup Singles({"A", "B", "I", "U", "E", "Date", "String", "Query", "Zed"},
                         {"none", "B", "New", "String", "1st", "Query"})
            \cup Pairs({"A", "B", "C", "Date"}, {"none", "A", "B"})
            \cup Pairs({"B", "U"}, {"none", "U", "New"})
            \cup {("B" :> "New") @@ ("C" :> "New")}
            \cup {("B" :> "none") @@ ("C" :> "none") @@ ("U" :> "none")}

ForB ==
    Singles({"id", "u", "zip"}, {{}, {"id"}, {"x"}, {"id", "y"}})
    \cup {"x" :> {"1st"}, ("id" :> {"u", "y"}) @@ ("u" :> {"x"}) @@ ("x" :> {"id"})}
    \cup {("id" :> {}) @@ ("u" :> {}) @@ ("x" :> {})}

SmallFieldRenamings ==
    {<< >>} \cup {"B" :> r : r \in ForB}
    \cup {t :> ("id" :> {"y"}) : t \in {"A", "I", "C", "U", "Zed", "Query"}}
    \cup {("B" :> ("u" :> {})) @@ ("C" :> (("b" :> {"x"}) @@ ("u" :> {})))}

Valid == {"A", "B", "C", "E", "I", "U", "Date", "Query", "New", "Zed", "id", "b", "u", "x", "y"}
=============================================================================
