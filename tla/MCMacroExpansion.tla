-------------------------- MODULE MCMacroExpansion --------------------------
(* Small instances of MacroExpansion for TLC.                                 *)
EXTENDS MacroExpansion, TLC

Directive(kind, tags, params, text) ==
    [kind |-> kind, tags |-> tags, params |-> params, text |-> text, scope |-> 0]

Tag(t, text) == Directive("tag", {<<t>>}, {}, text)
TagFilter(t, text) == Directive("filter", {<<t>>}, {}, text)
ArgumentFilter(p, text) == Directive("filter", {}, {p}, text)
Output(text) == Directive("output", {}, {}, text)

NoFields == [f \in {} |-> {}]

Vertex(path, directives, fields) ==
    [path |-> path, type |-> "Animal", coerced |-> FALSE, directives |-> directives,
     on_coercion |-> {}, fields |-> fields]

Coerced(v, type, directives) ==
    [v EXCEPT !.type = type, !.coerced = TRUE, !.on_coercion = directives]

MacroEdge(target_class_name, body, target) ==
    [target_class_name |-> target_class_name, expansion_ast |-> body, target |-> target,
     macro_args |-> ParametersUsed(AllDirectives(body))]

-----------------------------------------------------------------------------
(* Macro edges of the tests' schema: grandparents and siblings.               *)
Classes == {"Animal", "Entity", "Food"}
Subclasses ==
    [c \in Classes |-> IF c = "Entity" THEN Classes ELSE {c}]

Base == Vertex(<<>>, {}, NoFields)

GrandparentOf ==
    MacroEdge("Animal",
        << Base, Vertex(<<"ParentOf">>, {}, NoFields),
           Vertex(<<"ParentOf", "ParentOf">>, {}, NoFields) >>, 3)

GrandchildrenCalled ==
    MacroEdge("Animal",
        << Base, Vertex(<<"ParentOf">>, {}, NoFields),
           Vertex(<<"ParentOf", "ParentOf">>, {ArgumentFilter("wanted", "name")}, NoFields) >>, 3)

RichSiblings ==
    MacroEdge("Animal",
        << Base, Vertex(<<"in_ParentOf">>, {}, "net_worth" :> {Tag("t", "parent")}),
           Vertex(<<"in_ParentOf", "ParentOf">>, {},
                  "net_worth" :> {TagFilter("t", "sibling")}) >>, 3)

RichYoungerSiblings ==
    MacroEdge("Animal",
        << Vertex(<<>>, {}, "net_worth" :> {Tag("t", "net_worth")}),
           Vertex(<<"in_ParentOf">>, {}, NoFields),
           Vertex(<<"in_ParentOf", "ParentOf">>, {}, "net_worth" :> {TagFilter("t", "more")}),
           Vertex(<<"in_ParentOf", "ParentOf", "BornAt">>, {},
                  "event_date" :> {Tag("b", "birthday")}),
           Vertex(<<"BornAt">>, {}, "event_date" :> {TagFilter("b", "later")}) >>, 3)

RelatedFood ==
    MacroEdge("Food",
        << Base, Coerced(Vertex(<<"Related">>, {}, "name" :> {ArgumentFilter("food", "name")}),
                         "Food", {}) >>, 2)

RelatedEntity ==
    MacroEdge("Entity",
        << Base, [Vertex(<<"Related">>, {}, NoFields) EXCEPT !.type = "Entity"] >>, 2)

NoMacroEdges == [n \in {} |-> GrandparentOf]

Macros ==
    [c \in Classes |->
        IF c = "Animal"
        THEN [Grandparent |-> GrandparentOf, Called |-> GrandchildrenCalled,
              Rich |-> RichSiblings, RichYounger |-> RichYoungerSiblings,
              Food |-> RelatedFood, Entity |-> RelatedEntity]
        ELSE NoMacroEdges]

-----------------------------------------------------------------------------
(* Queries *)

(* A subtree: its vertices with their paths below its own vertex field.       *)
At(path, subtree) ==
    [k \in DOMAIN subtree |-> [subtree[k] EXCEPT !.path = path \o @]]

Leaf(name) == << Vertex(<<name>>, {}, "name" :> {Output("out")}) >>

Under(name, fields, subtree) == << Vertex(<<name>>, {}, fields) >> \o At(<<name>>, subtree)

Subtrees ==
    {<<>>} \cup
    {Leaf(n) : n \in {"ParentOf", "Grandparent", "Called", "Rich", "RichYounger"}} \cup
    { Under(n, "name" :> {Output(m)}, Leaf(m)) :
          n \in {"ParentOf", "Rich", "RichYounger"},
          m \in {"ParentOf", "BornAt", "Rich", "Called", "RichYounger"} } \cup
    { << Vertex(<<"Rich">>, {}, "net_worth" :> {TagFilter("t", "mine"), Output("out")}) >>,
      << Vertex(<<"Called">>, {ArgumentFilter("other", "name")}, "name" :> {Output("out")}) >>,
      << Vertex(<<"Grandparent">>, {Directive("optional", {}, {}, "")},
                "name" :> {Output("out")}) >>,
      << Coerced([Vertex(<<"Entity">>, {}, "name" :> {Output("out")}) EXCEPT !.type = "Entity"],
                 "Food", {ArgumentFilter("other", "name")}) >>,
      << Coerced(Vertex(<<"Entity">>, {}, "name" :> {Output("out")}), "Animal", {}) >>
          \o At(<<"Entity">>, Leaf("Grandparent")),
      << Coerced(Vertex(<<"Food">>, {}, "name" :> {Output("out")}), "Food", {}) >>,
      << Coerced(Vertex(<<"Food">>, {}, "name" :> {Output("out")}), "Entity", {}) >> }

RootFields ==
    { "name" :> {Output("root")},
      "net_worth" :> {Output("root")},
      "birthday" :> {Tag("t", "mine")},
      "birthday" :> {Tag("t", "mine")} @@ "color" :> {Directive("tag", {<<"t", 0>>}, {}, "")} }

Query(tree) == [ast |-> tree, query_args |-> ParametersUsed(AllDirectives(tree))]

Followers ==
    {<<>>} \cup {Leaf(n) : n \in {"ParentOf", "Called", "RichYounger"}}
      \cup {Under("Rich", "name" :> {Output("then")}, Leaf("Grandparent"))}

(* The root with one subtree after another.                                   *)
AllQueries ==
    {q \in {Query(<<Vertex(<<>>, {}, f)>> \o s \o t) :
               f \in RootFields, s \in Subtrees, t \in Followers} :
        WellTagged(q.ast) /\ Mergeable(q.ast)}

=============================================================================
