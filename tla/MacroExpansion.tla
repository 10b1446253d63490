--------------------------- MODULE MacroExpansion ---------------------------
(* expand_macros_in_query_ast (graphql_compiler/macros): each vertex field of *)
(* a query that is a macro edge is replaced by the body of the macro edge,    *)
(* with the query's selections merged in at the target.                       *)
(*                                                                            *)
(* An AST is the sequence of its vertices in document order.  A vertex has    *)
(*   path         the vertex fields that lead to it from the root;            *)
(*   type         its class, that of the type coercion if it has one;         *)
(*   coerced      whether its selections are inside of a type coercion;       *)
(*   directives   the directives on the vertex field;                         *)
(*   on_coercion  the directives on the type coercion;                        *)
(*   fields       fields[f]: the directives on property field f, for the      *)
(*                property fields that have any.                              *)
(* A directive has a kind, the name a @tag declares or the names of the tags  *)
(* a @filter uses, the runtime parameters it uses, and the rest of its text.  *)
(* Its `scope` is not in the code and only read by properties: 0 in the query *)
(* and n in the n-th macro edge expanded.                                     *)
EXTENDS Integers, FiniteSets, Sequences, SequencesExt

CONSTANTS
    SubclassSets,        \* SubclassSets[c]: the subclasses of class c
    MacroEdgesAtClass,   \* MacroEdgesAtClass[c][name]: a MacroEdgeDescriptor, with
                         \* the place of @macro_edge_target in its expansion_ast
    Queries              \* [ast, query_args] the caller may ask to expand

VARIABLES
    query,        \* what the caller gave
    ast,          \* the query so far
    query_args,   \* the names of its arguments
    tag_names,    \* names of tags in use
    expansions,   \* how many macro edges were expanded
    outcome       \* "running", "done", or the exception that was raised

vars == <<query, ast, query_args, tag_names, expansions, outcome>>

-----------------------------------------------------------------------------
(* Directives of an AST, by place *)

VertexDirectives(v) == v.directives \cup v.on_coercion
FieldDirectives(v) == UNION {v.fields[f] : f \in DOMAIN v.fields}
DirectivesOf(v) == VertexDirectives(v) \cup FieldDirectives(v)
AllDirectives(a) == UNION {DirectivesOf(a[i]) : i \in DOMAIN a}

TagsDeclared(directives) == UNION {d.tags : d \in {e \in directives : e.kind = "tag"}}
TagsUsed(directives) == UNION {d.tags : d \in {e \in directives : e.kind = "filter"}}
ParametersUsed(directives) == UNION {d.params : d \in directives}

(* get_all_tag_names                                                          *)
AllTagNames(a) == TagsDeclared(AllDirectives(a))

-----------------------------------------------------------------------------
(* Tag names.  A name is a sequence: the given one, then the index of each    *)
(* "_macro_edge_" suffix it got.                                              *)

(* A slip: taken names are not looked at.                                     *)
Unchanged(name, taken) == name

Disambiguation(name, taken) ==
    IF name \notin taken THEN name
    ELSE Append(name, CHOOSE k \in 0..Cardinality(taken) :
                          /\ Append(name, k) \notin taken
                          /\ \A j \in 0..(k - 1) : Append(name, j) \in taken)

(* generate_disambiguations, when the loop over the set new_names takes them  *)
(* in the given order.  A name is compared with the existing names and with   *)
(* the keys of the mapping so far, not with the names they are mapped to.     *)
GenerateDisambiguations(existing_names, order) ==
    [name \in DOMAIN order |->
        Disambiguation(name, existing_names
                               \cup {m \in DOMAIN order : order[m] < order[name]})]

Orders(names) ==
    {order \in [names -> 1..Cardinality(names)] :
        \A m, n \in names : order[m] = order[n] => m = n}

Renamed(directives, change, n) ==
    {[d EXCEPT !.tags = {change[t] : t \in @}, !.scope = n] : d \in directives}

(* replace_tag_names in the body of a macro edge                              *)
ReplaceTagNames(body, change, n) ==
    [i \in DOMAIN body |->
        [body[i] EXCEPT !.directives = Renamed(@, change, n),
                        !.on_coercion = Renamed(@, change, n),
                        !.fields = [f \in DOMAIN @ |-> Renamed(@[f], change, n)]]]

-----------------------------------------------------------------------------
(* Macro edges *)

Parent(path) == SubSeq(path, 1, Len(path) - 1)

(* The vertices that the vertex field a[i] starts from: there is one in an    *)
(* AST.                                                                       *)
Sources(a, i) == {j \in 1..(i - 1) : a[j].path = Parent(a[i].path)}

(* The class at the start of the vertex field a[i].                           *)
StartClass(a, i) == a[CHOOSE j \in Sources(a, i) : TRUE].type

FieldName(v) == v.path[Len(v.path)]

IsMacroEdge(a, i) ==
    /\ Sources(a, i) # {}
    /\ FieldName(a[i]) \in DOMAIN MacroEdgesAtClass[StartClass(a, i)]

MacroEdges(a) == {i \in DOMAIN a : IsMacroEdge(a, i)}

EdgeAt(a, i) == MacroEdgesAtClass[StartClass(a, i)][FieldName(a[i])]

(* The recursion over the selections gets to the macro edges in document      *)
(* order; bodies hold none.                                                   *)
NextMacroEdge(a) == CHOOSE i \in MacroEdges(a) : \A j \in MacroEdges(a) : i <= j

Descriptor(a) == EdgeAt(a, NextMacroEdge(a))

(* The last vertex of the subtree at a[i].                                    *)
LastUnder(a, i) ==
    CHOOSE j \in DOMAIN a :
        /\ IsPrefix(a[i].path, a[j].path)
        /\ \A k \in DOMAIN a : IsPrefix(a[i].path, a[k].path) => k <= j

(* A slip: one dict updates the other.                                        *)
OverwrittenFields(f, g) ==
    [n \in DOMAIN f \cup DOMAIN g |-> IF n \in DOMAIN g THEN g[n] ELSE f[n]]

(* merge_selection_sets: directives on one property field are put together.   *)
MergedFields(f, g) ==
    [n \in DOMAIN f \cup DOMAIN g |->
        (IF n \in DOMAIN f THEN f[n] ELSE {}) \cup (IF n \in DOMAIN g THEN g[n] ELSE {})]

(* A slip: the coercion of the target stays.                                  *)
MergedKeepingType(target, selection) ==
    [target EXCEPT !.directives = @ \cup selection.directives,
                   !.fields = MergedFields(@, selection.fields)]

(* _merge_selection_into_target: the selection's coercion replaces that of    *)
(* the target, and its directives go where its selections go.                 *)
MergedIntoTarget(target, selection) ==
    LET added == IF selection.coerced THEN selection.on_coercion ELSE selection.directives
        inside == target.coerced \/ selection.coerced
    IN  [target EXCEPT !.type = IF selection.coerced THEN selection.type ELSE @,
                       !.coerced = inside,
                       !.directives = IF inside THEN @ ELSE @ \cup added,
                       !.on_coercion = IF inside THEN @ \cup added ELSE @,
                       !.fields = MergedFields(@, selection.fields)]

(* The vertices of a body, or of the query, from one index to another, below  *)
(* another path: the first n steps of their own are taken away.               *)
Replanted(a, from, to, n, path) ==
    [k \in 1..(to - from + 1) |->
        [a[from + k - 1] EXCEPT !.path = path \o SubSeq(@, n + 1, Len(@))]]

(* A slip: siblings of the way to the target are all put before it.           *)
SiblingsFirst(before, way, target, below, selections, siblings, after) ==
    before \o siblings \o way \o <<target>> \o below \o selections \o after

(* The siblings of the way to the target are put where they are in the body:  *)
(* those after it come after the query's own selections under the target.     *)
Arranged(before, way, target, below, selections, siblings, after) ==
    before \o way \o <<target>> \o below \o selections \o siblings \o after

(* _expand_specific_macro_edge, and the merge of what it returns with the     *)
(* selections around the macro edge.  Property fields of the body go to the   *)
(* vertex the macro edge starts from.                                         *)
Expanded(a, body, target) ==
    LET i == NextMacroEdge(a)
        last == LastUnder(a, i)
        below == LastUnder(body, target)
        source == Parent(a[i].path)
        goal == source \o body[target].path
    IN  Arranged(
            [j \in 1..(i - 1) |->
                IF a[j].path = source
                THEN [a[j] EXCEPT !.fields = MergedFields(@, body[1].fields)] ELSE a[j]],
            Replanted(body, 2, target - 1, 0, source),
            MergedIntoTarget([body[target] EXCEPT !.path = goal], a[i]),
            Replanted(body, target + 1, below, 0, source),
            Replanted(a, i + 1, last, Len(a[i].path), goal),
            Replanted(body, below + 1, Len(body), 0, source),
            [j \in 1..(Len(a) - last) |-> a[last + j]])

(* The merge raises when an edge is traversed twice from one vertex, or a     *)
(* property field has two tags.                                               *)
Mergeable(a) ==
    /\ \A j, k \in DOMAIN a : a[j].path = a[k].path => j = k
    /\ \A j \in DOMAIN a : \A f \in DOMAIN a[j].fields :
          \A d, e \in {x \in a[j].fields[f] : x.kind = "tag"} : d = e

ValidCoercion(selection, target_class_name) ==
    selection.coerced => selection.type \in {target_class_name} \cup SubclassSets[target_class_name]

-----------------------------------------------------------------------------
Init ==
    /\ query \in Queries
    /\ ast = query.ast
    /\ query_args = query.query_args
    /\ tag_names = AllTagNames(query.ast)
    /\ expansions = 0
    /\ outcome = "running"

Raise(e) ==
    /\ outcome' = e
    /\ UNCHANGED <<query, ast, query_args, tag_names, expansions>>

(* _ensure_directives_on_macro_edge_are_supported                             *)
RejectDirectives ==
    /\ outcome = "running" /\ MacroEdges(ast) # {}
    /\ \E d \in ast[NextMacroEdge(ast)].directives : d.kind # "filter"
    /\ Raise("GraphQLCompilationError")

Supported ==
    /\ outcome = "running" /\ MacroEdges(ast) # {}
    /\ \A d \in ast[NextMacroEdge(ast)].directives : d.kind = "filter"

RejectCoercion ==
    /\ Supported
    /\ ~ValidCoercion(ast[NextMacroEdge(ast)], Descriptor(ast).target_class_name)
    /\ Raise("GraphQLCompilationError")

(* When both apply, it is left open whether the conflict of selections or     *)
(* that of arguments is found first.  A conflict with selections around the   *)
(* macro edge is raised at once; the code first expands the macro edges below *)
(* and, for a selection after it, in that one, and may raise their errors.    *)
RejectMerge ==
    /\ Supported
    /\ ValidCoercion(ast[NextMacroEdge(ast)], Descriptor(ast).target_class_name)
    /\ LET descriptor == Descriptor(ast)
           same == [t \in AllTagNames(descriptor.expansion_ast) |-> t]
           body == ReplaceTagNames(descriptor.expansion_ast, same, expansions + 1)
       IN  ~Mergeable(Expanded(ast, body, descriptor.target))
    /\ Raise("GraphQLCompilationError")

(* merge_non_overlapping_dicts                                                *)
RejectArguments ==
    /\ Supported
    /\ ValidCoercion(ast[NextMacroEdge(ast)], Descriptor(ast).target_class_name)
    /\ query_args \cap Descriptor(ast).macro_args # {}
    /\ Raise("AssertionError")

ExpandMacroEdge ==
    /\ Supported
    /\ ValidCoercion(ast[NextMacroEdge(ast)], Descriptor(ast).target_class_name)
    /\ query_args \cap Descriptor(ast).macro_args = {}
    /\ LET descriptor == Descriptor(ast)
       IN  \E order \in Orders(AllTagNames(descriptor.expansion_ast)) :
              LET change == GenerateDisambiguations(tag_names, order)
                  body == ReplaceTagNames(descriptor.expansion_ast, change, expansions + 1)
              IN  /\ ast' = Expanded(ast, body, descriptor.target)
                  /\ tag_names' = tag_names \cup {change[t] : t \in DOMAIN change}
                  /\ query_args' = query_args \cup descriptor.macro_args
    /\ Mergeable(ast')
    /\ expansions' = expansions + 1
    /\ UNCHANGED <<query, outcome>>

(* No macro edge is left: the expanded query is returned.                     *)
Return ==
    /\ outcome = "running"
    /\ MacroEdges(ast) = {}
    /\ outcome' = "done"
    /\ UNCHANGED <<query, ast, query_args, tag_names, expansions>>

Next ==
    \/ RejectDirectives \/ RejectCoercion \/ RejectMerge \/ RejectArguments
    \/ ExpandMacroEdge \/ Return

Spec == Init /\ [][Next]_vars /\ WF_vars(Next)

-----------------------------------------------------------------------------
(* Properties *)

IsList(s) == Len(s) \in Nat /\ s = [k \in 1..Len(s) |-> s[k]]

IsDirective(d) ==
    /\ d = [kind |-> d.kind, tags |-> d.tags, params |-> d.params,
            text |-> d.text, scope |-> d.scope]
    /\ d.kind \in {"filter", "tag", "output", "optional", "fold", "recurse", "output_source"}
    /\ d.kind = "tag" => \E t \in d.tags : d.tags = {t}
    /\ d.scope \in Nat

(* Tags are on property fields.                                               *)
IsVertex(v) ==
    /\ v = [path |-> v.path, type |-> v.type, coerced |-> v.coerced,
            directives |-> v.directives, on_coercion |-> v.on_coercion, fields |-> v.fields]
    /\ IsList(v.path)
    /\ v.type \in DOMAIN MacroEdgesAtClass
    /\ v.coerced \in BOOLEAN
    /\ ~v.coerced => v.on_coercion = {}
    /\ \A d \in DirectivesOf(v) : IsDirective(d)
    /\ \A d \in VertexDirectives(v) : d.kind # "tag"

(* Document order: the first vertex is the root, any other comes after its    *)
(* parent, and right after it or after a descendant of its parent.            *)
IsTree(a) ==
    /\ a[1].path = <<>>
    /\ \A j \in 2..Len(a) : a[j].path # <<>> /\ IsPrefix(Parent(a[j].path), a[j - 1].path)

IsAst(a) ==
    /\ IsList(a) /\ a # <<>>
    /\ \A j \in DOMAIN a : IsVertex(a[j])
    /\ IsTree(a)
    /\ IsFiniteSet(AllTagNames(a)) /\ \A t \in AllTagNames(a) : IsList(t)

TagsAreUnique(a) ==
    \A j, k \in DOMAIN a : \A f \in DOMAIN a[j].fields, g \in DOMAIN a[k].fields :
        TagsDeclared(a[j].fields[f]) \cap TagsDeclared(a[k].fields[g]) # {} => j = k /\ f = g

(* What the compiler asks of tags: a name is declared at a vertex before the  *)
(* one that uses it in a filter, or at that very one when it is used in a     *)
(* filter on a field.                                                         *)
TagsPrecedeFilters(a) ==
    \A j \in DOMAIN a :
        LET earlier == UNION {TagsDeclared(DirectivesOf(a[k])) : k \in 1..(j - 1)}
        IN  /\ TagsUsed(VertexDirectives(a[j])) \subseteq earlier
            /\ TagsUsed(FieldDirectives(a[j]))
                   \subseteq earlier \cup TagsDeclared(FieldDirectives(a[j]))

WellTagged(a) == TagsAreUnique(a) /\ TagsPrecedeFilters(a)

Descriptors ==
    UNION {{MacroEdgesAtClass[c][m] : m \in DOMAIN MacroEdgesAtClass[c]} :
              c \in DOMAIN MacroEdgesAtClass}

(* No tag of a macro edge is named like another one with a suffix: if one is, *)
(* both may get the same name, depending on which of them the loop over their *)
(* set takes first.                                                           *)
NamesAreApart ==
    \A d \in Descriptors : \A t, u \in AllTagNames(d.expansion_ast) : Parent(u) # t

(* However macro edges are nested or repeated, the compiler accepts the tags  *)
(* of the expanded query: unique, and declared before they are used.          *)
TagsStayInOrder == NamesAreApart => WellTagged(ast)

(* A filter of the query never reads a tag of a macro edge, and a filter of a *)
(* macro edge reads the tag of its own expansion.                             *)
ScopesDoNotMix ==
    \A d, e \in AllDirectives(ast) :
        d.kind = "filter" /\ e.kind = "tag" /\ e.tags \subseteq d.tags => d.scope = e.scope

Kept(u, v) ==
    /\ \A f \in DOMAIN u.fields : f \in DOMAIN v.fields /\ u.fields[f] \subseteq v.fields[f]
    /\ VertexDirectives(u) \subseteq VertexDirectives(v)

(* "Merging into it everything from the selection_ast": what the query selects *)
(* at one vertex stays at one vertex, below what is selected above it.        *)
EverythingIsMerged ==
    \A j \in DOMAIN query.ast : \E k \in DOMAIN ast :
        \A p \in DOMAIN query.ast : IsPrefix(query.ast[p].path, query.ast[j].path) =>
            \E q \in DOMAIN ast : /\ IsPrefix(ast[q].path, ast[k].path)
                                  /\ Kept(query.ast[p], ast[q])
                                  /\ p = j => q = k

NoFilterBesideCoercion ==
    \A j \in MacroEdges(query.ast) :
        query.ast[j].coerced => query.ast[j].directives = {}

(* The same, but for a filter on a macro edge whose selections are inside of  *)
(* a type coercion.                                                           *)
SelectionsAreMerged == NoFilterBesideCoercion => EverythingIsMerged

(* The arguments returned are those that the returned query uses.             *)
ArgumentsMatch ==
    NoFilterBesideCoercion => query_args = ParametersUsed(AllDirectives(ast))

(* A macro edge of the query is expanded once, wherever the expansion of      *)
(* those around it moves it, and bodies bring no macro edges in.              *)
EachMacroEdgeOnce ==
    expansions + Cardinality(MacroEdges(ast)) = Cardinality(MacroEdges(query.ast))

(* A macro edge leads to vertices of the class of its target.                 *)
MacroEdgesAreTyped(a) ==
    \A i \in MacroEdges(a) : a[i].coerced \/ a[i].type = EdgeAt(a, i).target_class_name

(* A macro edge has no name of a field of a class where it exists, and a      *)
(* class has the fields of those it is a subclass of: the fields of a body    *)
(* are no macro edges, at whatever subclass it is used.                       *)
HoldsNoMacroEdges(body) ==
    \A j \in 2..Len(body) : \A c \in SubclassSets[StartClass(body, j)] :
        FieldName(body[j]) \notin DOMAIN MacroEdgesAtClass[c]

(* Macro edges compile by themselves, their arguments are those they use and  *)
(* they hold no macro edges; so do queries but for the latter.  A macro edge  *)
(* exists at the subclasses of the class its body starts from, where nothing  *)
(* but @macro_edge_definition may be.                                         *)
ASSUME ExpansionAssumption ==
    /\ DOMAIN SubclassSets = DOMAIN MacroEdgesAtClass
    /\ \A c \in DOMAIN SubclassSets : c \in SubclassSets[c]
    /\ \A q \in Queries :
          /\ IsAst(q.ast) /\ WellTagged(q.ast) /\ Mergeable(q.ast)
          /\ MacroEdgesAreTyped(q.ast)
          /\ q.query_args = ParametersUsed(AllDirectives(q.ast))
          /\ \A d \in AllDirectives(q.ast) : d.scope = 0
    /\ \A c \in DOMAIN MacroEdgesAtClass : \A m \in DOMAIN MacroEdgesAtClass[c] :
          c \in SubclassSets[MacroEdgesAtClass[c][m].expansion_ast[1].type]
    /\ \A d \in Descriptors :
          /\ d.target_class_name \in DOMAIN SubclassSets
          /\ d.target \in 2..Len(d.expansion_ast)
          /\ d.expansion_ast[d.target].type = d.target_class_name
          /\ IsAst(d.expansion_ast) /\ WellTagged(d.expansion_ast) /\ Mergeable(d.expansion_ast)
          /\ HoldsNoMacroEdges(d.expansion_ast)
          /\ VertexDirectives(d.expansion_ast[1]) = {}
          /\ d.macro_args = ParametersUsed(AllDirectives(d.expansion_ast))
=============================================================================
