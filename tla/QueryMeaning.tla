---------------------------- MODULE QueryMeaning ----------------------------
(***************************************************************************)
(* The abstract specification of the compiler: which queries are legal,    *)
(* and what a query means, both said of the query as a tree, without the   *)
(* walk, the context, the locations and the blocks of the front end.       *)
(*                                                                         *)
(* The rules for legal queries are the constraints that are listed in      *)
(* docs/source/language_specification/query_directives.rst and, for what   *)
(* it does not speak of, those of tests/test_ir_generation_errors.py.      *)
(*                                                                         *)
(* A match assigns a place to every vertex field outside folds, and to     *)
(* every fold the set of its own matches.                                  *)
(***************************************************************************)
EXTENDS CompilerFrontend, GraphValues

Under(q, v, directive) == directive \in q[v].directives

\* The vertex fields that v is nested in.
Ancestors(q, v) ==
  LET anc[w \in DOMAIN q] ==
        IF w = 1 THEN {} ELSE {q[w].parent} \cup anc[q[w].parent]
  IN  anc[v]

Within(q, v, directive) == \E a \in Ancestors(q, v) : Under(q, a, directive)

\* The outermost vertex field of the fold that v belongs to, or 0.
FoldOf(q, v) ==
  LET roots == {a \in Ancestors(q, v) \cup {v} : a > 1 /\ Under(q, a, "fold")}
  IN  IF roots = {} THEN 0 ELSE CHOOSE a \in roots : TRUE

InOptional(q, v) == Within(q, v, "optional") \/ (v > 1 /\ Under(q, v, "optional"))

CoercedTypes(q, v) ==
  {q[v].fragments[i].type : i \in DOMAIN q[v].fragments}

\* The type of v where its fields are selected, and where v itself is entered.
TypeWithin(q, v) ==
  LET type[w \in DOMAIN q] ==
        LET fragments == q[w].fragments IN
        IF fragments # <<>> THEN fragments[Len(fragments)].type
        ELSE IF w = 1 THEN q[1].edge
             ELSE VertexFieldType(type[q[w].parent], q[w].edge)
  IN  type[v]

TypeEntered(q, v) ==
  IF v = 1 THEN q[1].edge ELSE VertexFieldType(TypeWithin(q, q[v].parent), q[v].edge)

(***************************************************************************)
(* Legal queries: the rules that the front end sees to                     *)
(***************************************************************************)
AllProperties(q) ==
  UNION {{<<v, i>> : i \in DOMAIN q[v].properties} : v \in DOMAIN q}

PropertyAtPosition(q, p) == q[p[1]].properties[p[2]]

Tagged(q) == {p \in AllProperties(q) : PropertyAtPosition(q, p).tag # ""}
Outputs(q) == {p \in AllProperties(q) : PropertyAtPosition(q, p).output # ""}

\* Every filter of the query, with the vertex field where it is evaluated, what
\* it is put on and whether the tags of that very vertex field are known to it.
FiltersOf(q) ==
  LET Placed(filters, at, target, onFragment, own) ==
        {[filter |-> filters[i], at |-> at, target |-> target,
          onFragment |-> onFragment, own |-> own] : i \in DOMAIN filters}
      OnVertex(v) == [vertex |-> TRUE, type |-> Scalar(TypeEntered(q, v)),
                      fields |-> PropertyTypes[TypeEntered(q, v)]]
      FromOutside(v) == [vertex |-> TRUE, fields |-> <<>>,
        type |-> Scalar(VertexFieldTypes[TypeWithin(q, q[v].parent)][q[v].edge])]
      OnFragment(v, i) == [vertex |-> TRUE, type |-> Scalar(q[v].fragments[i].type),
                           fields |-> PropertyTypes[q[v].fragments[i].type]]
      OnProperty(p) == [vertex |-> FALSE, fields |-> <<>>,
        type |-> PropertyType(TypeWithin(q, p[1]), PropertyAtPosition(q, p).name)]
  IN  UNION {Placed(SelectSeq(q[v].filters, LAMBDA f : ~IsOuterScope(f)),
                    v, OnVertex(v), FALSE, FALSE) : v \in DOMAIN q}
      \cup UNION {Placed(SelectSeq(q[v].filters, IsOuterScope),
                         q[v].parent, FromOutside(v), FALSE, FALSE)
                  : v \in DOMAIN q \ {1}}
      \cup UNION {Placed(q[v].fragments[i].filters, v, OnFragment(v, i), TRUE, FALSE)
                  : <<v, i>> \in {p \in (DOMAIN q) \X (1..3) :
                                    p[2] \in DOMAIN q[p[1]].fragments}}
      \cup UNION {Placed(PropertyAtPosition(q, p).filters, p[1], OnProperty(p), FALSE, TRUE)
                  : p \in AllProperties(q)}

TagArguments(filter) ==
  {filter.args[i].name : i \in {j \in DOMAIN filter.args : filter.args[j].kind = "%"}}

\* The types a filter's arguments must have, given its operator and target.
SignatureOf(f) == CHOOSE s \in Signatures(f.filter.op, f.target) : TRUE

IsSigned(f) ==
  /\ Signatures(f.filter.op, f.target) # {}
  /\ Len(f.filter.args) = Len(SignatureOf(f))

FiltersAreLegal(q) ==
  LET filters == FiltersOf(q)
      TypesOf(name) ==
        UNION {{SignatureOf(f)[i] : i \in {j \in DOMAIN f.filter.args :
                  f.filter.args[j] = [kind |-> "$", name |-> name]}}
               : f \in {g \in filters : IsSigned(g)}}
  IN  /\ \A f \in filters :
           /\ f.onFragment => f.filter.op = "name_or_alias"
           /\ f.filter.op = "has_edge_degree" => TagArguments(f.filter) = {}
           /\ IsSigned(f)
           /\ \A i \in DOMAIN f.filter.args :
                LET argument == f.filter.args[i] IN
                CASE argument.kind = "$" -> Cardinality(TypesOf(argument.name)) = 1
                  [] argument.kind = "%" ->
                       \E p \in Tagged(q) :
                         LET tagged == PropertyAtPosition(q, p) IN
                         /\ tagged.tag = argument.name
                         /\ p[1] <= f.at
                         /\ PropertyType(TypeWithin(q, p[1]), tagged.name)
                              = SignatureOf(f)[i]
                  [] OTHER -> FALSE

TagsAreLegal(q) ==
  /\ \A p \in Tagged(q) :
       /\ PropertyAtPosition(q, p).filters = <<>>
       /\ PropertyAtPosition(q, p).name # COUNT
       /\ FoldOf(q, p[1]) = 0
       /\ \E f \in FiltersOf(q) : PropertyAtPosition(q, p).tag \in TagArguments(f.filter)
  /\ \A p, r \in Tagged(q) :
       PropertyAtPosition(q, p).tag = PropertyAtPosition(q, r).tag => p = r

OutputsAreLegal(q) ==
  /\ Outputs(q) # {}
  /\ \A p, r \in Outputs(q) :
       PropertyAtPosition(q, p).output = PropertyAtPosition(q, r).output => p = r
  /\ \A p \in AllProperties(q) :
       /\ ~PropertyAtPosition(q, p).vertex_only
       /\ PropertyAtPosition(q, p).name = COUNT => FoldOf(q, p[1]) # 0

HasOutput(q, v) == \E p \in Outputs(q) : p[1] = v

FiltersCount(q, v) ==
  \E i \in DOMAIN q[v].properties :
    q[v].properties[i].name = COUNT /\ q[v].properties[i].filters # <<>>

\* A fold has an effect, and what it collects is at the vertex field it ends at.
FoldsAreLegal(q) ==
  \A f \in {v \in DOMAIN q \ {1} : Under(q, v, "fold")} :
    LET members == {v \in DOMAIN q : FoldOf(q, v) = f}
        collected == {v \in members : HasOutput(q, v) \/ FiltersCount(q, v)}
    IN  /\ collected # {}
        /\ \A v \in collected, w \in members : w <= v

\* A coercion hides the directive of the vertex field it is in from the compiler.
OutputSources(q) ==
  {v \in DOMAIN q : Under(q, v, "output_source") /\ q[v].fragments = <<>>}

VertexFieldIsLegal(q, v) ==
  LET directives == q[v].directives
      scopes == directives \cap {"fold", "optional", "recurse", "output_source"}
  IN  /\ "fold" \in scopes => scopes = {"fold"}
      /\ "optional" \in scopes => scopes = {"optional"}
      /\ Within(q, v, "fold") => scopes = {}
      /\ Within(q, v, "optional") => scopes \cap {"fold", "output_source"} = {}
      /\ "recurse" \in scopes =>
           /\ q[v].depth >= 1
           /\ RecurseTypesAreLegal(TypeWithin(q, q[v].parent), TypeEntered(q, v))
      /\ \A s \in OutputSources(q) : s < v => "fold" \in scopes

KeepsEnforcedRules(q) ==
  /\ \A v \in DOMAIN q : SelectionIsLegal(q, v)
  /\ q[1].fragments = <<>> /\ q[1].directives \subseteq {"output_source"}
  /\ \A i \in DOMAIN q[1].filters : ~IsOuterScope(q[1].filters[i])
  /\ \A v \in DOMAIN q :
       q[v].fragments = <<>> => q[v].directives \cap {"tag", "output"} = {}
  /\ Cardinality(OutputSources(q)) <= 1
  /\ \A v \in DOMAIN q \ {1} : VertexFieldIsLegal(q, v)
  /\ FiltersAreLegal(q) /\ TagsAreLegal(q) /\ OutputsAreLegal(q) /\ FoldsAreLegal(q)

(***************************************************************************)
(* Legal queries: the rules that are only in the documentation             *)
(***************************************************************************)
\* @recurse is not used within a scope marked @optional (query_directives.rst:626).
RecursesOutsideOptionals(q) ==
  \A v \in DOMAIN q : Under(q, v, "recurse") => ~Within(q, v, "optional")

\* A scope in a fold, its own included, has at most one vertex field (:200).
ExpandsOneFieldInFolds(q) ==
  \A v \in DOMAIN q : FoldOf(q, v) # 0 => Len(Children(q, v)) <= 1

\* Null checks are applied on property fields (:1148 and :1171).
ChecksPropertiesForNull(q) ==
  \A f \in FiltersOf(q) : f.filter.op \in UNARY_FILTERS => ~f.target.vertex

\* The output source is the last vertex field (:762).
EndsInOutputSource(q) ==
  \A v \in DOMAIN q : Under(q, v, "output_source") => v = Len(q)

\* @output and @tag are applied to property fields (:140 and :368).
TagsAndOutputsProperties(q) ==
  \A v \in DOMAIN q : q[v].directives \cap {"tag", "output"} = {}

DocumentedRules == {"recurse", "fold", "null", "source", "property"}

BrokenRules(q) ==
  LET kept == [recurse |-> RecursesOutsideOptionals(q), fold |-> ExpandsOneFieldInFolds(q),
               null |-> ChecksPropertiesForNull(q), source |-> EndsInOutputSource(q),
               property |-> TagsAndOutputsProperties(q)]
  IN  {rule \in DocumentedRules : ~kept[rule]}

Legal(q) == KeepsEnforcedRules(q) /\ BrokenRules(q) = {}

(***************************************************************************)
(* Meaning                                                                 *)
(***************************************************************************)
\* The places that v may have when its parent's place is given.
Candidates(q, v, place) ==
  IF place = NULL THEN {NULL}
  ELSE IF Under(q, v, "recurse")
       THEN PlacesWithin(place.vertex, q[v].edge, q[v].depth)
       ELSE LET ends == {Place(w, 0) : w \in Ends(place.vertex, q[v].edge)}
            IN  IF ends = {} /\ Under(q, v, "optional") THEN {NULL} ELSE ends

\* All the ways to give places to the vertex fields in vs, in document order.
Assignments(q, start, vs) ==
  FoldLeft(LAMBDA found, v :
             UNION {{[w \in DOMAIN a \cup {v} |-> IF w = v THEN p ELSE a[w]]
                     : p \in Candidates(q, v, a[q[v].parent])} : a \in found},
           {start}, vs)

MembersInOrder(q, fold) == SelectSeq([i \in DOMAIN q |-> i],
                                     LAMBDA v : v > 1 /\ FoldOf(q, v) = fold)

\* Where the tag is declared.
TagPosition(q, name) ==
  CHOOSE p \in Tagged(q) : PropertyAtPosition(q, p).tag = name

\* A tag in an optional that is not there makes no demand.
ArgumentHolds(q, filter, i, value, a) ==
  LET argument == filter.args[i] IN
  IF argument.kind = "$"
  THEN ClauseHolds(filter.op, i, value, ParameterValues[argument.name])
  ELSE LET p == TagPosition(q, argument.name) IN
       \/ a[p[1]] = NULL
       \/ ClauseHolds(filter.op, i, value,
                      PropertyAt(a[p[1]], PropertyAtPosition(q, p).name))

Demand(q, filter, value, a) ==
  IF filter.op \in UNARY_FILTERS THEN UnaryHolds(filter.op, value)
  ELSE \A i \in DOMAIN filter.args : ArgumentHolds(q, filter, i, value, a)

\* What v demands of its place: its types, its filters, the degree of its edges.
PlaceIsRight(q, v, a) ==
  LET place == a[v]
      Holds(filters, field) ==
        \A i \in DOMAIN filters :
          Demand(q, filters[i], FilteredValue(filters[i].op, field, place), a)
  IN  place # NULL =>
        /\ CoercedTypes(q, v) \subseteq VertexTypes[place.vertex]
        /\ Holds(SelectSeq(q[v].filters, LAMBDA f : ~IsOuterScope(f)), "")
        /\ \A i \in DOMAIN q[v].fragments : Holds(q[v].fragments[i].filters, "")
        /\ \A w \in DOMAIN q : q[w].parent = v =>
             Holds(SelectSeq(q[w].filters, IsOuterScope), q[w].edge)
        /\ \A i \in DOMAIN q[v].properties :
             q[v].properties[i].name # COUNT =>
               Holds(q[v].properties[i].filters, q[v].properties[i].name)

FoldMatches(q, f, a) ==
  {b \in Assignments(q, a, MembersInOrder(q, f)) :
     \A v \in DOMAIN b \ DOMAIN a : PlaceIsRight(q, v, b)}

FoldRoots(q) == {v \in DOMAIN q \ {1} : Under(q, v, "fold")}

\* The size of a fold; empty is what it is when the fold has no match.
Size(matches, empty) == IF matches = {} THEN empty ELSE Cardinality(matches)

Matches(q, empty) ==
  LET outside == {a \in UNION {Assignments(q, [w \in {1} |-> Place(r, 0)],
                                           MembersInOrder(q, 0))
                               : r \in VerticesOf(q[1].edge)} :
                    \A v \in DOMAIN a : PlaceIsRight(q, v, a)}
      SizesAreRight(a) ==
        \A p \in AllProperties(q) :
          LET property == PropertyAtPosition(q, p) IN
          property.name = COUNT =>
            \A i \in DOMAIN property.filters :
              Demand(q, property.filters[i],
                     Size(FoldMatches(q, FoldOf(q, p[1]), a), empty), a)
  IN  {a \in outside : SizesAreRight(a)}

Meaning(q, empty) ==
  LET OutputOf(name) ==
        CHOOSE p \in Outputs(q) : PropertyAtPosition(q, p).output = name
      Value(p, a) ==
        LET field == PropertyAtPosition(q, p).name
            fold == FoldOf(q, p[1])
            Collected(b) == PropertyAt(b[p[1]], field)
        IN  IF fold = 0 THEN PropertyAt(a[p[1]], field)
            ELSE IF field = COUNT THEN Size(FoldMatches(q, fold, a), empty)
                 ELSE CountedBy(FoldMatches(q, fold, a), Collected)
      Row(a) == [name \in {PropertyAtPosition(q, p).output : p \in Outputs(q)} |->
                   Value(OutputOf(name), a)]
  IN  CountedBy(Matches(q, empty), Row)
=============================================================================
