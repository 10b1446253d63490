--------------------------- MODULE FilterOperators --------------------------
(***************************************************************************)
(* The @filter operators (compiler/filters.py): which types each applies   *)
(* to, which arguments it takes, how an argument is represented in the     *)
(* intermediate representation, and when a value passes.                   *)
(*                                                                         *)
(* A type is a record of a name and of whether it is a list of that name;  *)
(* non-null wrappers are stripped.  What a filter is put on is a target:   *)
(* the type, whether it is a vertex, and the property types of a vertex.   *)
(* The signatures of an operator are the sequences of argument types it    *)
(* accepts on a target: the empty set when it cannot be applied there.     *)
(***************************************************************************)
EXTENDS QueryLocations, FiniteSets

CONSTANT NULL   \* the value of a property, or a vertex, that is not there

Scalar(name) == [name |-> name, list |-> FALSE]
ListOf(type) == [type EXCEPT !.list = TRUE]
ElementOf(type) == [type EXCEPT !.list = FALSE]
StringType == Scalar("String")
IntType == Scalar("Int")

COMPARISON_OPERATORS == {"=", "!=", ">", "<", ">=", "<="}
UNARY_FILTERS == {"is_null", "is_not_null"}
INNER_SCOPE_VERTEX_FIELD_OPERATORS == {"name_or_alias"}
OUTER_SCOPE_VERTEX_FIELD_OPERATORS == {"has_edge_degree"}

(***************************************************************************)
(* Signatures, one definition for each processing function                 *)
(***************************************************************************)
ScalarLeafOnly(target, signatures) ==
  IF target.vertex \/ target.type.list THEN {} ELSE signatures

VertexFieldOnly(target, signatures) ==
  IF target.vertex THEN signatures ELSE {}

Comparison(target) == ScalarLeafOnly(target, {<<target.type>>})

HasEdgeDegree(target) == VertexFieldOnly(target, {<<IntType>>})

\* A union has no fields of its own, so it is never a target here.
NameOrAlias(target) ==
  LET fields == target.fields IN
  VertexFieldOnly(target,
    IF {"name", "alias"} \subseteq DOMAIN fields
    THEN {<<type>> : type \in {fields["name"]} \cap {ElementOf(fields["alias"])}}
    ELSE {})

Between(target) == ScalarLeafOnly(target, {<<target.type, target.type>>})

InCollection(target) == ScalarLeafOnly(target, {<<ListOf(target.type)>>})

NotInCollection(target) == ScalarLeafOnly(target, {<<ListOf(target.type)>>})

OnStrings(target) ==
  ScalarLeafOnly(target, {<<type>> : type \in {target.type} \cap {StringType}})

HasSubstring(target) == OnStrings(target)
EndsWith(target) == OnStrings(target)
StartsWith(target) == OnStrings(target)

OnLists(target, signature) == IF target.type.list THEN {signature} ELSE {}

ContainsElement(target) == OnLists(target, <<ElementOf(target.type)>>)
NotContainsElement(target) == OnLists(target, <<ElementOf(target.type)>>)
Intersects(target) == OnLists(target, <<target.type>>)

\* No check of the type: a vertex field is accepted too.
IsNull(target) == {<<>>}
IsNotNull(target) == {<<>>}

Signatures(op, target) ==
  CASE op \in COMPARISON_OPERATORS -> Comparison(target)
    [] op = "name_or_alias"        -> NameOrAlias(target)
    [] op = "has_edge_degree"      -> HasEdgeDegree(target)
    [] op = "between"              -> Between(target)
    [] op = "in_collection"        -> InCollection(target)
    [] op = "not_in_collection"    -> NotInCollection(target)
    [] op = "has_substring"        -> HasSubstring(target)
    [] op = "starts_with"          -> StartsWith(target)
    [] op = "ends_with"            -> EndsWith(target)
    [] op = "contains"             -> ContainsElement(target)
    [] op = "not_contains"         -> NotContainsElement(target)
    [] op = "intersects"           -> Intersects(target)
    [] op = "is_null"              -> IsNull(target)
    [] op = "is_not_null"          -> IsNotNull(target)
    [] OTHER                       -> {}

(***************************************************************************)
(* Arguments: a runtime parameter ("$"), a tag ("%") or a literal, which   *)
(* is never allowed.  inputs and tags are what the compilation has         *)
(* inferred and recorded so far.                                           *)
(***************************************************************************)
ArgumentIsLegal(argument, type, inputs, tags) ==
  \/ /\ argument.kind = "$"
     /\ argument.name \in DOMAIN inputs => inputs[argument.name] = type
  \/ /\ argument.kind = "%"
     /\ argument.name \in DOMAIN tags
     /\ tags[argument.name].type = type

\* A slip: the existence check is left out of a tag's representation.
RepresentUnguarded(argument, location, tags) ==
  IF argument.kind = "$"
  THEN [kind |-> "Variable", name |-> argument.name,
        at |-> NoLocation, unlessMissing |-> NoLocation]
  ELSE [kind |-> "ContextField", name |-> tags[argument.name].field,
        at |-> tags[argument.name].location, unlessMissing |-> NoLocation]

\* _represent_argument.  unlessMissing is the location in the non-existence
\* expression; a tag of the filtered vertex itself never needs one.
Represent(argument, location, tags) ==
  IF argument.kind = "$"
  THEN [kind |-> "Variable", name |-> argument.name,
        at |-> NoLocation, unlessMissing |-> NoLocation]
  ELSE LET tag == tags[argument.name] IN
       IF tag.location = location
       THEN [kind |-> "LocalField", name |-> tag.field,
             at |-> NoLocation, unlessMissing |-> NoLocation]
       ELSE [kind |-> "ContextField", name |-> tag.field, at |-> tag.location,
             unlessMissing |-> IF tag.optional THEN tag.location
                                               ELSE NoLocation]

\* process_filter_directive up to the call of the processing function.
FilterIsLegal(filter, target, onFragment, inputs, tags) ==
  /\ onFragment => filter.op \in INNER_SCOPE_VERTEX_FIELD_OPERATORS
  /\ \E signature \in Signatures(filter.op, target) :
       /\ Len(filter.args) = Len(signature)
       /\ \A i \in DOMAIN signature :
            ArgumentIsLegal(filter.args[i], signature[i], inputs, tags)
  /\ filter.op = "has_edge_degree" => filter.args[1].kind = "$"

InferredInputs(filter, target, inputs) ==
  LET signature == CHOOSE s \in Signatures(filter.op, target) : TRUE
      named == {i \in DOMAIN filter.args : filter.args[i].kind = "$"}
  IN  [name \in DOMAIN inputs \cup {filter.args[i].name : i \in named} |->
         IF name \in DOMAIN inputs THEN inputs[name]
         ELSE signature[CHOOSE i \in named : filter.args[i].name = name]]

FilterBlock(filter, field, location, tags) ==
  [kind |-> "Filter", op |-> filter.op, field |-> field, at |-> NoLocation,
   args |-> [i \in DOMAIN filter.args |->
               Represent(filter.args[i], location, tags)]]

(***************************************************************************)
(* What the emitted expressions compute.  A string is a sequence, a list a *)
(* set.  As in SQL, no comparison holds of NULL.  has_edge_degree and      *)
(* name_or_alias are given the degree, and the name with the aliases.      *)
(***************************************************************************)
ContainsSubstring(string, part) ==
  \E i \in 1..(Len(string) + 1) :
    /\ i + Len(part) - 1 <= Len(string)
    /\ SubSeq(string, i, i + Len(part) - 1) = part

Compares(op, value, argument) ==
  CASE op = "="  -> value = argument
    [] op = "!=" -> value # argument
    [] op = ">"  -> value > argument
    [] op = "<"  -> value < argument
    [] op = ">=" -> value >= argument
    [] op = "<=" -> value <= argument

\* The clause that the i-th argument contributes to the predicate.
ClauseHolds(op, i, value, argument) ==
  /\ value # NULL /\ argument # NULL
  /\ CASE op \in COMPARISON_OPERATORS -> Compares(op, value, argument)
       [] op = "between" -> Compares(IF i = 1 THEN ">=" ELSE "<=", value, argument)
       [] op = "in_collection" -> value \in argument
       [] op = "not_in_collection" -> value \notin argument
       [] op = "has_substring" -> ContainsSubstring(value, argument)
       [] op = "starts_with" -> /\ Len(argument) <= Len(value)
                                /\ SubSeq(value, 1, Len(argument)) = argument
       [] op = "ends_with" -> /\ Len(argument) <= Len(value)
                              /\ SubSeq(value, Len(value) - Len(argument) + 1,
                                        Len(value)) = argument
       [] op = "contains" -> argument \in value
       [] op = "not_contains" -> argument \notin value
       [] op = "intersects" -> value \cap argument # {}
       [] op = "has_edge_degree" -> value = argument
       [] op = "name_or_alias" -> argument = value.name \/ argument \in value.alias

UnaryHolds(op, value) == IF op = "is_null" THEN value = NULL ELSE value # NULL
=============================================================================
