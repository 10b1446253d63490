---------------------------- MODULE RenameQuery -----------------------------
(* rename_query (graphql_compiler/schema_transformation): a query against the *)
(* renamed schema is put back into the names of the original schema.  One     *)
(* visitor walks over the query and keeps a stack of the types it is in.      *)
(*                                                                            *)
(* The query is read node by node as the visitor gets to it: a field or an    *)
(* inline fragment is entered, or the last one entered is left.  Its nodes    *)
(* are those that are valid against the renamed schema at that place.         *)
EXTENDS RenameSchema

CONSTANT MaxNodes     \* bound: nodes entered in a query

VARIABLES
    query,               \* the nodes entered and left so far, root fields and others
    open,                \* the nodes the visitor is in
    current_type_name,   \* the visitor's stack
    translated,          \* what each of query is in the result: a name, or NULL on leaving
    verdict              \* "reading", "done", or what was raised

query_vars == <<query, open, current_type_name, translated, verdict>>
vars == <<schema_vars, query_vars>>

-----------------------------------------------------------------------------
(* What may be written: `scope` is the type whose selections are written.     *)

Scope == IF open = <<>> THEN QueryType ELSE Last(open).type
TypeNamed(t) == CHOOSE node \in DefinitionsNamed(renamed, t) : TRUE
HasSelections(t) ==
    \E node \in DefinitionsNamed(renamed, t) : node.kind \in {"object", "interface", "union"}

CoercionsFrom(t) ==
    {u \in NamesOf(renamed) :
        /\ TypeNamed(u).kind = "object"
        /\ \/ u = t
           \/ TypeNamed(t).kind = "interface" /\ t \in TypeNamed(u).refs
           \/ TypeNamed(t).kind = "union" /\ u \in TypeNamed(t).refs}

(* Nodes entered so far.                                                      *)
Size == Cardinality({i \in DOMAIN query : query[i].event # "leave"})
MayEnter == verdict = "reading" /\ outcome = "done" /\ Size < MaxNodes

-----------------------------------------------------------------------------
(* The visitor *)

FieldOf(t, f) == {x \in TypeNamed(t).fields : x.name = f}

(* A slip: the type of the field is taken for the type it is a field of.      *)
TranslatedByOwnType(stack, f) ==
    Lookup(Lookup(reverse_field_name_map, Lookup(reverse_name_map, Last(stack), Last(stack)),
                  << >>), f, f)

(* _rename_name for a field below the root, with its own type on the stack.   *)
TranslatedField(stack, f) ==
    LET t == stack[Len(stack) - 1]
    IN  Lookup(Lookup(reverse_field_name_map, Lookup(reverse_name_map, t, t), << >>), f, f)

Entered(event, name, type, stack, name_in_result) ==
    /\ query' = Append(query, [event |-> event, name |-> name, scope |-> Scope])
    /\ open' = Append(open, [event |-> event, type |-> type])
    /\ current_type_name' = stack
    /\ translated' = Append(translated, name_in_result)
    /\ UNCHANGED <<schema_vars, verdict>>

RaiseAt(field) ==
    /\ query' = Append(query, [event |-> "field", name |-> field, scope |-> Scope])
    /\ verdict' = "AssertionError"
    /\ UNCHANGED <<schema_vars, open, current_type_name, translated>>

(* enter_field, at the root                                                   *)
EnterRootField ==
    /\ MayEnter /\ open = <<>>
    /\ \E f \in TypeNamed(QueryType).fields :
          Entered("root", f.name, f.type, Append(current_type_name, f.name),
                  Lookup(reverse_name_map, f.name, f.name))

(* enter_field, below the root: the top of the stack must have fields; the    *)
(* type of the field is put on it if it is found there.                       *)
EnterField ==
    /\ MayEnter /\ open # <<>> /\ HasSelections(Scope)
    /\ \E f \in TypeNamed(Scope).fields :
          LET top == Last(current_type_name)
              found == IF HasSelections(top) THEN FieldOf(top, f.name) ELSE {}
              stack == IF found = {} THEN current_type_name
                       ELSE Append(current_type_name, (CHOOSE x \in found : TRUE).type)
          IN  IF ~HasSelections(top) \/ TypeNamed(top).kind = "union" THEN RaiseAt(f.name)
              ELSE Entered("field", f.name, f.type, stack, TranslatedField(stack, f.name))

(* enter_named_type: the type of an inline fragment is put on the stack.      *)
EnterInlineFragment ==
    /\ MayEnter /\ open # <<>> /\ HasSelections(Scope)
    /\ \E t \in CoercionsFrom(Scope) :
          Entered("fragment", t, t, Append(current_type_name, t), Lookup(reverse_name_map, t, t))

(* leave_field takes a type off the stack; nothing does on leaving an inline  *)
(* fragment.  What has selections has at least one.                           *)
Leave ==
    /\ verdict = "reading" /\ open # <<>>
    /\ HasSelections(Scope) => Last(query).event = "leave"
    /\ query' = Append(query, [event |-> "leave", name |-> Last(open).event, scope |-> Scope])
    /\ open' = Front(open)
    /\ current_type_name' = IF Last(open).event = "fragment" THEN current_type_name
                            ELSE Front(current_type_name)
    /\ translated' = Append(translated, NULL)
    /\ UNCHANGED <<schema_vars, verdict>>

(* The visit is over.                                                         *)
LeaveQuery ==
    /\ verdict = "reading" /\ open = <<>> /\ query # <<>>
    /\ verdict' = "done"
    /\ UNCHANGED <<schema_vars, query, open, current_type_name, translated>>

Init ==
    /\ SchemaInit
    /\ query = <<>> /\ open = <<>> /\ current_type_name = <<>> /\ translated = <<>>
    /\ verdict = "reading"

Rename == SchemaNext /\ UNCHANGED query_vars

Next ==
    \/ Rename \/ EnterRootField \/ EnterField \/ EnterInlineFragment \/ Leave
    \/ LeaveQuery

Spec == Init /\ [][Next]_vars

-----------------------------------------------------------------------------
(* Properties *)

(* What the name of a node stands for, said of the renamings.                 *)
Meant(n) ==
    LET original(t) == CHOOSE u \in NamesOf(schema) \cup BuiltinScalars :
                          NewTypeName(u) = t /\ Kept(u)
        node == CHOOSE d \in DefinitionsNamed(schema, original(n.scope)) : TRUE
    IN  IF n.event = "fragment" \/ n.scope = QueryType THEN original(n.name)
        ELSE CHOOSE f \in FieldNames(node) :
                IF node.kind = "object" THEN n.name \in NewFieldNames(node.name, f)
                ELSE n.name = f

(* "All type names (including ones in type coercions) and field names will be *)
(* renamed": each name becomes the one it stands for in the original schema.  *)
NamesAreTranslated ==
    /\ verdict \in {"reading", "done"}
    /\ translated = [i \in DOMAIN query |->
                        IF query[i].event = "leave" THEN NULL ELSE Meant(query[i])]

(* A vertex field that comes after one with a type coercion inside, or any    *)
(* field that comes after an inline fragment, but for root fields.            *)
FieldAfterCoercion ==
    \E i, j \in DOMAIN query :
        /\ i < j /\ query[i].event = "leave" /\ query[i].name = "fragment"
        /\ query[j].event = "field"

(* A root field that is not at the root, where a field led to the query type: *)
(* _rename_name knows a root field by its nesting only.                       *)
RootFieldBelowRoot ==
    \E i \in DOMAIN query :
        query[i].event = "field" /\ query[i].scope = QueryType

(* The same, as long as the stack has not been left with a type too many and  *)
(* root fields are at the root.                                               *)
NamesAreTranslatedBeforeCoercions ==
    FieldAfterCoercion \/ RootFieldBelowRoot \/ NamesAreTranslated
=============================================================================
