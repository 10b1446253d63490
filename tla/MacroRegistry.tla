--------------------------- MODULE MacroRegistry ---------------------------
(* The registry of macro edges (graphql_compiler/macros).  Macro edges are    *)
(* registered one by one, each at a base class and with a target class, and   *)
(* are inherited by the subclasses of both.                                   *)
EXTENDS Integers, Sequences

CONSTANTS
    Interfaces, ObjectTypes,  \* the classes of the schema
    Implements,        \* Implements[o]: the interfaces object type o implements
    EquivalentUnion,   \* EquivalentUnion[c]: the members of the union class c is
                       \* said to be equivalent to, {} if there is none
    FieldNames,        \* FieldNames[c]: the vertex fields of class c
    ValidExpansions,   \* bodies of macro edges that are valid in isolation
    Definitions        \* the macro edges the caller may try to register

VARIABLES
    macro_edges,           \* the descriptors, in the order of their registration
    macro_edges_at_class,  \* macro_edges_at_class[c][name], for the classes that
                           \* are subclasses of the base class of the macro edge
    macro_edges_to_class,  \* the same for its target class
    outcome                \* how the last call of register_macro_edge ended

registry == <<macro_edges, macro_edges_at_class, macro_edges_to_class>>
vars == <<registry, outcome>>

Classes == Interfaces \cup ObjectTypes

(* compute_subclass_sets                                                      *)
SubclassSets ==
    [c \in Classes |->
        {c} \cup {o \in ObjectTypes : c \in Implements[o]} \cup EquivalentUnion[c]]

(* The name of an edge is its direction and what comes after it.              *)
VertexFieldPrefixes == {"out_", "in_"}
IsVertexFieldName(name) == name[1] \in VertexFieldPrefixes

(* make_reverse_macro_edge_name                                               *)
Reverse(name) == <<IF name[1] = "in_" THEN "out_" ELSE "in_", name[2]>>

Reversed(d) ==
    [base_class_name |-> d.target_class_name, target_class_name |-> d.base_class_name,
     macro_edge_name |-> Reverse(d.macro_edge_name), expansion_ast |-> d.expansion_ast]

ASSUME RegistryAssumption ==
    /\ Interfaces \cap ObjectTypes = {}
    /\ Implements \in [ObjectTypes -> SUBSET Interfaces]
    /\ EquivalentUnion \in [Classes -> SUBSET ObjectTypes]
    /\ \A d \in Definitions :
          /\ d = [base_class_name |-> d.base_class_name,
                  target_class_name |-> d.target_class_name,
                  macro_edge_name |-> d.macro_edge_name,
                  expansion_ast |-> d.expansion_ast]
          /\ d.base_class_name \in Classes
          /\ d.target_class_name \in Classes
          /\ d.macro_edge_name = <<d.macro_edge_name[1], d.macro_edge_name[2]>>

-----------------------------------------------------------------------------
(* Validation *)

(* A slip: the subclasses of the base class are forgotten.                    *)
ValidAtBase(d) ==
    /\ d.expansion_ast \in ValidExpansions
    /\ IsVertexFieldName(d.macro_edge_name)
    /\ d.macro_edge_name \notin FieldNames[d.base_class_name]
    /\ Reverse(d.macro_edge_name) \notin FieldNames[d.target_class_name]

(* get_and_validate_macro_edge_info: the name and its reverse clash with no   *)
(* edge of the schema.                                                        *)
ValidInIsolation(d) ==
    /\ d.expansion_ast \in ValidExpansions
    /\ IsVertexFieldName(d.macro_edge_name)
    /\ \A c \in SubclassSets[d.base_class_name] : d.macro_edge_name \notin FieldNames[c]
    /\ \A c \in SubclassSets[d.target_class_name] :
          Reverse(d.macro_edge_name) \notin FieldNames[c]

(* A slip: only the class itself is looked at.                                *)
FoundInClass(index, class, name) ==
    {index[c][name] : c \in {s \in {class} : name \in DOMAIN index[s]}}

(* The descriptors the two loops over a set of subclasses may find first.     *)
FoundIn(index, class, name) ==
    {index[c][name] : c \in {s \in SubclassSets[class] : name \in DOMAIN index[s]}}
FoundAt(class, name) == FoundIn(macro_edges_at_class, class, name)
FoundTo(class, name) == FoundIn(macro_edges_to_class, class, name)

(* Describing how the class of a macro edge and that of the one it conflicts  *)
(* with are related fails when they are not.                                  *)
DefinitionError(current_type, other_type) ==
    IF \/ current_type = other_type
       \/ current_type \in SubclassSets[other_type]
       \/ other_type \in SubclassSets[current_type]
    THEN "GraphQLInvalidMacroError"
    ELSE "AssertionError"

DefinitionErrors(d) ==
    LET at == FoundAt(d.base_class_name, d.macro_edge_name)
        to == FoundTo(d.target_class_name, d.macro_edge_name)
    IN  IF at # {}
        THEN {DefinitionError(d.base_class_name, e.base_class_name) : e \in at}
        ELSE {DefinitionError(d.target_class_name, e.target_class_name) : e \in to}

(* A slip: any reverse that starts at the target will do.                     *)
ReversalStarts(d, e) == e.base_class_name = d.target_class_name

(* The reverse of d may already be there, if between the very same classes.   *)
ReversalMatches(d, e) ==
    /\ e.base_class_name = d.target_class_name
    /\ e.target_class_name = d.base_class_name

FoundReversals(d) ==
    FoundAt(d.target_class_name, Reverse(d.macro_edge_name))
      \cup FoundTo(d.base_class_name, Reverse(d.macro_edge_name))

(* Whichever descriptor each loop finds, a match or a conflict.               *)
MayPassReversal(d) ==
    /\ LET at == FoundAt(d.target_class_name, Reverse(d.macro_edge_name))
       IN  at = {} \/ \E e \in at : ReversalMatches(d, e)
    /\ LET to == FoundTo(d.base_class_name, Reverse(d.macro_edge_name))
       IN  to = {} \/ \E e \in to : ReversalMatches(d, e)
MayFailReversal(d) == \E e \in FoundReversals(d) : ~ReversalMatches(d, e)

-----------------------------------------------------------------------------
Init ==
    /\ macro_edges = <<>>
    /\ macro_edges_at_class = [c \in Classes |-> <<>>]
    /\ macro_edges_to_class = [c \in Classes |-> <<>>]
    /\ outcome = "created"

RejectInvalid(d) ==
    /\ ~ValidInIsolation(d)
    /\ outcome' = "GraphQLInvalidMacroError"
    /\ UNCHANGED registry

RejectDefinition(d) ==
    /\ ValidInIsolation(d)
    /\ outcome' \in DefinitionErrors(d)
    /\ UNCHANGED registry

RejectReversal(d) ==
    /\ ValidInIsolation(d)
    /\ DefinitionErrors(d) = {}
    /\ MayFailReversal(d)
    /\ outcome' = "GraphQLInvalidMacroError"
    /\ UNCHANGED registry

IndexedReversed(index, classes, d) ==
    [c \in Classes |->
        IF c \in classes
        THEN [n \in DOMAIN index[c] \cup {Reverse(d.macro_edge_name)} |->
                 IF n = Reverse(d.macro_edge_name) THEN d ELSE index[c][n]]
        ELSE index[c]]

(* One more entry in the dictionaries of the given classes.                   *)
Indexed(index, classes, d) ==
    [c \in Classes |->
        IF c \in classes
        THEN [n \in DOMAIN index[c] \cup {d.macro_edge_name} |->
                 IF n = d.macro_edge_name THEN d ELSE index[c][n]]
        ELSE index[c]]

RegisterMacroEdge(d) ==
    /\ ValidInIsolation(d)
    /\ DefinitionErrors(d) = {}
    /\ MayPassReversal(d)
    /\ macro_edges' = Append(macro_edges, d)
    /\ macro_edges_at_class' =
          Indexed(macro_edges_at_class, SubclassSets[d.base_class_name], d)
    /\ macro_edges_to_class' =
          Indexed(macro_edges_to_class, SubclassSets[d.target_class_name], d)
    /\ outcome' = "registered"

Next == \E d \in Definitions :
    RejectInvalid(d) \/ RejectDefinition(d) \/ RejectReversal(d) \/ RegisterMacroEdge(d)

Spec == Init /\ [][Next]_vars

(* get_schema_with_macros: the vertex fields of a class in the new schema, as *)
(* the names they have, each with the class it leads to.                      *)
MacroFields(c) ==
    {<<n, macro_edges_at_class[c][n].target_class_name>> :
        n \in DOMAIN macro_edges_at_class[c]}

-----------------------------------------------------------------------------
(* Properties *)

Registered == {macro_edges[i] : i \in DOMAIN macro_edges}

(* The indexes hold registered macro edges under their own names.             *)
IndexOK(index) ==
    /\ DOMAIN index = Classes
    /\ \A c \in Classes : \A n \in DOMAIN index[c] :
          index[c][n] \in Registered /\ index[c][n].macro_edge_name = n

TypeOK ==
    /\ macro_edges \in Seq(Definitions)
    /\ IndexOK(macro_edges_at_class)
    /\ IndexOK(macro_edges_to_class)
    /\ outcome \in {"created", "registered", "GraphQLInvalidMacroError", "AssertionError"}

ShareSubclass(c, d) == SubclassSets[c] \cap SubclassSets[d] # {}

(* Two macro edges of one name that some class has, or that lead to it.       *)
Rivals(d, e) ==
    /\ d.macro_edge_name = e.macro_edge_name
    /\ \/ ShareSubclass(d.base_class_name, e.base_class_name)
       \/ ShareSubclass(d.target_class_name, e.target_class_name)

(* The reverse of one would be a rival of the other, and not the same edge.   *)
ClashReversed(d, e) == Rivals(Reversed(d), e) /\ ~ReversalMatches(d, e)

Compatible(d, e) == ~Rivals(d, e) /\ ~ClashReversed(d, e)

(* "Any class together with its subclasses may have defined at most one macro *)
(* edge with that name", and be the target of at most one: whatever was tried *)
(* and in whatever order, no class inherits two macro edges of one name, and  *)
(* no two of one name lead to it.                                             *)
OnePerClass ==
    \A i, j \in DOMAIN macro_edges : i # j => ~Rivals(macro_edges[i], macro_edges[j])

(* A registered macro edge is found at each subclass of its base and of its   *)
(* target, and nowhere else: no registration hides an earlier one.            *)
FoundWhereInherited ==
    \A d \in Definitions, c \in Classes :
        LET n == d.macro_edge_name
        IN  /\ n \in DOMAIN macro_edges_at_class[c] /\ macro_edges_at_class[c][n] = d
                 <=> d \in Registered /\ c \in SubclassSets[d.base_class_name]
            /\ n \in DOMAIN macro_edges_to_class[c] /\ macro_edges_to_class[c][n] = d
                 <=> d \in Registered /\ c \in SubclassSets[d.target_class_name]

(* "The reversed macro edge either already exists, or could be defined        *)
(* without violating any of the above rules", also long after registration.   *)
Reversible ==
    \A d \in Registered :
        LET r == Reversed(d)
        IN  \/ \E e \in Registered : e.macro_edge_name = r.macro_edge_name
                                     /\ ReversalMatches(d, e)
            \/ ValidInIsolation(r) /\ DefinitionErrors(r) = {} /\ ~MayFailReversal(r)

(* Which of several conflicting descriptors the loops over a set of class     *)
(* names find first does not decide whether a macro edge is accepted.         *)
VerdictIsDeterministic ==
    \A d \in Definitions :
        DefinitionErrors(d) = {} => ~(MayPassReversal(d) /\ MayFailReversal(d))

(* get_schema_with_macros is total: the new fields clash with no field of the *)
(* class, and a class that implements an interface has its macro edges too.   *)
SchemaWithMacrosIsValid ==
    /\ \A c \in Classes : DOMAIN macro_edges_at_class[c] \cap FieldNames[c] = {}
    /\ \A o \in ObjectTypes : \A c \in Implements[o] : MacroFields(c) \subseteq MacroFields(o)

=============================================================================
