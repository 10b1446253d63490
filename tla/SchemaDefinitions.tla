-------------------------- MODULE SchemaDefinitions --------------------------
(* GraphQL schemas as schema_transformation takes and makes them.             *)
(*                                                                            *)
(* A schema is the sequence of its definitions.  A definition has a kind, a   *)
(* name, fields (a field is a name and the type it leads to, NonNull and List *)
(* stripped), and refs: the interfaces of an object type, the members of a    *)
(* union.                                                                     *)
EXTENDS Integers, FiniteSets, Sequences, SequencesExt, TLC

CONSTANTS
    ValidNames,         \* names that are valid and not reserved
    BuiltinScalars,     \* builtin_scalar_type_names
    NULL                \* Python's None

With(map, key, value) ==
    [x \in DOMAIN map \cup {key} |-> IF x = key THEN value ELSE map[x]]
Lookup(map, key, default) == IF key \in DOMAIN map THEN map[key] ELSE default

NamesOf(definitions) == {definitions[i].name : i \in DOMAIN definitions}
FieldNames(node) == {f.name : f \in node.fields}
(* Names of types that occur below a definition.                              *)
References(node) == {f.type : f \in node.fields} \cup node.refs

DefinitionsNamed(definitions, n) ==
    {definitions[i] : i \in {j \in DOMAIN definitions : definitions[j].name = n}}

(* What build_ast_schema asks: types, and fields of a type, are defined once, *)
(* and what is referred to is defined.                                        *)
Builds(definitions) ==
    /\ \A i, j \in DOMAIN definitions : definitions[i].name = definitions[j].name => i = j
    /\ \A i \in DOMAIN definitions : LET node == definitions[i] IN
          /\ References(node) \subseteq NamesOf(definitions) \cup BuiltinScalars
          /\ \A f, g \in node.fields : f.name = g.name => f = g

(* A valid schema that rename_schema and merge_schemas accept: types and      *)
(* unions are not empty, implementers have what their interfaces have, names  *)
(* are valid, and root fields are named like their types.                     *)
IsValidSchema(definitions, query_type) ==
    /\ Builds(definitions)
    /\ \A i \in DOMAIN definitions : LET node == definitions[i] IN
          /\ node.kind \in {"object", "interface"} => node.fields # {}
          /\ node.kind = "union" => node.refs # {}
          /\ \A r \in node.refs : \A target \in DefinitionsNamed(definitions, r) :
                IF node.kind = "union" THEN target.kind = "object"
                ELSE target.kind = "interface" /\ target.fields \subseteq node.fields
    /\ NamesOf(definitions) \subseteq ValidNames
    /\ NamesOf(definitions) \cap BuiltinScalars = {}
    /\ query_type \in NamesOf(definitions)
    /\ \A node \in DefinitionsNamed(definitions, query_type) :
          node.kind = "object" /\ \A f \in node.fields : f.name = f.type
=============================================================================
