---------------------------- MODULE RenameSchema ----------------------------
(* rename_schema (graphql_compiler/schema_transformation): types of a schema  *)
(* are renamed one to one or suppressed, fields of object types are renamed   *)
(* one to many or suppressed.  One visitor walks over the schema, edits it    *)
(* and only collects what is wrong with the renamings; errors are raised when *)
(* it is through, the most basic kind first.  A second visitor renames the    *)
(* fields of the query type.                                                  *)
EXTENDS SchemaDefinitions

CONSTANTS
    Schemas,            \* the schemas to be renamed
    TypeRenamings,      \* the values type_renamings may have
    FieldRenamings,     \* the values field_renamings may have
    QueryType           \* the name of the query type of every schema

VARIABLES
    schema, type_renamings, field_renamings,   \* the arguments
    entered,        \* how many definitions were entered
    pending,        \* the NamedTypeNodes below the definition still to be entered
    renamed,        \* the definitions of the renamed schema
    visitor,        \* what RenameSchemaTypesVisitor has recorded
    outcome         \* "visiting", "renamed", "done", or what was raised

arguments == <<schema, type_renamings, field_renamings>>
schema_vars == <<arguments, entered, pending, renamed, visitor, outcome>>

-----------------------------------------------------------------------------
(* Renamings *)

Desired(t) == Lookup(type_renamings, t, t)
FieldRenamingsOf(t) == Lookup(field_renamings, t, [f \in {} |-> {}])
NewFieldNames(t, f) == Lookup(FieldRenamingsOf(t), f, {f})

(* The query type and builtin scalars are neither renamed nor suppressed.     *)
IsIdle(t) == t = QueryType \/ t \in BuiltinScalars
IsSuppressed(t) == ~IsIdle(t) /\ Desired(t) = NULL
(* What a NamedTypeNode becomes.                                              *)
NewTypeName(t) == IF IsIdle(t) THEN t ELSE Desired(t)

(* _ensure_no_unsupported_suppressions                                        *)
UnsupportedSuppressions ==
    {i \in DOMAIN schema :
        /\ Desired(schema[i].name) = NULL
        /\ \/ schema[i].kind \in {"enum", "interface"}
           \/ schema[i].kind = "object" /\ schema[i].refs # {}}

(* Fields whose type is suppressed and that are not suppressed themselves.    *)
FieldsToSuppress(node) ==
    {f \in node.fields : Lookup(type_renamings, f.type, f.type) = NULL
                         /\ NewFieldNames(node.name, f.name) # {}}

(* _rename_fields: the fields of an object type that stays.                   *)
RenamedFields(node) ==
    IF FieldsToSuppress(node) # {} THEN node.fields \ FieldsToSuppress(node)
    ELSE UNION {{[f EXCEPT !.name = n] : n \in NewFieldNames(node.name, f.name)} :
                   f \in node.fields}

-----------------------------------------------------------------------------
(* What the visitor records *)

NewVisitor ==
    [reverse_name_map |-> << >>, reverse_field_name_map |-> << >>,
     suppressed_type_names |-> {}, types_with_field_renamings_processed |-> {},
     type_name_conflicts |-> {}, type_renamed_to_builtin_scalar_conflicts |-> {},
     invalid_type_names |-> {}, no_op_field_renamings |-> {}, invalid_field_names |-> {},
     field_name_conflicts |-> {}, types_involving_interfaces_with_field_renamings |-> {},
     object_types_to_suppress |-> {}, union_types_to_suppress |-> {}, fields_to_suppress |-> {}]

(* A slip: a name that its owner keeps is taken for free.                     *)
RecordedUnchanged(v, t) ==
    IF IsIdle(t) THEN v
    ELSE IF Desired(t) = NULL
    THEN [v EXCEPT !.suppressed_type_names = @ \cup {t}]
    ELSE [v EXCEPT !.invalid_type_names = @ \cup ({Desired(t)} \ ValidNames),
                   !.type_name_conflicts =
                       @ \cup {d \in {Desired(t)} : Lookup(v.reverse_name_map, d, t) \notin {t, d}},
                   !.type_renamed_to_builtin_scalar_conflicts =
                       @ \cup ({Desired(t)} \cap BuiltinScalars),
                   !.reverse_name_map = With(@, Desired(t), t)]

(* _rename_or_suppress_or_ignore_name_and_add_to_record, for definitions and  *)
(* for the NamedTypeNodes that refer to them.                                 *)
Recorded(v, t) ==
    IF IsIdle(t) THEN v
    ELSE IF Desired(t) = NULL
    THEN [v EXCEPT !.suppressed_type_names = @ \cup {t}]
    ELSE [v EXCEPT !.invalid_type_names = @ \cup ({Desired(t)} \ ValidNames),
                   !.type_name_conflicts =
                       @ \cup {d \in {Desired(t)} : Lookup(v.reverse_name_map, d, t) # t},
                   !.type_renamed_to_builtin_scalar_conflicts =
                       @ \cup ({Desired(t)} \cap BuiltinScalars),
                   !.reverse_name_map = With(@, Desired(t), t)]

(* The records _rename_fields makes of an object type with field renamings    *)
(* and without fields of suppressed types.                                    *)
RecordedFields(v, node) ==
    LET t == node.name
        new == RenamedFields(node)
        original(n) == CHOOSE f \in FieldNames(node) : n \in NewFieldNames(t, f)
    IN  [v EXCEPT
            !.types_with_field_renamings_processed = @ \cup {t},
            !.types_involving_interfaces_with_field_renamings =
                IF node.refs # {} THEN @ \cup {t} ELSE @,
            !.no_op_field_renamings =
                @ \cup {<<t, f>> : f \in {g \in DOMAIN FieldRenamingsOf(t) :
                            g \notin FieldNames(node) \/ FieldRenamingsOf(t)[g] = {g}}},
            !.field_name_conflicts =
                @ \cup {<<t, n>> : n \in {f.name : f \in
                            {x \in new : Cardinality({g \in FieldNames(node) :
                                             x.name \in NewFieldNames(t, g)}) > 1}}},
            !.invalid_field_names = @ \cup {<<t, f.name>> : f \in {x \in new :
                                                x.name \notin ValidNames}},
            !.object_types_to_suppress = IF new = {} THEN @ \cup {t} ELSE @,
            !.reverse_field_name_map =
                With(@, t, [n \in {f.name : f \in new} |-> original(n)])]

(* All that is recorded on entering (and, for a union, leaving) a definition. *)
RecordedDefinition(v, node) ==
    LET t == node.name
        w == Recorded(v, t)
    IN  IF IsIdle(t) THEN w
        ELSE IF node.kind = "union"
        THEN [w EXCEPT !.union_types_to_suppress =
                           IF \A m \in node.refs : IsSuppressed(m) THEN @ \cup {t} ELSE @]
        ELSE IF node.kind = "interface"
        THEN [w EXCEPT !.types_involving_interfaces_with_field_renamings =
                           IF t \in DOMAIN field_renamings THEN @ \cup {t} ELSE @]
        ELSE IF node.kind # "object" THEN w
        ELSE IF FieldsToSuppress(node) # {}
        THEN [w EXCEPT !.fields_to_suppress = @ \cup {<<t, f.name>> : f \in FieldsToSuppress(node)}]
        ELSE IF t \in DOMAIN field_renamings THEN RecordedFields(w, node)
        ELSE w

(* The definition in the renamed schema: its fields renamed, and what the     *)
(* NamedTypeNodes below it become.  NULL is left where the type of a field    *)
(* was removed; removed members of a union are gone.                          *)
RenamedDefinition(node) ==
    LET fields == IF node.kind = "object" /\ ~IsIdle(node.name)
                  THEN RenamedFields(node) ELSE node.fields
    IN  [node EXCEPT !.name = NewTypeName(@),
                     !.fields = {[f EXCEPT !.type = NewTypeName(@)] : f \in fields},
                     !.refs = {NewTypeName(r) : r \in @} \ {NULL}]

-----------------------------------------------------------------------------
(* Errors, in the order in which _rename_and_suppress_types_and_fields looks  *)
(* for them.                                                                  *)

ChangedNames(map) == {n \in DOMAIN map : map[n] # n}

(* A slip: a type renamed to itself is let pass.                              *)
UnknownTypeRenames == DOMAIN type_renamings \ NamesOf(schema)

NoOpTypeRenames ==
    DOMAIN type_renamings
        \ ({visitor.reverse_name_map[n] : n \in ChangedNames(visitor.reverse_name_map)}
           \cup visitor.suppressed_type_names)

NonexistentTypesWithFieldRenamings ==
    DOMAIN field_renamings \ visitor.types_with_field_renamings_processed

Complaints ==
    << [error |-> "CascadingSuppressionError",
        due |-> \/ visitor.object_types_to_suppress # {} \/ visitor.union_types_to_suppress # {}
                \/ visitor.fields_to_suppress # {}],
       [error |-> "InvalidNameError",
        due |-> visitor.invalid_type_names # {} \/ visitor.invalid_field_names # {}],
       [error |-> "SchemaRenameNameConflictError",
        due |-> \/ visitor.type_name_conflicts # {} \/ visitor.field_name_conflicts # {}
                \/ visitor.type_renamed_to_builtin_scalar_conflicts # {}],
       [error |-> "NotImplementedError",
        due |-> \/ visitor.types_involving_interfaces_with_field_renamings # {}
                \/ BuiltinScalars \cap DOMAIN type_renamings # {}],
       [error |-> "NoOpRenamingError",
        due |-> \/ NoOpTypeRenames # {} \/ visitor.no_op_field_renamings # {}
                \/ NonexistentTypesWithFieldRenamings # {}] >>

Verdict ==
    LET raised == {i \in DOMAIN Complaints : Complaints[i].due}
    IN  IF raised = {} THEN "renamed" ELSE Complaints[Min(raised)].error

(* The reverse maps of the RenamedSchemaDescriptor hold changed names only.   *)
ChangedOnly(map) == [n \in ChangedNames(map) |-> map[n]]
reverse_name_map == ChangedOnly(visitor.reverse_name_map)
reverse_field_name_map ==
    LET all == visitor.reverse_field_name_map
    IN  [t \in {u \in DOMAIN all : ChangedNames(all[u]) # {}} |-> ChangedOnly(all[t])]

-----------------------------------------------------------------------------
SchemaInit ==
    /\ schema \in Schemas
    /\ type_renamings \in TypeRenamings
    /\ field_renamings \in FieldRenamings
    /\ entered = 0
    /\ pending = <<>>
    /\ renamed = <<>>
    /\ visitor = NewVisitor
    /\ outcome = "visiting"

RejectUnsupported ==
    /\ outcome = "visiting" /\ entered = 0
    /\ UnsupportedSuppressions # {}
    /\ outcome' = "NotImplementedError"
    /\ UNCHANGED <<arguments, entered, pending, renamed, visitor>>

CanEnter ==
    /\ outcome = "visiting"
    /\ UnsupportedSuppressions = {}
    /\ pending = <<>> /\ entered < Len(schema)

(* A definition that is suppressed is removed, and not looked into.           *)
SuppressDefinition ==
    /\ CanEnter
    /\ IsSuppressed(schema[entered + 1].name)
    /\ visitor' = Recorded(visitor, schema[entered + 1].name)
    /\ entered' = entered + 1
    /\ UNCHANGED <<arguments, pending, renamed, outcome>>

EnterDefinition ==
    /\ CanEnter
    /\ LET node == schema[entered + 1]
           new == RenamedDefinition(node)
           fields == IF node.kind = "object" /\ ~IsIdle(node.name)
                     THEN RenamedFields(node) ELSE node.fields
       IN  /\ ~IsSuppressed(node.name)
           /\ visitor' = RecordedDefinition(visitor, node)
           /\ renamed' = Append(renamed, new)
           /\ pending' = SetToSeq(References([node EXCEPT !.fields = fields]))
    /\ entered' = entered + 1
    /\ UNCHANGED <<arguments, outcome>>

EnterNamedType ==
    /\ outcome = "visiting" /\ pending # <<>>
    /\ visitor' = Recorded(visitor, Head(pending))
    /\ pending' = Tail(pending)
    /\ UNCHANGED <<arguments, entered, renamed, outcome>>

LeaveSchema ==
    /\ outcome = "visiting"
    /\ UnsupportedSuppressions = {}
    /\ pending = <<>> /\ entered = Len(schema)
    /\ outcome' = Verdict
    /\ UNCHANGED <<arguments, entered, pending, renamed, visitor>>

(* A slip: root fields keep their names.                                      *)
RootFieldsKept(node) == node

(* RenameQueryTypeFieldsVisitor                                               *)
WithRootFieldsRenamed(node) ==
    IF node.name # QueryType THEN node
    ELSE [node EXCEPT !.fields = {[f EXCEPT !.name = Desired(@)] :
                                     f \in {x \in @ : Desired(x.name) # NULL}}]

(* The query type must keep a field; then build_ast_schema builds the schema, *)
(* or raises.                                                                 *)
RenameQueryTypeFields ==
    /\ outcome = "renamed"
    /\ renamed' = [i \in DOMAIN renamed |-> WithRootFieldsRenamed(renamed[i])]
    /\ outcome' = IF \E i \in DOMAIN renamed : renamed[i].kind = "object" /\ renamed'[i].fields = {}
                  THEN "SchemaTransformError"
                  ELSE IF Builds(renamed') THEN "done" ELSE "TypeError"
    /\ UNCHANGED <<arguments, entered, pending, visitor>>

SchemaNext ==
    \/ RejectUnsupported \/ SuppressDefinition \/ EnterDefinition \/ EnterNamedType
    \/ LeaveSchema \/ RenameQueryTypeFields

SchemaSpec == SchemaInit /\ [][SchemaNext]_schema_vars

-----------------------------------------------------------------------------
(* Properties *)

IsDefinition(node) ==
    /\ node = [kind |-> node.kind, name |-> node.name, fields |-> node.fields, refs |-> node.refs]
    /\ node.kind \in {"object", "interface", "union", "enum", "scalar"}
    /\ node.kind \notin {"object", "interface"} => node.fields = {}
    /\ node.kind \in {"enum", "scalar"} => node.refs = {}
    /\ \A f \in node.fields : f = [name |-> f.name, type |-> f.type]
    /\ NULL \notin node.refs
    /\ IsFiniteSet(node.fields) /\ IsFiniteSet(node.refs)

(* Schemas to be renamed are valid.                                           *)
ASSUME SchemasAreValid ==
    /\ QueryType \in ValidNames
    /\ NULL \notin ValidNames \cup BuiltinScalars
    /\ \A s \in Schemas :
          /\ Len(s) \in Nat /\ DOMAIN s = 1..Len(s)
          /\ IsValidSchema(s, QueryType)
          /\ \A i \in DOMAIN s : IsDefinition(s[i])

(* A type is renamed to the name of the query type, which the visitor does    *)
(* not record; or an interface that nothing implements keeps a field of a     *)
(* suppressed type.                                                           *)
Unforeseen ==
    \/ \E t \in DOMAIN type_renamings : type_renamings[t] = QueryType
    \/ \E i \in DOMAIN schema : schema[i].kind = "interface"
                                /\ \E f \in schema[i].fields : IsSuppressed(f.type)

(* The fields of the query type are renamed, those of an interface that it    *)
(* implements are not.                                                        *)
RootImplements == \E node \in DefinitionsNamed(schema, QueryType) : node.refs # {}

(* The renamed schema is one that can be renamed, or merged, again: no name   *)
(* clashes, no reference to what was suppressed, nothing empty, root fields   *)
(* named like their types.  And but for the two cases above, the errors that  *)
(* the visitor collects are all there are: what passes them builds.           *)
RenamedSchemaIsValid ==
    /\ outcome = "done" /\ ~RootImplements => IsValidSchema(renamed, QueryType)
    /\ outcome = "TypeError" => Unforeseen

(* The renamed schema undone by the maps of its descriptor.                   *)
OriginalType(t) == Lookup(reverse_name_map, t, t)
OriginalField(t, f) ==
    IF t = QueryType THEN OriginalType(f)
    ELSE Lookup(Lookup(reverse_field_name_map, OriginalType(t), << >>), f, f)
Undone(node) ==
    [node EXCEPT !.name = OriginalType(@),
                 !.fields = {[name |-> OriginalField(node.name, f.name),
                              type |-> OriginalType(f.type)] : f \in @},
                 !.refs = {OriginalType(r) : r \in @}]

(* What the arguments ask for, said of the original: the definitions and      *)
(* fields that are not suppressed.                                            *)
Kept(t) == t \in BuiltinScalars \/ Lookup(type_renamings, t, t) # NULL
Remaining(node) ==
    [node EXCEPT !.fields = {f \in @ :
                    /\ Kept(f.type)
                    /\ node.name = QueryType \/ NewFieldNames(node.name, f.name) # {}},
                 !.refs = {r \in @ : Kept(r)}]

(* "reverse_name_map ... renamed type/query type field name to original       *)
(* name": undoing the renamed schema with the two maps of changed names gives *)
(* back what was not suppressed of the original, also when names are swapped  *)
(* or freed by a suppression and taken again.                                 *)
ReverseMapsUndo ==
    outcome = "done" =>
        {Undone(renamed[i]) : i \in DOMAIN renamed} =
            {Remaining(schema[i]) : i \in {j \in DOMAIN schema : Kept(schema[j].name)}}

(* Every entry of an accepted type_renamings, and every field entry of        *)
(* field_renamings, has changed something: a suppressed name is gone or taken *)
(* by another type, and a renamed one stands under its new name.              *)
EveryRenamingHasEffect ==
    outcome = "done" =>
        /\ \A t \in DOMAIN type_renamings :
              /\ t \in NamesOf(schema)
              /\ ~ \E node \in DefinitionsNamed(renamed, t) : OriginalType(node.name) = t
        /\ \A t \in DOMAIN field_renamings : \A f \in DOMAIN field_renamings[t] :
              \E node \in DefinitionsNamed(renamed, Desired(t)) :
                  {g \in FieldNames(node) : OriginalField(node.name, g) = f}
                      = field_renamings[t][f]
                  /\ field_renamings[t][f] # {f}
=============================================================================
