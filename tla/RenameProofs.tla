---------------------------- MODULE RenameProofs -----------------------------
(* Proofs about the renaming of schemas, within the walk that renames a       *)
(* schema and then translates a query back.                                   *)
EXTENDS RenameQuery, TLAPS, FiniteSetTheorems, SequenceTheorems

-----------------------------------------------------------------------------
(* The arguments *)

Types == NamesOf(schema)
ArgumentsOK == schema \in Schemas

LEMMA SchemaFacts ==
    ASSUME ArgumentsOK
    PROVE  /\ Len(schema) \in Nat /\ DOMAIN schema = 1..Len(schema)
           /\ IsValidSchema(schema, QueryType)
           /\ \A i \in 1..Len(schema) :
                 IsDefinition(schema[i]) /\ schema[i].name \in Types /\ schema[i].name # NULL
           /\ \A i, j \in 1..Len(schema) : schema[i].name = schema[j].name => i = j
           /\ \A i \in 1..Len(schema) : References(schema[i]) \subseteq Types \cup BuiltinScalars
           /\ QueryType \in Types /\ QueryType # NULL
           /\ Types \subseteq ValidNames /\ Types \cap BuiltinScalars = {}
           /\ NULL \notin Types \cup BuiltinScalars
           /\ \A t \in Types : \E i \in 1..Len(schema) : schema[i].name = t
  BY SchemasAreValid DEF ArgumentsOK, IsValidSchema, Builds, NamesOf, Types

(* What is below a definition when its fields have been renamed is no more    *)
(* than what was there, and the visitor gets to it in some order.             *)
LEMMA ReferencesAreFinite ==
    ASSUME NEW node, IsFiniteSet(node.fields), IsFiniteSet(node.refs)
    PROVE  IsFiniteSet(References(node))
<1> DEFINE f == [x \in node.fields |-> x.type]
           T == {x.type : x \in node.fields}
<1>1. f \in Surjection(node.fields, T)
  BY DEF Surjection
<1>2. IsFiniteSet(T)
  BY <1>1, FS_Surjection
<1> QED BY <1>2, FS_Union DEF References

LEMMA OrderedSet ==
    ASSUME NEW S, IsFiniteSet(S), NEW T, S \subseteq T
    PROVE  SetToSeq(S) \in Seq(T)
<1>1. Cardinality(S) \in Nat /\ ExistsBijection(1..Cardinality(S), S)
  BY FS_CardinalityType
<1>2. \E f \in [1..Cardinality(S) -> S] : IsInjective(f)
  BY <1>1 DEF ExistsBijection, Bijection, Injection
<1>3. SetToSeq(S) \in [1..Cardinality(S) -> S]
  BY <1>2 DEF SetToSeq
<1> HIDE DEF SetToSeq
<1>4. SetToSeq(S) \in [1..Cardinality(S) -> T]
  BY <1>3
<1> QED BY <1>1, <1>4

LEMMA RenamedFieldsAre ==
    ASSUME NEW node, IsDefinition(node), FieldsToSuppress(node) = {}
    PROVE  /\ \A g \in RenamedFields(node) :
                 \E f \in node.fields : \E n \in NewFieldNames(node.name, f.name) :
                    g = [name |-> n, type |-> f.type]
           /\ \A f \in node.fields : \A n \in NewFieldNames(node.name, f.name) :
                 [name |-> n, type |-> f.type] \in RenamedFields(node)
<1> DEFINE new(f) == {[f EXCEPT !.name = n] : n \in NewFieldNames(node.name, f.name)}
<1>1. RenamedFields(node) = UNION {new(f) : f \in node.fields}
  BY DEF RenamedFields
<1>2. ASSUME NEW f \in node.fields, NEW n PROVE [f EXCEPT !.name = n] = [name |-> n, type |-> f.type]
  BY DEF IsDefinition
<1>3. ASSUME NEW f \in node.fields, NEW g
      PROVE  g \in new(f) <=> \E n \in NewFieldNames(node.name, f.name) :
                                  g = [name |-> n, type |-> f.type]
  BY <1>2
<1> HIDE DEF new
<1> QED BY <1>1, <1>3

LEMMA NewReferences ==
    ASSUME NEW node, IsDefinition(node)
    PROVE  References([node EXCEPT !.fields = RenamedFields(node)]) \subseteq References(node)
<1>1. \A g \in RenamedFields(node) : \E f \in node.fields : g.type = f.type
  <2>1. CASE FieldsToSuppress(node) = {}
    BY <2>1, RenamedFieldsAre
  <2>2. CASE FieldsToSuppress(node) # {}
    BY <2>2 DEF RenamedFields
  <2> QED BY <2>1, <2>2
<1>2. /\ [node EXCEPT !.fields = RenamedFields(node)].fields = RenamedFields(node)
      /\ [node EXCEPT !.fields = RenamedFields(node)].refs = node.refs
  BY DEF IsDefinition
<1> QED BY <1>1, <1>2 DEF References

-----------------------------------------------------------------------------
(* The records of the visitor *)

Records ==
    {"reverse_name_map", "reverse_field_name_map",
     "suppressed_type_names", "types_with_field_renamings_processed",
     "type_name_conflicts", "type_renamed_to_builtin_scalar_conflicts",
     "invalid_type_names", "no_op_field_renamings", "invalid_field_names",
     "field_name_conflicts", "types_involving_interfaces_with_field_renamings",
     "object_types_to_suppress", "union_types_to_suppress", "fields_to_suppress"}

(* Recording a name only touches what is about types.                         *)
LEMMA RecordedIs ==
    ASSUME NEW v, DOMAIN v = Records, NEW t
    PROVE  LET w == Recorded(v, t)
               renamed_to == ~IsIdle(t) /\ Desired(t) # NULL
           IN  /\ DOMAIN w = Records
               /\ w.reverse_name_map =
                     IF renamed_to THEN With(v.reverse_name_map, Desired(t), t)
                     ELSE v.reverse_name_map
               /\ w.suppressed_type_names =
                     v.suppressed_type_names
                         \cup (IF ~IsIdle(t) /\ Desired(t) = NULL THEN {t} ELSE {})
               /\ w.type_name_conflicts =
                     v.type_name_conflicts
                         \cup (IF renamed_to
                               THEN {d \in {Desired(t)} : Lookup(v.reverse_name_map, d, t) # t}
                               ELSE {})
               /\ w.invalid_type_names =
                     v.invalid_type_names
                         \cup (IF renamed_to THEN {Desired(t)} \ ValidNames ELSE {})
               /\ w.type_renamed_to_builtin_scalar_conflicts =
                     v.type_renamed_to_builtin_scalar_conflicts
                         \cup (IF renamed_to THEN {Desired(t)} \cap BuiltinScalars ELSE {})
               /\ \A r \in Records \ {"reverse_name_map", "suppressed_type_names",
                                      "type_name_conflicts", "invalid_type_names",
                                      "type_renamed_to_builtin_scalar_conflicts"} : w[r] = v[r]
<1> DEFINE d == Desired(t)
           w == [v EXCEPT !.invalid_type_names = @ \cup ({d} \ ValidNames),
                   !.type_name_conflicts =
                       @ \cup {e \in {d} : Lookup(v.reverse_name_map, e, t) # t},
                   !.type_renamed_to_builtin_scalar_conflicts = @ \cup ({d} \cap BuiltinScalars),
                   !.reverse_name_map = With(@, d, t)]
<1>1. CASE IsIdle(t)
  BY <1>1 DEF Recorded
<1>2. CASE ~IsIdle(t) /\ d = NULL
  BY <1>2 DEF Recorded, Records
<1>3. CASE ~IsIdle(t) /\ d # NULL
  <2>1. Recorded(v, t) = w
    BY <1>3 DEF Recorded
  <2> HIDE DEF d
  <2>2. DOMAIN w = Records
    BY DEF Records
  <2>3. /\ w.reverse_name_map = With(v.reverse_name_map, d, t)
        /\ w.suppressed_type_names = v.suppressed_type_names
        /\ w.invalid_type_names = v.invalid_type_names \cup ({d} \ ValidNames)
        /\ w.type_name_conflicts =
              v.type_name_conflicts \cup {e \in {d} : Lookup(v.reverse_name_map, e, t) # t}
        /\ w.type_renamed_to_builtin_scalar_conflicts =
              v.type_renamed_to_builtin_scalar_conflicts \cup ({d} \cap BuiltinScalars)
    BY DEF Records
  <2>4. \A r \in Records \ {"reverse_name_map", "suppressed_type_names",
                            "type_name_conflicts", "invalid_type_names",
                            "type_renamed_to_builtin_scalar_conflicts"} : w[r] = v[r]
    BY DEF Records
  <2> HIDE DEF w
  <2> QED BY <1>3, <2>1, <2>2, <2>3, <2>4 DEF d
<1> QED BY <1>1, <1>2, <1>3

(* What is recorded of names is of types of the schema; it holds the renaming *)
(* of each type t that was recorded, or a complaint.                          *)
NamesInv(v) ==
    /\ DOMAIN v = Records
    /\ \A n \in DOMAIN v.reverse_name_map :
          /\ v.reverse_name_map[n] \in Types /\ ~IsIdle(v.reverse_name_map[n])
          /\ Desired(v.reverse_name_map[n]) = n /\ n # NULL
    /\ \A t \in v.suppressed_type_names : t \in Types /\ ~IsIdle(t) /\ Desired(t) = NULL

TypeRecorded(v, t) ==
    ~IsIdle(t) /\ Desired(t) # NULL =>
        /\ Desired(t) \in DOMAIN v.reverse_name_map
        /\ v.type_name_conflicts = {} => v.reverse_name_map[Desired(t)] = t
        /\ Desired(t) \in ValidNames \/ v.invalid_type_names # {}
        /\ Desired(t) \notin BuiltinScalars \/ v.type_renamed_to_builtin_scalar_conflicts # {}

LEMMA RecordName ==
    ASSUME NEW v, NamesInv(v), NEW t \in Types \cup BuiltinScalars
    PROVE  LET w == Recorded(v, t)
           IN  /\ NamesInv(w) /\ TypeRecorded(w, t)
               /\ \A u : TypeRecorded(v, u) => TypeRecorded(w, u)
<1> DEFINE w == Recorded(v, t)
           d == Desired(t)
           renamed_to == ~IsIdle(t) /\ d # NULL
<1>1. /\ DOMAIN w = Records
      /\ w.reverse_name_map =
            IF renamed_to THEN With(v.reverse_name_map, d, t) ELSE v.reverse_name_map
      /\ w.suppressed_type_names =
            v.suppressed_type_names \cup (IF ~IsIdle(t) /\ d = NULL THEN {t} ELSE {})
      /\ w.type_name_conflicts =
            v.type_name_conflicts
                \cup (IF renamed_to THEN {e \in {d} : Lookup(v.reverse_name_map, e, t) # t} ELSE {})
      /\ w.invalid_type_names =
            v.invalid_type_names \cup (IF renamed_to THEN {d} \ ValidNames ELSE {})
      /\ w.type_renamed_to_builtin_scalar_conflicts =
            v.type_renamed_to_builtin_scalar_conflicts
                \cup (IF renamed_to THEN {d} \cap BuiltinScalars ELSE {})
  BY RecordedIs DEF NamesInv
<1> HIDE DEF w
<1>2. ~IsIdle(t) => t \in Types
  BY DEF IsIdle
<1>3. CASE ~renamed_to
  <2>1. NamesInv(w)
    BY <1>1, <1>2, <1>3 DEF NamesInv
  <2>2. TypeRecorded(w, t)
    BY <1>3 DEF TypeRecorded
  <2>3. \A u : TypeRecorded(v, u) => TypeRecorded(w, u)
    BY <1>1, <1>3 DEF TypeRecorded
  <2> QED BY <2>1, <2>2, <2>3 DEF w
<1>4. CASE renamed_to
  <2> DEFINE old == v.reverse_name_map
             map == With(old, d, t)
  <2>1. /\ w.reverse_name_map = map /\ w.suppressed_type_names = v.suppressed_type_names
        /\ v.invalid_type_names \subseteq w.invalid_type_names
        /\ d \in ValidNames \/ w.invalid_type_names # {}
        /\ v.type_renamed_to_builtin_scalar_conflicts
               \subseteq w.type_renamed_to_builtin_scalar_conflicts
        /\ d \notin BuiltinScalars \/ w.type_renamed_to_builtin_scalar_conflicts # {}
        /\ w.type_name_conflicts = {} => v.type_name_conflicts = {} /\ Lookup(old, d, t) = t
    BY <1>1, <1>4
  <2>2. /\ DOMAIN map = DOMAIN old \cup {d} /\ map[d] = t
        /\ \A x \in DOMAIN old : x # d => map[x] = old[x]
    BY DEF With
  <2> HIDE DEF map
  <2>3. NamesInv(w)
    BY <1>1, <1>2, <1>4, <2>1, <2>2 DEF NamesInv
  <2>4. TypeRecorded(w, t)
    BY <2>1, <2>2 DEF TypeRecorded
  <2>5. ASSUME NEW u, TypeRecorded(v, u) PROVE TypeRecorded(w, u)
    <3> SUFFICES ASSUME ~IsIdle(u), Desired(u) # NULL
                 PROVE  /\ Desired(u) \in DOMAIN map
                        /\ w.type_name_conflicts = {} => map[Desired(u)] = u
                        /\ Desired(u) \in ValidNames \/ w.invalid_type_names # {}
                        /\ \/ Desired(u) \notin BuiltinScalars
                           \/ w.type_renamed_to_builtin_scalar_conflicts # {}
      BY <2>1 DEF TypeRecorded
    <3>1. /\ Desired(u) \in DOMAIN old
          /\ v.type_name_conflicts = {} => old[Desired(u)] = u
          /\ Desired(u) \in ValidNames \/ v.invalid_type_names # {}
          /\ \/ Desired(u) \notin BuiltinScalars
             \/ v.type_renamed_to_builtin_scalar_conflicts # {}
      BY <2>5 DEF TypeRecorded
    <3>2. w.type_name_conflicts = {} => map[Desired(u)] = u
      <4>1. CASE Desired(u) = d
        BY <2>1, <2>2, <3>1, <4>1 DEF Lookup
      <4>2. CASE Desired(u) # d
        BY <2>1, <2>2, <3>1, <4>2
      <4> QED BY <4>1, <4>2
    <3> QED BY <2>1, <2>2, <3>1, <3>2
  <2> QED BY <2>3, <2>4, <2>5 DEF w
<1> QED BY <1>3, <1>4

(* What is recorded of the fields of a definition that stays.                 *)
OriginalNames(node) ==
    [n \in {f.name : f \in RenamedFields(node)} |->
        CHOOSE f \in FieldNames(node) : n \in NewFieldNames(node.name, f)]

FieldsRecorded(v, node) ==
    LET t == node.name
    IN  /\ node.refs = {} \/ v.types_involving_interfaces_with_field_renamings # {}
        /\ \/ v.no_op_field_renamings # {}
           \/ \A g \in DOMAIN FieldRenamingsOf(t) :
                 g \in FieldNames(node) /\ FieldRenamingsOf(t)[g] # {g}
        /\ \/ v.field_name_conflicts # {}
           \/ \A f, g \in FieldNames(node) :
                 NewFieldNames(t, f) \cap NewFieldNames(t, g) # {} => f = g
        /\ t \in DOMAIN v.reverse_field_name_map
        /\ v.reverse_field_name_map[t] = OriginalNames(node)

StaysWithFields(node) ==
    /\ ~IsIdle(node.name) /\ ~IsSuppressed(node.name)
    /\ node.kind = "object" /\ FieldsToSuppress(node) = {}
    /\ node.name \in DOMAIN field_renamings

NodeRecorded(v, node) ==
    /\ StaysWithFields(node) => FieldsRecorded(v, node)
    /\ ~IsIdle(node.name) /\ ~IsSuppressed(node.name) =>
          /\ node.kind = "object" => FieldsToSuppress(node) = {} \/ v.fields_to_suppress # {}
          /\ node.kind = "union" =>
                v.union_types_to_suppress # {} \/ \E m \in node.refs : ~IsSuppressed(m)
          /\ node.kind = "interface" /\ node.name \in DOMAIN field_renamings =>
                v.types_involving_interfaces_with_field_renamings # {}

FieldsInv(v, n) ==
    /\ \A i \in 1..n : NodeRecorded(v, schema[i])
    /\ \A t \in v.types_with_field_renamings_processed :
          \E i \in 1..n : schema[i].name = t /\ StaysWithFields(schema[i])
    /\ \A t \in DOMAIN v.reverse_field_name_map :
          \E i \in 1..n : schema[i].name = t /\ StaysWithFields(schema[i])

VisitorInv(v, n) ==
    /\ NamesInv(v)
    /\ \A i \in 1..n : TypeRecorded(v, schema[i].name)
    /\ FieldsInv(v, n)

LEMMA RecordedFieldsIs ==
    ASSUME NEW v, DOMAIN v = Records, NEW node, IsDefinition(node),
           FieldsToSuppress(node) = {}, node.name \in DOMAIN field_renamings
    PROVE  LET t == node.name
               w == RecordedFields(v, node)
           IN  /\ DOMAIN w = Records
               /\ \A r \in Records \ {"reverse_field_name_map", "object_types_to_suppress",
                                      "types_with_field_renamings_processed",
                                      "types_involving_interfaces_with_field_renamings",
                                      "no_op_field_renamings", "invalid_field_names",
                                      "field_name_conflicts"} : w[r] = v[r]
               /\ \A r \in {"types_involving_interfaces_with_field_renamings",
                            "no_op_field_renamings", "field_name_conflicts"} : v[r] \subseteq w[r]
               /\ w.types_with_field_renamings_processed =
                     v.types_with_field_renamings_processed \cup {t}
               /\ w.reverse_field_name_map
                     = With(v.reverse_field_name_map, t, OriginalNames(node))
               /\ FieldsRecorded(w, node)
<1> DEFINE t == node.name
           w == RecordedFields(v, node)
           new == RenamedFields(node)
           no_op == {g \in DOMAIN FieldRenamingsOf(t) :
                        g \notin FieldNames(node) \/ FieldRenamingsOf(t)[g] = {g}}
           doubled == {x \in new : Cardinality({g \in FieldNames(node) :
                                                  x.name \in NewFieldNames(t, g)}) > 1}
           original == OriginalNames(node)
<1>1. w = [v EXCEPT
            !.types_with_field_renamings_processed = @ \cup {t},
            !.types_involving_interfaces_with_field_renamings =
                IF node.refs # {} THEN @ \cup {t} ELSE @,
            !.no_op_field_renamings = @ \cup {<<t, f>> : f \in no_op},
            !.field_name_conflicts = @ \cup {<<t, n>> : n \in {f.name : f \in doubled}},
            !.invalid_field_names = @ \cup {<<t, f.name>> : f \in {x \in new :
                                                x.name \notin ValidNames}},
            !.object_types_to_suppress = IF new = {} THEN @ \cup {t} ELSE @,
            !.reverse_field_name_map = With(@, t, original)]
  BY DEF RecordedFields, OriginalNames
<1> HIDE DEF no_op, doubled, original, new, w, t
<1>2. DOMAIN w = Records
  BY <1>1 DEF Records
<1>3. \A r \in Records \ {"reverse_field_name_map", "object_types_to_suppress",
                          "types_with_field_renamings_processed",
                          "types_involving_interfaces_with_field_renamings",
                          "no_op_field_renamings", "invalid_field_names",
                          "field_name_conflicts"} : w[r] = v[r]
  BY <1>1 DEF Records
<1>4. /\ w.types_with_field_renamings_processed = v.types_with_field_renamings_processed \cup {t}
      /\ w.types_involving_interfaces_with_field_renamings =
            IF node.refs # {} THEN v.types_involving_interfaces_with_field_renamings \cup {t}
            ELSE v.types_involving_interfaces_with_field_renamings
      /\ w.no_op_field_renamings = v.no_op_field_renamings \cup {<<t, f>> : f \in no_op}
      /\ w.field_name_conflicts =
            v.field_name_conflicts \cup {<<t, n>> : n \in {f.name : f \in doubled}}
      /\ w.reverse_field_name_map = With(v.reverse_field_name_map, t, original)
  BY <1>1 DEF Records
<1>5. /\ v.types_involving_interfaces_with_field_renamings
            \subseteq w.types_involving_interfaces_with_field_renamings
      /\ v.no_op_field_renamings \subseteq w.no_op_field_renamings
      /\ v.field_name_conflicts \subseteq w.field_name_conflicts
  BY <1>4
<1>6. node.refs = {} \/ w.types_involving_interfaces_with_field_renamings # {}
  BY <1>4
<1>7. \/ w.no_op_field_renamings # {}
      \/ \A g \in DOMAIN FieldRenamingsOf(t) :
            g \in FieldNames(node) /\ FieldRenamingsOf(t)[g] # {g}
  <2>1. \A g \in no_op : <<t, g>> \in w.no_op_field_renamings
    BY <1>4
  <2>2. w.no_op_field_renamings = {} => no_op = {}
    BY <2>1
  <2> QED BY <2>2 DEF no_op
<1>8. \/ w.field_name_conflicts # {}
      \/ \A f, g \in FieldNames(node) : NewFieldNames(t, f) \cap NewFieldNames(t, g) # {} => f = g
  <2> SUFFICES ASSUME w.field_name_conflicts = {}, NEW f \in FieldNames(node),
                      NEW g \in FieldNames(node), NEW n \in NewFieldNames(t, f) \cap NewFieldNames(t, g)
               PROVE  f = g
    OBVIOUS
  <2>1. doubled = {}
    <3>1. \A x \in doubled : <<t, x.name>> \in w.field_name_conflicts
      BY <1>4
    <3> QED BY <3>1
  <2> DEFINE both == {h \in FieldNames(node) : n \in NewFieldNames(t, h)}
  <2>2. PICK x \in new : x.name = n
    <3>1. PICK h \in node.fields : h.name = f
      BY DEF FieldNames
    <3>2. [name |-> n, type |-> h.type] \in new
      BY <3>1, RenamedFieldsAre DEF t, new
    <3> QED BY <3>2
  <2>3. ~(Cardinality(both) > 1)
    BY <2>1, <2>2 DEF doubled
  <2>4. IsFiniteSet(both)
    <3> DEFINE name == [h \in node.fields |-> h.name]
    <3>1. name \in Surjection(node.fields, FieldNames(node))
      BY DEF Surjection, FieldNames
    <3>2. IsFiniteSet(FieldNames(node))
      BY <3>1, FS_Surjection DEF IsDefinition
    <3> QED BY <3>2, FS_Subset
  <2>5. f \in both /\ g \in both
    OBVIOUS
  <2> HIDE DEF both
  <2>6. Cardinality(both) \in Nat /\ Cardinality(both) # 0
    BY <2>4, <2>5, FS_CardinalityType, FS_EmptySet
  <2>7. Cardinality(both) = 1
    BY <2>3, <2>6
  <2>8. PICK only : both = {only}
    BY <2>4, <2>7, FS_Singleton
  <2> QED BY <2>5, <2>8
<1>9. t \in DOMAIN w.reverse_field_name_map /\ w.reverse_field_name_map[t] = OriginalNames(node)
  BY <1>4 DEF With, original
<1>10. FieldsRecorded(w, node)
  BY <1>6, <1>7, <1>8, <1>9 DEF FieldsRecorded, t
<1> QED BY <1>2, <1>3, <1>4, <1>5, <1>10 DEF w, t, original

(* Complaints are never taken back.                                           *)
Complains(v, x) ==
    /\ v.types_involving_interfaces_with_field_renamings
           \subseteq x.types_involving_interfaces_with_field_renamings
    /\ v.no_op_field_renamings \subseteq x.no_op_field_renamings
    /\ v.field_name_conflicts \subseteq x.field_name_conflicts
    /\ v.union_types_to_suppress \subseteq x.union_types_to_suppress
    /\ v.fields_to_suppress \subseteq x.fields_to_suppress

LEMMA NodeStaysRecorded ==
    ASSUME NEW v, NEW x, NEW node, NodeRecorded(v, node), Complains(v, x),
           node.name \in DOMAIN v.reverse_field_name_map =>
              /\ node.name \in DOMAIN x.reverse_field_name_map
              /\ x.reverse_field_name_map[node.name] = v.reverse_field_name_map[node.name]
    PROVE  NodeRecorded(x, node)
<1>1. ASSUME FieldsRecorded(v, node) PROVE FieldsRecorded(x, node)
  <2> DEFINE distinct == \A f, g \in FieldNames(node) :
                             NewFieldNames(node.name, f) \cap NewFieldNames(node.name, g) # {}
                                 => f = g
             effective == \A g \in DOMAIN FieldRenamingsOf(node.name) :
                             g \in FieldNames(node) /\ FieldRenamingsOf(node.name)[g] # {g}
  <2>1. /\ node.refs = {} \/ v.types_involving_interfaces_with_field_renamings # {}
        /\ v.no_op_field_renamings # {} \/ effective
        /\ v.field_name_conflicts # {} \/ distinct
        /\ node.name \in DOMAIN v.reverse_field_name_map
        /\ v.reverse_field_name_map[node.name] = OriginalNames(node)
    BY <1>1 DEF FieldsRecorded
  <2> HIDE DEF distinct, effective
  <2>2. /\ node.refs = {} \/ x.types_involving_interfaces_with_field_renamings # {}
        /\ x.no_op_field_renamings # {} \/ effective
        /\ x.field_name_conflicts # {} \/ distinct
        /\ node.name \in DOMAIN x.reverse_field_name_map
        /\ x.reverse_field_name_map[node.name] = OriginalNames(node)
    BY <2>1 DEF Complains
  <2> QED BY <2>2 DEF FieldsRecorded, distinct, effective
<1> QED BY <1>1 DEF NodeRecorded, Complains

(* Recording a name leaves what is recorded of definitions.                   *)
LEMMA FieldsStayRecorded ==
    ASSUME NEW v, DOMAIN v = Records, NEW t, NEW n, FieldsInv(v, n)
    PROVE  FieldsInv(Recorded(v, t), n)
<1> DEFINE w == Recorded(v, t)
<1>1. /\ Complains(v, w) /\ w.reverse_field_name_map = v.reverse_field_name_map
      /\ w.types_with_field_renamings_processed = v.types_with_field_renamings_processed
  <2>1. \A r \in Records \ {"reverse_name_map", "suppressed_type_names",
                            "type_name_conflicts", "invalid_type_names",
                            "type_renamed_to_builtin_scalar_conflicts"} : w[r] = v[r]
    BY RecordedIs
  <2> HIDE DEF w
  <2> QED BY <2>1 DEF Complains, Records
<1> HIDE DEF w
<1>2. \A i \in 1..n : NodeRecorded(w, schema[i])
  BY <1>1, NodeStaysRecorded DEF FieldsInv
<1> QED BY <1>1, <1>2 DEF FieldsInv, w

(* What is recorded of a definition beyond names.                             *)
LEMMA RecordedDefinitionIs ==
    ASSUME NEW v, DOMAIN v = Records, NEW node, IsDefinition(node), ~IsSuppressed(node.name)
    PROVE  LET t == node.name
               w == Recorded(v, t)
               x == RecordedDefinition(v, node)
           IN  /\ DOMAIN x = Records
               /\ \A r \in {"reverse_name_map", "suppressed_type_names",
                            "type_name_conflicts", "invalid_type_names",
                            "type_renamed_to_builtin_scalar_conflicts"} : x[r] = w[r]
               /\ Complains(v, x)
               /\ NodeRecorded(x, node)
               /\ IF StaysWithFields(node)
                  THEN /\ x.types_with_field_renamings_processed =
                             v.types_with_field_renamings_processed \cup {t}
                       /\ x.reverse_field_name_map
                             = With(v.reverse_field_name_map, t, OriginalNames(node))
                  ELSE /\ x.types_with_field_renamings_processed =
                             v.types_with_field_renamings_processed
                       /\ x.reverse_field_name_map = v.reverse_field_name_map
<1> DEFINE t == node.name
           w == Recorded(v, t)
           x == RecordedDefinition(v, node)
           names == {"reverse_name_map", "suppressed_type_names",
                     "type_name_conflicts", "invalid_type_names",
                     "type_renamed_to_builtin_scalar_conflicts"}
<1>1. /\ DOMAIN w = Records
      /\ \A r \in Records \ names : w[r] = v[r]
  BY RecordedIs
<1> HIDE DEF w
<1>2. /\ Complains(v, w)
      /\ w.types_with_field_renamings_processed = v.types_with_field_renamings_processed
      /\ w.reverse_field_name_map = v.reverse_field_name_map
  BY <1>1 DEF Complains, Records
<1>3. CASE IsIdle(t)
  <2>1. x = w
    BY <1>3 DEF RecordedDefinition, w
  <2> HIDE DEF x
  <2>2. ~StaysWithFields(node) /\ NodeRecorded(x, node)
    BY <1>3 DEF StaysWithFields, NodeRecorded
  <2> QED BY <1>1, <1>2, <2>1, <2>2 DEF x, w
<1>4. CASE ~IsIdle(t) /\ node.kind = "union"
  <2>1. x = [w EXCEPT !.union_types_to_suppress =
                           IF \A m \in node.refs : IsSuppressed(m) THEN @ \cup {t} ELSE @]
    BY <1>4 DEF RecordedDefinition, w
  <2> HIDE DEF x
  <2>2. /\ DOMAIN x = Records /\ \A r \in Records \ {"union_types_to_suppress"} : x[r] = w[r]
        /\ w.union_types_to_suppress \subseteq x.union_types_to_suppress
        /\ (\A m \in node.refs : IsSuppressed(m)) => x.union_types_to_suppress # {}
    BY <1>1, <2>1 DEF Records
  <2>3. ~StaysWithFields(node) /\ NodeRecorded(x, node)
    BY <1>4, <2>2 DEF StaysWithFields, NodeRecorded
  <2> QED BY <1>2, <2>2, <2>3 DEF x, w, Complains, Records
<1>5. CASE ~IsIdle(t) /\ node.kind = "interface"
  <2>1. x = [w EXCEPT !.types_involving_interfaces_with_field_renamings =
                           IF t \in DOMAIN field_renamings THEN @ \cup {t} ELSE @]
    BY <1>5 DEF RecordedDefinition, w
  <2> HIDE DEF x
  <2>2. /\ DOMAIN x = Records
        /\ \A r \in Records \ {"types_involving_interfaces_with_field_renamings"} : x[r] = w[r]
        /\ w.types_involving_interfaces_with_field_renamings
               \subseteq x.types_involving_interfaces_with_field_renamings
        /\ t \in DOMAIN field_renamings => x.types_involving_interfaces_with_field_renamings # {}
    BY <1>1, <2>1 DEF Records
  <2>3. ~StaysWithFields(node) /\ NodeRecorded(x, node)
    BY <1>5, <2>2 DEF StaysWithFields, NodeRecorded
  <2> QED BY <1>2, <2>2, <2>3 DEF x, w, Complains, Records
<1>6. CASE ~IsIdle(t) /\ node.kind \notin {"union", "interface", "object"}
  <2>1. x = w
    BY <1>6 DEF RecordedDefinition, w
  <2> HIDE DEF x
  <2>2. ~StaysWithFields(node) /\ NodeRecorded(x, node)
    BY <1>6 DEF StaysWithFields, NodeRecorded
  <2> QED BY <1>1, <1>2, <2>1, <2>2 DEF x, w
<1>7. CASE ~IsIdle(t) /\ node.kind = "object" /\ FieldsToSuppress(node) # {}
  <2>1. x = [w EXCEPT !.fields_to_suppress =
                           @ \cup {<<t, f.name>> : f \in FieldsToSuppress(node)}]
    BY <1>7 DEF RecordedDefinition, w
  <2> HIDE DEF x
  <2>2. /\ DOMAIN x = Records /\ \A r \in Records \ {"fields_to_suppress"} : x[r] = w[r]
        /\ x.fields_to_suppress =
              w.fields_to_suppress \cup {<<t, f.name>> : f \in FieldsToSuppress(node)}
    BY <1>1, <2>1 DEF Records
  <2>3. x.fields_to_suppress # {}
    <3>1. \A f \in FieldsToSuppress(node) : <<t, f.name>> \in x.fields_to_suppress
      BY <2>2
    <3> QED BY <1>7, <3>1
  <2>4. ~StaysWithFields(node) /\ NodeRecorded(x, node)
    BY <1>7, <2>3 DEF StaysWithFields, NodeRecorded
  <2> QED BY <1>2, <2>2, <2>4 DEF x, w, Complains, Records
<1>8. CASE /\ ~IsIdle(t) /\ node.kind = "object" /\ FieldsToSuppress(node) = {}
           /\ t \in DOMAIN field_renamings
  <2>1. x = RecordedFields(w, node)
    BY <1>8 DEF RecordedDefinition, w
  <2> HIDE DEF x
  <2>2. StaysWithFields(node)
    BY <1>8 DEF StaysWithFields
  <2>3. /\ DOMAIN x = Records
        /\ \A r \in Records \ {"reverse_field_name_map", "object_types_to_suppress",
                               "types_with_field_renamings_processed",
                               "types_involving_interfaces_with_field_renamings",
                               "no_op_field_renamings", "invalid_field_names",
                               "field_name_conflicts"} : x[r] = w[r]
        /\ \A r \in {"types_involving_interfaces_with_field_renamings",
                     "no_op_field_renamings", "field_name_conflicts"} : w[r] \subseteq x[r]
        /\ x.types_with_field_renamings_processed =
              w.types_with_field_renamings_processed \cup {t}
        /\ x.reverse_field_name_map = With(w.reverse_field_name_map, t, OriginalNames(node))
        /\ FieldsRecorded(x, node)
    BY <1>1, <1>8, <2>1, RecordedFieldsIs
  <2>4. NodeRecorded(x, node)
    BY <1>8, <2>3 DEF NodeRecorded
  <2>5. /\ Complains(v, x)
        /\ \A r \in names : x[r] = w[r]
    BY <1>2, <2>3 DEF Complains, Records
  <2> QED BY <1>2, <2>2, <2>3, <2>4, <2>5 DEF x, w
<1>9. CASE /\ ~IsIdle(t) /\ node.kind = "object" /\ FieldsToSuppress(node) = {}
           /\ t \notin DOMAIN field_renamings
  <2>1. x = w
    BY <1>9 DEF RecordedDefinition, w
  <2> HIDE DEF x
  <2>2. ~StaysWithFields(node) /\ NodeRecorded(x, node)
    BY <1>9 DEF StaysWithFields, NodeRecorded
  <2> QED BY <1>1, <1>2, <2>1, <2>2 DEF x, w
<1> QED BY <1>3, <1>4, <1>5, <1>6, <1>7, <1>8, <1>9

LEMMA AfterName ==
    ASSUME NEW v, NEW n, VisitorInv(v, n), NEW t \in Types \cup BuiltinScalars
    PROVE  VisitorInv(Recorded(v, t), n) /\ TypeRecorded(Recorded(v, t), t)
<1>1. DOMAIN v = Records
  BY DEF VisitorInv, NamesInv
<1> QED BY <1>1, RecordName, FieldsStayRecorded DEF VisitorInv

LEMMA AfterSuppression ==
    ASSUME ArgumentsOK, NEW v, NEW n \in Nat, n < Len(schema), VisitorInv(v, n),
           IsSuppressed(schema[n + 1].name)
    PROVE  VisitorInv(Recorded(v, schema[n + 1].name), n + 1)
<1> DEFINE t == schema[n + 1].name
           w == Recorded(v, t)
<1>1. t \in Types /\ \A i \in 1..(n + 1) : i \in 1..n \/ i = n + 1
  BY SchemaFacts
<1>2. VisitorInv(w, n) /\ TypeRecorded(w, t)
  BY <1>1, AfterName
<1>3. NodeRecorded(w, schema[n + 1])
  BY DEF NodeRecorded, StaysWithFields
<1> HIDE DEF w
<1>4. \A i \in 1..n : i \in 1..(n + 1)
  OBVIOUS
<1>5. FieldsInv(w, n + 1)
  BY <1>1, <1>2, <1>3, <1>4 DEF VisitorInv, FieldsInv
<1>6. \A i \in 1..(n + 1) : TypeRecorded(w, schema[i].name)
  BY <1>1, <1>2 DEF VisitorInv
<1> QED BY <1>2, <1>5, <1>6 DEF VisitorInv, w

LEMMA AfterDefinition ==
    ASSUME ArgumentsOK, NEW v, NEW n \in Nat, n < Len(schema), VisitorInv(v, n),
           ~IsSuppressed(schema[n + 1].name)
    PROVE  VisitorInv(RecordedDefinition(v, schema[n + 1]), n + 1)
<1> DEFINE node == schema[n + 1]
           t == node.name
           w == Recorded(v, t)
           x == RecordedDefinition(v, node)
<1>1. /\ n + 1 \in 1..Len(schema) /\ IsDefinition(node) /\ t \in Types
      /\ \A i \in 1..(n + 1) : i \in 1..n \/ i = n + 1
      /\ \A i \in 1..n : i \in 1..(n + 1) /\ schema[i].name # t
  BY SchemaFacts
<1> HIDE DEF node
<1>2. DOMAIN v = Records
  BY DEF VisitorInv, NamesInv
<1>3. VisitorInv(w, n) /\ TypeRecorded(w, t)
  BY <1>1, AfterName
<1>4. /\ DOMAIN x = Records
      /\ \A r \in {"reverse_name_map", "suppressed_type_names",
                   "type_name_conflicts", "invalid_type_names",
                   "type_renamed_to_builtin_scalar_conflicts"} : x[r] = w[r]
      /\ Complains(v, x)
      /\ NodeRecorded(x, node)
      /\ IF StaysWithFields(node)
         THEN /\ x.types_with_field_renamings_processed =
                    v.types_with_field_renamings_processed \cup {t}
              /\ x.reverse_field_name_map
                    = With(v.reverse_field_name_map, t, OriginalNames(node))
         ELSE /\ x.types_with_field_renamings_processed =
                    v.types_with_field_renamings_processed
              /\ x.reverse_field_name_map = v.reverse_field_name_map
  BY <1>1, <1>2, RecordedDefinitionIs DEF node
<1> HIDE DEF w, x, t
<1>5. NamesInv(x)
  BY <1>3, <1>4 DEF VisitorInv, NamesInv
<1>6. \A u : TypeRecorded(w, u) => TypeRecorded(x, u)
  BY <1>4 DEF TypeRecorded
<1>7. \A i \in 1..(n + 1) : TypeRecorded(x, schema[i].name)
  BY <1>1, <1>3, <1>6 DEF VisitorInv, t, node
<1>8. FieldsInv(x, n + 1)
  <2>1. ASSUME NEW i \in 1..n PROVE NodeRecorded(x, schema[i])
    <3>1. schema[i].name # t /\ NodeRecorded(v, schema[i])
      BY <1>1 DEF VisitorInv, FieldsInv
    <3>2. schema[i].name \in DOMAIN v.reverse_field_name_map =>
              /\ schema[i].name \in DOMAIN x.reverse_field_name_map
              /\ x.reverse_field_name_map[schema[i].name]
                    = v.reverse_field_name_map[schema[i].name]
      BY <1>4, <3>1 DEF With
    <3> QED BY <1>4, <3>1, <3>2, NodeStaysRecorded
  <2>2. \A i \in 1..(n + 1) : NodeRecorded(x, schema[i])
    BY <1>1, <1>4, <2>1 DEF node
  <2>3. \A u \in v.types_with_field_renamings_processed \cup DOMAIN v.reverse_field_name_map :
           \E i \in 1..(n + 1) : schema[i].name = u /\ StaysWithFields(schema[i])
    BY <1>1 DEF VisitorInv, FieldsInv
  <2>4. StaysWithFields(node) =>
           \E i \in 1..(n + 1) : schema[i].name = t /\ StaysWithFields(schema[i])
    <3>1. n + 1 \in 1..(n + 1)
      OBVIOUS
    <3> QED BY <3>1 DEF node, t
  <2>5. /\ x.types_with_field_renamings_processed \subseteq
              v.types_with_field_renamings_processed
                  \cup (IF StaysWithFields(node) THEN {t} ELSE {})
        /\ DOMAIN x.reverse_field_name_map \subseteq
              DOMAIN v.reverse_field_name_map \cup (IF StaysWithFields(node) THEN {t} ELSE {})
    BY <1>4 DEF With
  <2> QED BY <2>2, <2>3, <2>4, <2>5 DEF FieldsInv
<1> QED BY <1>5, <1>7, <1>8 DEF VisitorInv, x, node

-----------------------------------------------------------------------------
(* The invariant *)

(* A result has one definition for each of the first n that stays, in any     *)
(* order, and no other.                                                       *)
Stays(i) == ~IsSuppressed(schema[i].name)
MadeFrom(result, n, Made(_)) ==
    /\ \A a \in DOMAIN result : \E i \in 1..n : Stays(i) /\ result[a] = Made(schema[i])
    /\ \A i \in 1..n : Stays(i) => \E a \in DOMAIN result : result[a] = Made(schema[i])
    /\ \A a, b \in DOMAIN result : a # b =>
          \E i, j \in 1..n : /\ i # j /\ Stays(i) /\ Stays(j)
                             /\ result[a] = Made(schema[i]) /\ result[b] = Made(schema[j])
    /\ \A i, j \in 1..n : i # j /\ Stays(i) /\ Stays(j) =>
          \E a, b \in DOMAIN result :
              a # b /\ result[a] = Made(schema[i]) /\ result[b] = Made(schema[j])

Final(node) == WithRootFieldsRenamed(RenamedDefinition(node))

NoComplaints ==
    /\ visitor.object_types_to_suppress = {} /\ visitor.union_types_to_suppress = {}
    /\ visitor.fields_to_suppress = {}
    /\ visitor.invalid_type_names = {} /\ visitor.type_name_conflicts = {}
    /\ visitor.field_name_conflicts = {}
    /\ visitor.type_renamed_to_builtin_scalar_conflicts = {}
    /\ visitor.types_involving_interfaces_with_field_renamings = {}
    /\ BuiltinScalars \cap DOMAIN type_renamings = {}
    /\ NoOpTypeRenames = {} /\ visitor.no_op_field_renamings = {}
    /\ NonexistentTypesWithFieldRenamings = {}

(* The visitor has recorded what it has entered; when it is through without a *)
(* complaint the definitions that stay have been renamed, and then the fields *)
(* of the query type.                                                         *)
RenameInv ==
    /\ ArgumentsOK
    /\ entered \in 0..Len(schema)
    /\ pending \in Seq(Types \cup BuiltinScalars)
    /\ VisitorInv(visitor, entered)
    /\ outcome \in {"visiting", "renamed"} =>
          /\ renamed \in Seq({RenamedDefinition(schema[i]) : i \in 1..Len(schema)})
          /\ MadeFrom(renamed, entered, RenamedDefinition)
    /\ outcome \in {"renamed", "done", "TypeError"} => entered = Len(schema) /\ NoComplaints
    /\ outcome \in {"done", "TypeError"} =>
          /\ MadeFrom(renamed, Len(schema), Final)
          /\ \A a \in DOMAIN renamed : renamed[a].kind = "object" => renamed[a].fields # {}
          /\ outcome = "done" <=> Builds(renamed)

LEMMA VerdictIs ==
    /\ Verdict = "renamed" => NoComplaints
    /\ Verdict \notin {"visiting", "done", "TypeError"}
<1> DEFINE raised == {i \in DOMAIN Complaints : Complaints[i].due}
<1>1. DOMAIN Complaints = 1..5
  BY DEF Complaints
<1>2. \A i \in 1..5 : Complaints[i].error \notin {"renamed", "visiting", "done", "TypeError"}
  BY DEF Complaints
<1>3. raised = {} => NoComplaints
  <2> SUFFICES ASSUME raised = {} PROVE NoComplaints
    OBVIOUS
  <2>1. /\ ~Complaints[1].due /\ ~Complaints[2].due /\ ~Complaints[3].due
        /\ ~Complaints[4].due /\ ~Complaints[5].due
    BY <1>1
  <2> QED BY <2>1 DEF Complaints, NoComplaints
<1>4. raised # {} => Min(raised) \in 1..5
  <2> HIDE DEF raised
  <2>1. raised \subseteq 1..5
    BY <1>1 DEF raised
  <2>2. raised # {} => \E x \in raised : \A y \in raised : x <= y
    <3>1. \A k \in 1..5 : k \in raised /\ (\A j \in 1..5 : j < k => j \notin raised)
                             => \A y \in raised : k <= y
      BY <2>1
    <3>2. ASSUME NEW x \in raised PROVE \E k \in {1, 2, 3, 4, 5} : k \in raised
      <4>1. x \in {1, 2, 3, 4, 5}
        BY <2>1
      <4> QED BY <4>1
    <3>3. \A j \in 1..5 : /\ j < 5 => j \in {1, 2, 3, 4}
                          /\ j < 4 => j \in {1, 2, 3}
                          /\ j < 3 => j \in {1, 2}
                          /\ j < 2 => j = 1
                          /\ ~(j < 1)
      OBVIOUS
    <3> QED BY <3>1, <3>2, <3>3
  <2>3. raised # {} => Min(raised) \in raised
    BY <2>2 DEF Min
  <2> QED BY <2>1, <2>3
<1> HIDE DEF raised
<1>5. Verdict = IF raised = {} THEN "renamed" ELSE Complaints[Min(raised)].error
  BY DEF Verdict, raised
<1> QED BY <1>2, <1>3, <1>4, <1>5

(* What is defined from the arguments stays while they stay.                  *)
LEMMA ArgumentsStay ==
    ASSUME UNCHANGED arguments, NEW node
    PROVE  /\ Types' = Types
           /\ \A t : /\ Desired(t)' = Desired(t) /\ IsSuppressed(t)' = IsSuppressed(t)
                     /\ NewTypeName(t)' = NewTypeName(t)
                     /\ FieldRenamingsOf(t)' = FieldRenamingsOf(t)
           /\ \A t, f : NewFieldNames(t, f)' = NewFieldNames(t, f)
           /\ FieldsToSuppress(node)' = FieldsToSuppress(node)
           /\ RenamedFields(node)' = RenamedFields(node)
           /\ RenamedDefinition(node)' = RenamedDefinition(node)
           /\ WithRootFieldsRenamed(node)' = WithRootFieldsRenamed(node)
<1>0. schema' = schema /\ type_renamings' = type_renamings /\ field_renamings' = field_renamings
  BY DEF arguments
<1>1. Types' = Types
  BY <1>0 DEF Types
<1>2. \A t : Desired(t)' = Desired(t)
  BY <1>0 DEF Desired
<1>3. \A t : IsSuppressed(t)' = IsSuppressed(t) /\ NewTypeName(t)' = NewTypeName(t)
  BY <1>2, Zenon DEF IsSuppressed, NewTypeName, IsIdle
<1>4. \A t : FieldRenamingsOf(t)' = FieldRenamingsOf(t)
  BY <1>0 DEF FieldRenamingsOf
<1>5. \A t, f : NewFieldNames(t, f)' = NewFieldNames(t, f)
  BY <1>4 DEF NewFieldNames
<1>6. FieldsToSuppress(node)' = FieldsToSuppress(node)
  BY <1>0, <1>5 DEF FieldsToSuppress
<1>7. RenamedFields(node)' = RenamedFields(node)
  <2> DEFINE new(f) == {[f EXCEPT !.name = n] : n \in NewFieldNames(node.name, f.name)}
             kept == node.fields \ FieldsToSuppress(node)
             all == UNION {new(f) : f \in node.fields}
  <2>1. \A f : new(f)' = new(f)
    BY <1>5
  <2>2. kept' = kept
    BY <1>6
  <2>3. RenamedFields(node) = IF FieldsToSuppress(node) # {} THEN kept ELSE all
    BY DEF RenamedFields
  <2>4. RenamedFields(node)' = IF FieldsToSuppress(node)' # {} THEN kept' ELSE all'
    BY DEF RenamedFields
  <2> HIDE DEF new
  <2>5. all' = all
    BY <2>1
  <2> HIDE DEF kept, all
  <2> QED BY <1>6, <2>2, <2>3, <2>4, <2>5
<1>8. RenamedDefinition(node)' = RenamedDefinition(node)
  <2> DEFINE fields == IF node.kind = "object" /\ ~IsIdle(node.name)
                       THEN RenamedFields(node) ELSE node.fields
             typed == {[f EXCEPT !.type = NewTypeName(@)] : f \in fields}
             refs == {NewTypeName(r) : r \in node.refs} \ {NULL}
             name == NewTypeName(node.name)
  <2>1. fields' = fields
    BY <1>7 DEF IsIdle
  <2> HIDE DEF fields
  <2>2. typed' = typed /\ refs' = refs /\ name' = name
    BY <1>3, <2>1
  <2> HIDE DEF typed, refs, name
  <2>3. RenamedDefinition(node) = [node EXCEPT !.name = name, !.fields = typed, !.refs = refs]
    BY DEF RenamedDefinition, fields, typed, refs, name
  <2>4. RenamedDefinition(node)' = [node EXCEPT !.name = name', !.fields = typed', !.refs = refs']
    BY DEF RenamedDefinition, fields, typed, refs, name
  <2> QED BY <2>2, <2>3, <2>4
<1>9. WithRootFieldsRenamed(node)' = WithRootFieldsRenamed(node)
  BY <1>2 DEF WithRootFieldsRenamed
<1> QED BY <1>1, <1>2, <1>3, <1>4, <1>5, <1>6, <1>7, <1>8, <1>9

LEMMA VisitorInvStays ==
    ASSUME UNCHANGED arguments, NEW v, NEW n
    PROVE  VisitorInv(v, n)' <=> VisitorInv(v, n)
<1>0. schema' = schema /\ type_renamings' = type_renamings /\ field_renamings' = field_renamings
  BY DEF arguments
<1>1. Types' = Types /\ \A t : /\ Desired(t)' = Desired(t) /\ IsSuppressed(t)' = IsSuppressed(t)
                               /\ FieldRenamingsOf(t)' = FieldRenamingsOf(t)
  BY ArgumentsStay
<1>2. NamesInv(v)' <=> NamesInv(v)
  BY <1>1 DEF NamesInv, IsIdle
<1>3. \A t : TypeRecorded(v, t)' <=> TypeRecorded(v, t)
  BY <1>1 DEF TypeRecorded, IsIdle
<1>4. \A node : StaysWithFields(node)' <=> StaysWithFields(node)
  <2>1. \A node : FieldsToSuppress(node)' = FieldsToSuppress(node)
    BY ArgumentsStay
  <2> QED BY <1>0, <1>1, <2>1 DEF StaysWithFields, IsIdle
<1>5. ASSUME NEW node PROVE OriginalNames(node)' = OriginalNames(node)
  <2>1. /\ RenamedFields(node)' = RenamedFields(node)
        /\ \A t, f : NewFieldNames(t, f)' = NewFieldNames(t, f)
    BY ArgumentsStay
  <2> QED BY <2>1 DEF OriginalNames
<1>6. \A node : FieldsRecorded(v, node)' <=> FieldsRecorded(v, node)
  <2>1. \A t, f : NewFieldNames(t, f)' = NewFieldNames(t, f)
    BY ArgumentsStay
  <2> QED BY <1>1, <1>5, <2>1 DEF FieldsRecorded
<1>7. \A node : NodeRecorded(v, node)' <=> NodeRecorded(v, node)
  <2>1. \A node : FieldsToSuppress(node)' = FieldsToSuppress(node)
    BY ArgumentsStay
  <2> QED BY <1>0, <1>1, <1>4, <1>6, <2>1 DEF NodeRecorded, IsIdle
<1>8. FieldsInv(v, n)' <=> FieldsInv(v, n)
  BY <1>0, <1>4, <1>7 DEF FieldsInv
<1> QED BY <1>0, <1>2, <1>3, <1>8 DEF VisitorInv

LEMMA RenameInvInit == SchemaInit => RenameInv
<1> SUFFICES ASSUME SchemaInit PROVE RenameInv
  OBVIOUS
<1>1. ArgumentsOK /\ entered \in 0..Len(schema) /\ entered = 0
  BY SchemaFacts DEF SchemaInit, ArgumentsOK
<1>2. pending \in Seq(Types \cup BuiltinScalars)
  BY DEF SchemaInit
<1>3. NamesInv(NewVisitor)
  BY DEF NewVisitor, NamesInv, Records
<1>4. 1..0 = {}
  OBVIOUS
<1>5. FieldsInv(NewVisitor, 0)
  BY <1>4 DEF FieldsInv, NewVisitor
<1>6. VisitorInv(visitor, entered)
  BY <1>1, <1>3, <1>4, <1>5 DEF VisitorInv, SchemaInit
<1>7. renamed = <<>> /\ DOMAIN renamed = {}
  BY DEF SchemaInit
<1>8. renamed \in Seq({RenamedDefinition(schema[i]) : i \in 1..Len(schema)})
  BY <1>7
<1>9. MadeFrom(renamed, entered, RenamedDefinition)
  BY <1>1, <1>4, <1>7 DEF MadeFrom
<1> QED BY <1>1, <1>2, <1>6, <1>8, <1>9 DEF SchemaInit, RenameInv

LEMMA MadeFromIs ==
    ASSUME NEW result, NEW n,
           \A a \in DOMAIN result : \E i \in 1..n :
              Stays(i) /\ result[a] = RenamedDefinition(schema[i]),
           \A i \in 1..n : Stays(i) =>
              \E a \in DOMAIN result : result[a] = RenamedDefinition(schema[i]),
           \A a, b \in DOMAIN result : a # b =>
              \E i, j \in 1..n : /\ i # j /\ Stays(i) /\ Stays(j)
                                 /\ result[a] = RenamedDefinition(schema[i])
                                 /\ result[b] = RenamedDefinition(schema[j]),
           \A i, j \in 1..n : i # j /\ Stays(i) /\ Stays(j) =>
              \E a, b \in DOMAIN result : /\ a # b
                                          /\ result[a] = RenamedDefinition(schema[i])
                                          /\ result[b] = RenamedDefinition(schema[j])
    PROVE  MadeFrom(result, n, RenamedDefinition)
BY DEF MadeFrom

(* One more definition is entered, and stays.                                 *)
LEMMA MadeFromOneMore ==
    ASSUME NEW S, NEW result \in Seq(S), NEW n \in Nat,
           MadeFrom(result, n, RenamedDefinition), Stays(n + 1)
    PROVE  MadeFrom(Append(result, RenamedDefinition(schema[n + 1])), n + 1, RenamedDefinition)
<1> DEFINE made == RenamedDefinition(schema[n + 1])
           more == Append(result, made)
<1>1. /\ Len(result) \in Nat /\ DOMAIN result = 1..Len(result)
      /\ DOMAIN more = 1..(Len(result) + 1)
      /\ \A a \in DOMAIN result : more[a] = result[a]
      /\ more[Len(result) + 1] = made
  BY LenProperties
<1>2. DOMAIN more = DOMAIN result \cup {Len(result) + 1} /\ Len(result) + 1 \notin DOMAIN result
  BY <1>1
<1>3. 1..(n + 1) = 1..n \cup {n + 1} /\ n + 1 \notin 1..n
  OBVIOUS
<1> DEFINE last == Len(result) + 1
           next == n + 1
<1> HIDE DEF more, last, next, made
<1>4. /\ DOMAIN more = DOMAIN result \cup {last} /\ last \notin DOMAIN result
      /\ \A a \in DOMAIN result : more[a] = result[a]
      /\ more[last] = made /\ made = RenamedDefinition(schema[next])
      /\ 1..next = 1..n \cup {next} /\ next \notin 1..n /\ Stays(next)
  BY <1>1, <1>2, <1>3 DEF last, next, made
<1>5. MadeFrom(more, next, RenamedDefinition)
  <2>1. \A a \in DOMAIN more : \E i \in 1..next : Stays(i) /\ more[a] = RenamedDefinition(schema[i])
    BY <1>4 DEF MadeFrom
  <2>2. \A i \in 1..next : Stays(i) => \E a \in DOMAIN more : more[a] = RenamedDefinition(schema[i])
    BY <1>4 DEF MadeFrom
  <2>3. ASSUME NEW a \in DOMAIN more, NEW b \in DOMAIN more, a # b
        PROVE  \E i, j \in 1..next : /\ i # j /\ Stays(i) /\ Stays(j)
                                     /\ more[a] = RenamedDefinition(schema[i])
                                     /\ more[b] = RenamedDefinition(schema[j])
    <3>1. CASE a \in DOMAIN result /\ b \in DOMAIN result
      <4>1. PICK i \in 1..n, j \in 1..n :
               /\ i # j /\ Stays(i) /\ Stays(j)
               /\ result[a] = RenamedDefinition(schema[i])
               /\ result[b] = RenamedDefinition(schema[j])
        BY <2>3, <3>1 DEF MadeFrom
      <4> QED BY <1>4, <3>1, <4>1
    <3>2. CASE a = last /\ b \in DOMAIN result
      <4>1. PICK j \in 1..n : Stays(j) /\ result[b] = RenamedDefinition(schema[j])
        BY <3>2 DEF MadeFrom
      <4> QED BY <1>4, <3>2, <4>1
    <3>3. CASE a \in DOMAIN result /\ b = last
      <4>1. PICK i \in 1..n : Stays(i) /\ result[a] = RenamedDefinition(schema[i])
        BY <3>3 DEF MadeFrom
      <4> QED BY <1>4, <3>3, <4>1
    <3> QED BY <1>4, <2>3, <3>1, <3>2, <3>3
  <2>4. ASSUME NEW i \in 1..next, NEW j \in 1..next, i # j, Stays(i), Stays(j)
        PROVE  \E a, b \in DOMAIN more : /\ a # b
                                         /\ more[a] = RenamedDefinition(schema[i])
                                         /\ more[b] = RenamedDefinition(schema[j])
    <3>1. CASE i \in 1..n /\ j \in 1..n
      <4>1. PICK a \in DOMAIN result, b \in DOMAIN result :
               /\ a # b
               /\ result[a] = RenamedDefinition(schema[i])
               /\ result[b] = RenamedDefinition(schema[j])
        BY <2>4, <3>1 DEF MadeFrom
      <4> QED BY <1>4, <4>1
    <3>2. CASE i = next /\ j \in 1..n
      <4>1. PICK b \in DOMAIN result : result[b] = RenamedDefinition(schema[j])
        BY <2>4, <3>2 DEF MadeFrom
      <4> QED BY <1>4, <3>2, <4>1
    <3>3. CASE i \in 1..n /\ j = next
      <4>1. PICK a \in DOMAIN result : result[a] = RenamedDefinition(schema[i])
        BY <2>4, <3>3 DEF MadeFrom
      <4> QED BY <1>4, <3>3, <4>1
    <3> QED BY <1>4, <2>4, <3>1, <3>2, <3>3
  <2>5. \A a, b \in DOMAIN more : a # b =>
           \E i, j \in 1..next : /\ i # j /\ Stays(i) /\ Stays(j)
                                 /\ more[a] = RenamedDefinition(schema[i])
                                 /\ more[b] = RenamedDefinition(schema[j])
    BY <2>3, Zenon
  <2>6. \A i, j \in 1..next : i # j /\ Stays(i) /\ Stays(j) =>
           \E a, b \in DOMAIN more : /\ a # b
                                     /\ more[a] = RenamedDefinition(schema[i])
                                     /\ more[b] = RenamedDefinition(schema[j])
    BY <2>4, Zenon
  <2> QED BY <2>1, <2>2, <2>5, <2>6, MadeFromIs
<1> QED BY <1>5 DEF more, next, made

(* Nothing is added for a definition that is suppressed.                      *)
LEMMA MadeFromNoMore ==
    ASSUME NEW result, NEW n \in Nat, MadeFrom(result, n, RenamedDefinition), ~Stays(n + 1)
    PROVE  MadeFrom(result, n + 1, RenamedDefinition)
<1> DEFINE next == n + 1
<1>1. 1..next = 1..n \cup {next}
  OBVIOUS
<1> HIDE DEF next
<1>2. ~Stays(next)
  BY DEF next
<1>3. \A i \in 1..next : Stays(i) => i \in 1..n
  BY <1>1, <1>2
<1>4. \A a \in DOMAIN result : \E i \in 1..next : Stays(i) /\ result[a] = RenamedDefinition(schema[i])
  BY <1>1 DEF MadeFrom
<1>5. \A i \in 1..next : Stays(i) => \E a \in DOMAIN result : result[a] = RenamedDefinition(schema[i])
  BY <1>3 DEF MadeFrom
<1>6. ASSUME NEW a \in DOMAIN result, NEW b \in DOMAIN result, a # b
      PROVE  \E i, j \in 1..next : /\ i # j /\ Stays(i) /\ Stays(j)
                                   /\ result[a] = RenamedDefinition(schema[i])
                                   /\ result[b] = RenamedDefinition(schema[j])
  <2>1. PICK i \in 1..n, j \in 1..n : /\ i # j /\ Stays(i) /\ Stays(j)
                                      /\ result[a] = RenamedDefinition(schema[i])
                                      /\ result[b] = RenamedDefinition(schema[j])
    BY <1>6 DEF MadeFrom
  <2>2. i \in 1..next /\ j \in 1..next
    BY <1>1
  <2> QED BY <2>1, <2>2
<1>7. \A i, j \in 1..next : i # j /\ Stays(i) /\ Stays(j) =>
         \E a, b \in DOMAIN result : /\ a # b
                                     /\ result[a] = RenamedDefinition(schema[i])
                                     /\ result[b] = RenamedDefinition(schema[j])
  BY <1>3 DEF MadeFrom
<1>8. MadeFrom(result, next, RenamedDefinition)
  BY <1>4, <1>5, <1>6, <1>7, MadeFromIs
<1> QED BY <1>8 DEF next

LEMMA MadeFromStays ==
    ASSUME UNCHANGED arguments, NEW result, NEW n
    PROVE  /\ MadeFrom(result, n, RenamedDefinition)' <=> MadeFrom(result, n, RenamedDefinition)
           /\ MadeFrom(result, n, Final)' <=> MadeFrom(result, n, Final)
<1>1. /\ schema' = schema
      /\ \A i : Stays(i)' <=> Stays(i)
  BY ArgumentsStay DEF arguments, Stays
<1>2. \A node : RenamedDefinition(node)' = RenamedDefinition(node)
  BY ArgumentsStay
<1>3. \A node : Final(node)' = Final(node)
  <2>1. \A node : WithRootFieldsRenamed(node)' = WithRootFieldsRenamed(node)
    BY ArgumentsStay
  <2> QED BY <1>2, <2>1 DEF Final
<1> QED BY <1>1, <1>2, <1>3 DEF MadeFrom

(* The root fields are renamed in every definition.                           *)
LEMMA MadeFinal ==
    ASSUME NEW defs, NEW n, MadeFrom(defs, n, RenamedDefinition)
    PROVE  MadeFrom([i \in DOMAIN defs |-> WithRootFieldsRenamed(defs[i])], n, Final)
<1> DEFINE result == [i \in DOMAIN defs |-> WithRootFieldsRenamed(defs[i])]
<1>1. DOMAIN result = DOMAIN defs /\ \A a \in DOMAIN defs : \A node :
         defs[a] = RenamedDefinition(node) => result[a] = Final(node)
  BY DEF Final
<1> HIDE DEF result
<1>2. \A a \in DOMAIN result : \E i \in 1..n : Stays(i) /\ result[a] = Final(schema[i])
  BY <1>1 DEF MadeFrom
<1>3. \A i \in 1..n : Stays(i) => \E a \in DOMAIN result : result[a] = Final(schema[i])
  BY <1>1 DEF MadeFrom
<1>4. ASSUME NEW a \in DOMAIN result, NEW b \in DOMAIN result, a # b
      PROVE  \E i, j \in 1..n : /\ i # j /\ Stays(i) /\ Stays(j)
                                /\ result[a] = Final(schema[i]) /\ result[b] = Final(schema[j])
  <2>1. PICK i \in 1..n, j \in 1..n : /\ i # j /\ Stays(i) /\ Stays(j)
                                      /\ defs[a] = RenamedDefinition(schema[i])
                                      /\ defs[b] = RenamedDefinition(schema[j])
    BY <1>1, <1>4 DEF MadeFrom
  <2> QED BY <1>1, <2>1
<1>5. ASSUME NEW i \in 1..n, NEW j \in 1..n, i # j, Stays(i), Stays(j)
      PROVE  \E a, b \in DOMAIN result :
                a # b /\ result[a] = Final(schema[i]) /\ result[b] = Final(schema[j])
  <2>1. PICK a \in DOMAIN defs, b \in DOMAIN defs : /\ a # b
                                                  /\ defs[a] = RenamedDefinition(schema[i])
                                                  /\ defs[b] = RenamedDefinition(schema[j])
    BY <1>5 DEF MadeFrom
  <2> QED BY <1>1, <2>1
<1> QED BY <1>2, <1>3, <1>4, <1>5 DEF MadeFrom, result

LEMMA RenameInvNext ==
    ASSUME RenameInv, SchemaNext PROVE RenameInv'
<1>1. UNCHANGED arguments
  BY DEF SchemaNext, RejectUnsupported, SuppressDefinition, EnterDefinition, EnterNamedType,
         LeaveSchema, RenameQueryTypeFields
<1>2. schema' = schema /\ ArgumentsOK' /\ Types' = Types
      /\ type_renamings' = type_renamings /\ field_renamings' = field_renamings
  BY <1>1, ArgumentsStay DEF arguments, RenameInv, ArgumentsOK
<1>3. /\ ArgumentsOK /\ entered \in 0..Len(schema) /\ pending \in Seq(Types \cup BuiltinScalars)
      /\ VisitorInv(visitor, entered) /\ Len(schema) \in Nat /\ entered \in Nat
  <2>1. /\ ArgumentsOK /\ entered \in 0..Len(schema)
        /\ pending \in Seq(Types \cup BuiltinScalars) /\ VisitorInv(visitor, entered)
    BY DEF RenameInv
  <2>2. Len(schema) \in Nat
    BY <2>1, SchemaFacts
  <2> QED BY <2>1, <2>2
<1>4. (pending \in Seq(Types \cup BuiltinScalars))'
         <=> pending' \in Seq(Types \cup BuiltinScalars)
  BY <1>2
<1>5. (VisitorInv(visitor, entered))' <=> VisitorInv(visitor', entered')
  BY <1>1, VisitorInvStays
<1>6. {RenamedDefinition(schema[i]) : i \in 1..Len(schema)}'
          = {RenamedDefinition(schema[i]) : i \in 1..Len(schema)}
  <2>1. \A node : RenamedDefinition(node)' = RenamedDefinition(node)
    BY <1>1, ArgumentsStay
  <2> QED BY <1>2, <2>1
<1>7. /\ (MadeFrom(renamed, entered, RenamedDefinition))'
             <=> MadeFrom(renamed', entered', RenamedDefinition)
      /\ (MadeFrom(renamed, Len(schema), Final))' <=> MadeFrom(renamed', Len(schema), Final)
  <2>1. Len(schema)' = Len(schema)
    BY <1>2
  <2> QED BY <1>1, <2>1, MadeFromStays
<1> DEFINE S == {RenamedDefinition(schema[i]) : i \in 1..Len(schema)}
<1>8. ASSUME outcome = "visiting", outcome' = "visiting",
             entered' \in 0..Len(schema), pending' \in Seq(Types \cup BuiltinScalars),
             VisitorInv(visitor', entered'),
             renamed' \in Seq(S), MadeFrom(renamed', entered', RenamedDefinition)
      PROVE  RenameInv'
  BY <1>2, <1>4, <1>5, <1>6, <1>7, <1>8 DEF RenameInv
<1>9. CASE RejectUnsupported
  BY <1>2, <1>3, <1>4, <1>5, <1>9 DEF RejectUnsupported, RenameInv
<1>10. CASE SuppressDefinition
  <2>1. /\ outcome = "visiting" /\ outcome' = "visiting" /\ entered < Len(schema)
        /\ ~Stays(entered + 1) /\ entered' = entered + 1
        /\ visitor' = Recorded(visitor, schema[entered + 1].name)
        /\ pending' = pending /\ renamed' = renamed
    BY <1>10 DEF SuppressDefinition, CanEnter, Stays
  <2>2. VisitorInv(visitor', entered')
    BY <1>3, <2>1, AfterSuppression DEF Stays
  <2>3. renamed' \in Seq(S) /\ MadeFrom(renamed', entered', RenamedDefinition)
    BY <1>3, <2>1, MadeFromNoMore DEF RenameInv
  <2> QED BY <1>3, <1>8, <2>1, <2>2, <2>3
<1>11. CASE EnterDefinition
  <2> DEFINE node == schema[entered + 1]
             fields == IF node.kind = "object" /\ ~IsIdle(node.name)
                       THEN RenamedFields(node) ELSE node.fields
             below == References([node EXCEPT !.fields = fields])
  <2>1. /\ outcome = "visiting" /\ outcome' = "visiting" /\ entered < Len(schema)
        /\ Stays(entered + 1) /\ entered' = entered + 1
        /\ visitor' = RecordedDefinition(visitor, node)
        /\ pending' = SetToSeq(below) /\ renamed' = Append(renamed, RenamedDefinition(node))
    BY <1>11 DEF EnterDefinition, CanEnter, Stays
  <2>2. VisitorInv(visitor', entered')
    BY <1>3, <2>1, AfterDefinition DEF Stays
  <2>3. entered + 1 \in 1..Len(schema)
    BY <1>3, <2>1
  <2>4. IsDefinition(node) /\ References(node) \subseteq Types \cup BuiltinScalars
    BY <1>3, <2>3, SchemaFacts
  <2>5. below \subseteq References(node)
    <3>1. CASE node.kind = "object" /\ ~IsIdle(node.name)
      <4>1. below = References([node EXCEPT !.fields = RenamedFields(node)])
        BY <3>1
      <4> HIDE DEF node
      <4> QED BY <2>4, <4>1, NewReferences
    <3>2. CASE ~(node.kind = "object" /\ ~IsIdle(node.name))
      <4>1. below = References([node EXCEPT !.fields = node.fields])
        BY <3>2
      <4> HIDE DEF node, below
      <4> QED BY <2>4, <4>1 DEF References, IsDefinition
    <3> QED BY <3>1, <3>2
  <2> HIDE DEF below
  <2>6. IsFiniteSet(References(node))
    BY <2>4, ReferencesAreFinite DEF IsDefinition
  <2>7. IsFiniteSet(below)
    BY <2>5, <2>6, FS_Subset
  <2>8. pending' \in Seq(Types \cup BuiltinScalars)
    BY <2>1, <2>4, <2>5, <2>7, OrderedSet
  <2>9. renamed \in Seq(S) /\ MadeFrom(renamed, entered, RenamedDefinition)
    BY <2>1 DEF RenameInv
  <2>10. RenamedDefinition(node) \in S
    BY <2>3
  <2>11. renamed' \in Seq(S)
    <3> HIDE DEF S, node
    <3> QED BY <2>1, <2>9, <2>10, AppendProperties
  <2>12. MadeFrom(renamed', entered', RenamedDefinition)
    <3> HIDE DEF S
    <3> QED BY <1>3, <2>1, <2>9, MadeFromOneMore
  <2> HIDE DEF S
  <2> QED BY <1>3, <1>8, <2>1, <2>2, <2>3, <2>8, <2>11, <2>12
<1>12. CASE EnterNamedType
  <2>1. /\ outcome = "visiting" /\ outcome' = "visiting" /\ pending # <<>>
        /\ visitor' = Recorded(visitor, Head(pending)) /\ pending' = Tail(pending)
        /\ entered' = entered /\ renamed' = renamed
    BY <1>12 DEF EnterNamedType
  <2>2. Head(pending) \in Types \cup BuiltinScalars
        /\ pending' \in Seq(Types \cup BuiltinScalars)
    BY <1>3, <2>1, HeadTailProperties
  <2>3. VisitorInv(visitor', entered')
    BY <1>3, <2>1, <2>2, AfterName
  <2>4. renamed' \in Seq(S) /\ MadeFrom(renamed', entered', RenamedDefinition)
    BY <2>1 DEF RenameInv
  <2> HIDE DEF S
  <2> QED BY <1>3, <1>8, <2>1, <2>2, <2>3, <2>4
<1>13. CASE LeaveSchema
  <2>1. /\ outcome = "visiting" /\ entered = Len(schema) /\ outcome' = Verdict
        /\ UNCHANGED <<entered, pending, renamed, visitor>>
    BY <1>13 DEF LeaveSchema
  <2>2. /\ outcome' = "renamed" => NoComplaints
        /\ outcome' \notin {"visiting", "done", "TypeError"}
    BY <2>1, VerdictIs
  <2>3. NoComplaints => NoComplaints'
    BY <1>2, <2>1 DEF NoComplaints, NoOpTypeRenames, NonexistentTypesWithFieldRenamings,
                      ChangedNames
  <2>4. renamed' \in Seq(S) /\ MadeFrom(renamed', entered', RenamedDefinition)
    BY <2>1 DEF RenameInv
  <2> HIDE DEF S
  <2>5. VisitorInv(visitor', entered') /\ pending' \in Seq(Types \cup BuiltinScalars)
        /\ entered' \in 0..Len(schema) /\ entered' = Len(schema) /\ Len(schema)' = Len(schema)
    BY <1>2, <1>3, <2>1
  <2> QED BY <1>2, <1>4, <1>5, <1>6, <1>7, <2>2, <2>3, <2>4, <2>5 DEF RenameInv, S
<1>14. CASE RenameQueryTypeFields
  <2> DEFINE emptied == \E i \in DOMAIN renamed : renamed[i].kind = "object"
                                                   /\ renamed'[i].fields = {}
  <2>1. /\ outcome = "renamed"
        /\ renamed' = [i \in DOMAIN renamed |-> WithRootFieldsRenamed(renamed[i])]
        /\ outcome' = IF emptied THEN "SchemaTransformError"
                      ELSE IF Builds(renamed') THEN "done" ELSE "TypeError"
        /\ UNCHANGED <<entered, pending, visitor>>
    BY <1>14 DEF RenameQueryTypeFields
  <2>2. /\ entered = Len(schema) /\ NoComplaints
        /\ MadeFrom(renamed, Len(schema), RenamedDefinition)
    BY <2>1 DEF RenameInv
  <2>3. NoComplaints'
    BY <1>2, <2>1, <2>2 DEF NoComplaints, NoOpTypeRenames, NonexistentTypesWithFieldRenamings,
                            ChangedNames
  <2>4. MadeFrom(renamed', Len(schema), Final)
    BY <2>1, <2>2, MadeFinal
  <2>5. ~emptied => \A a \in DOMAIN renamed' : renamed'[a].kind = "object" => renamed'[a].fields # {}
    <3>1. ASSUME NEW a \in DOMAIN renamed
          PROVE  renamed'[a].kind = "object" => renamed[a].kind = "object"
      <4>1. renamed'[a] = WithRootFieldsRenamed(renamed[a])
        BY <2>1
      <4>2. PICK i \in 1..Len(schema) : renamed[a] = RenamedDefinition(schema[i])
        BY <2>2 DEF MadeFrom
      <4>3. DOMAIN renamed[a] = {"kind", "name", "fields", "refs"}
        <5>1. IsDefinition(schema[i])
          BY <1>3, SchemaFacts
        <5> QED BY <4>2, <5>1 DEF RenamedDefinition, IsDefinition
      <4> QED BY <4>1, <4>3 DEF WithRootFieldsRenamed
    <3>2. DOMAIN renamed' = DOMAIN renamed
      BY <2>1
    <3> QED BY <3>1, <3>2
  <2>6. /\ outcome' \in {"SchemaTransformError", "done", "TypeError"}
        /\ outcome' \in {"done", "TypeError"} => ~emptied /\ (outcome' = "done" <=> Builds(renamed'))
    BY <2>1
  <2> HIDE DEF emptied
  <2>7. Builds(renamed)' <=> Builds(renamed')
    BY DEF Builds, NamesOf, References
  <2>8. VisitorInv(visitor', entered') /\ pending' \in Seq(Types \cup BuiltinScalars)
        /\ entered' \in 0..Len(schema) /\ entered' = Len(schema) /\ Len(schema)' = Len(schema)
    BY <1>2, <1>3, <2>1, <2>2
  <2> QED
    BY <1>2, <1>4, <1>5, <1>7, <2>3, <2>4, <2>5, <2>6, <2>7, <2>8 DEF RenameInv
<1> QED
  BY <1>9, <1>10, <1>11, <1>12, <1>13, <1>14 DEF SchemaNext

(* Reading a query leaves what was renamed alone.                             *)
LEMMA QueryLeavesSchema == Next => SchemaNext \/ UNCHANGED schema_vars
  BY DEF Next, Rename, EnterRootField, EnterField, EnterInlineFragment, Leave,
         LeaveQuery, Entered, RaiseAt

LEMMA RenameInvStutters ==
    ASSUME RenameInv, UNCHANGED schema_vars PROVE RenameInv'
<1>1. UNCHANGED arguments /\ UNCHANGED <<entered, pending, renamed, visitor, outcome>>
  BY DEF schema_vars
<1>2. schema' = schema /\ ArgumentsOK' /\ Types' = Types
      /\ type_renamings' = type_renamings /\ field_renamings' = field_renamings
  BY <1>1, ArgumentsStay DEF arguments, RenameInv, ArgumentsOK
<1>3. (VisitorInv(visitor, entered))' <=> VisitorInv(visitor', entered')
  BY <1>1, VisitorInvStays
<1>4. {RenamedDefinition(schema[i]) : i \in 1..Len(schema)}'
          = {RenamedDefinition(schema[i]) : i \in 1..Len(schema)}
  <2>1. \A node : RenamedDefinition(node)' = RenamedDefinition(node)
    BY <1>1, ArgumentsStay
  <2> QED BY <1>2, <2>1
<1>5. /\ (MadeFrom(renamed, entered, RenamedDefinition))'
             <=> MadeFrom(renamed', entered', RenamedDefinition)
      /\ (MadeFrom(renamed, Len(schema), Final))' <=> MadeFrom(renamed', Len(schema), Final)
  <2>1. Len(schema)' = Len(schema)
    BY <1>2
  <2> QED BY <1>1, <2>1, MadeFromStays
<1>6. NoComplaints' <=> NoComplaints
  BY <1>1, <1>2 DEF NoComplaints, NoOpTypeRenames, NonexistentTypesWithFieldRenamings,
                    ChangedNames
<1>7. Builds(renamed)' <=> Builds(renamed)
  BY <1>1 DEF Builds, NamesOf, References
<1> QED
  BY <1>1, <1>2, <1>3, <1>4, <1>5, <1>6, <1>7 DEF RenameInv

LEMMA RenameInvariant == Spec => []RenameInv
<1>1. Init => RenameInv
  BY RenameInvInit DEF Init
<1>2. RenameInv /\ [Next]_vars => RenameInv'
  BY RenameInvNext, RenameInvStutters, QueryLeavesSchema DEF vars
<1> QED
  BY <1>1, <1>2, PTL DEF Spec

-----------------------------------------------------------------------------
(* What it means that nothing was complained of *)

Accepted ==
    ArgumentsOK /\ VisitorInv(visitor, Len(schema)) /\ NoComplaints

LEMMA AcceptedNames ==
    ASSUME Accepted
    PROVE  /\ \A t \in DOMAIN type_renamings : t \in Types \ {QueryType} /\ Desired(t) # t
           /\ \A t \in {QueryType} \cup BuiltinScalars : Desired(t) = t
           /\ \A t \in Types \cup BuiltinScalars :
                 /\ NewTypeName(t) = Desired(t)
                 /\ IsSuppressed(t) <=> Desired(t) = NULL
                 /\ Kept(t) <=> Desired(t) # NULL
           /\ \A t \in Types : Desired(t) # NULL => Desired(t) \in ValidNames \ BuiltinScalars
           /\ \A t \in Types \ {QueryType} : Desired(t) # NULL =>
                 /\ Desired(t) \in DOMAIN visitor.reverse_name_map
                 /\ visitor.reverse_name_map[Desired(t)] = t
           /\ \A n \in DOMAIN visitor.reverse_name_map :
                 /\ visitor.reverse_name_map[n] \in Types \ {QueryType}
                 /\ Desired(visitor.reverse_name_map[n]) = n /\ n # NULL
<1>1. /\ QueryType \in Types /\ Types \subseteq ValidNames /\ Types \cap BuiltinScalars = {}
      /\ NULL \notin Types \cup BuiltinScalars
      /\ \A t \in Types : \E i \in 1..Len(schema) : schema[i].name = t
  BY SchemaFacts DEF Accepted
<1>2. /\ \A n \in DOMAIN visitor.reverse_name_map :
            /\ visitor.reverse_name_map[n] \in Types /\ ~IsIdle(visitor.reverse_name_map[n])
            /\ Desired(visitor.reverse_name_map[n]) = n /\ n # NULL
      /\ \A t \in visitor.suppressed_type_names : t \in Types /\ ~IsIdle(t) /\ Desired(t) = NULL
      /\ \A t \in Types : TypeRecorded(visitor, t)
  BY <1>1 DEF Accepted, VisitorInv, NamesInv
<1>3. /\ visitor.invalid_type_names = {} /\ visitor.type_name_conflicts = {}
      /\ visitor.type_renamed_to_builtin_scalar_conflicts = {}
      /\ NoOpTypeRenames = {} /\ BuiltinScalars \cap DOMAIN type_renamings = {}
  BY DEF Accepted, NoComplaints
<1>4. ASSUME NEW t \in DOMAIN type_renamings
      PROVE  t \in Types \ {QueryType} /\ Desired(t) # t
  <2>1. \/ \E n \in ChangedNames(visitor.reverse_name_map) : t = visitor.reverse_name_map[n]
        \/ t \in visitor.suppressed_type_names
    BY <1>3 DEF NoOpTypeRenames
  <2> QED BY <1>1, <1>2, <2>1 DEF ChangedNames, IsIdle
<1>5. \A t : t \notin DOMAIN type_renamings => Desired(t) = t
  BY DEF Desired, Lookup
<1>6. \A t \in {QueryType} \cup BuiltinScalars : Desired(t) = t
  BY <1>3, <1>4, <1>5
<1>7. \A t \in Types \ {QueryType} : ~IsIdle(t)
  BY <1>1 DEF IsIdle
<1>8. \A t \in {QueryType} \cup BuiltinScalars : IsIdle(t) /\ t # NULL
  BY <1>1 DEF IsIdle
<1>9. \A t \in Types \cup BuiltinScalars :
         /\ NewTypeName(t) = Desired(t)
         /\ IsSuppressed(t) <=> Desired(t) = NULL
         /\ Kept(t) <=> Desired(t) # NULL
  BY <1>6, <1>7, <1>8 DEF NewTypeName, IsSuppressed, Kept, Desired
<1>10. \A t \in Types \ {QueryType} : Desired(t) # NULL =>
          /\ Desired(t) \in DOMAIN visitor.reverse_name_map
          /\ visitor.reverse_name_map[Desired(t)] = t
          /\ Desired(t) \in ValidNames \ BuiltinScalars
  BY <1>2, <1>3, <1>7 DEF TypeRecorded
<1>11. \A t \in Types : Desired(t) # NULL => Desired(t) \in ValidNames \ BuiltinScalars
  BY <1>1, <1>6, <1>10
<1>12. \A n \in DOMAIN visitor.reverse_name_map :
          /\ visitor.reverse_name_map[n] \in Types \ {QueryType}
          /\ Desired(visitor.reverse_name_map[n]) = n /\ n # NULL
  BY <1>2, <1>8
<1> QED BY <1>4, <1>6, <1>9, <1>10, <1>11, <1>12

(* No type takes the name of the query type, and no interface that stays has  *)
(* a field of a suppressed type.                                              *)
NoRootTaken == \A t \in Types : Desired(t) = QueryType => t = QueryType
InterfacesKept ==
    \A i \in 1..Len(schema) : Stays(i) /\ schema[i].kind = "interface" =>
        \A f \in schema[i].fields : Desired(f.type) # NULL

LEMMA OneToOne ==
    ASSUME Accepted, NoRootTaken, NEW t \in Types \cup BuiltinScalars, Desired(t) # NULL
    PROVE  /\ OriginalType(Desired(t)) = t
           /\ \A u \in Types \cup BuiltinScalars : Desired(u) = Desired(t) => u = t
<1>1. /\ \A n \in DOMAIN visitor.reverse_name_map :
            /\ visitor.reverse_name_map[n] \in Types \ {QueryType}
            /\ Desired(visitor.reverse_name_map[n]) = n /\ n # NULL
      /\ \A u \in Types \ {QueryType} : Desired(u) # NULL =>
            /\ Desired(u) \in DOMAIN visitor.reverse_name_map
            /\ visitor.reverse_name_map[Desired(u)] = u
      /\ \A u \in {QueryType} \cup BuiltinScalars : Desired(u) = u
      /\ \A u \in Types : Desired(u) # NULL => Desired(u) \notin BuiltinScalars
  BY AcceptedNames
<1>2. \A n : OriginalType(n) = IF n \in DOMAIN visitor.reverse_name_map
                              THEN visitor.reverse_name_map[n] ELSE n
  BY DEF OriginalType, reverse_name_map, ChangedOnly, ChangedNames, Lookup
<1>3. QueryType \notin BuiltinScalars
  BY SchemaFacts DEF Accepted
<1>4. CASE t \in Types \ {QueryType}
  BY <1>1, <1>2, <1>3, <1>4 DEF NoRootTaken
<1>5. CASE t \in {QueryType} \cup BuiltinScalars
  <2>1. Desired(t) = t
    BY <1>1, <1>5
  <2>2. t \notin DOMAIN visitor.reverse_name_map
    BY <1>1, <1>5 DEF NoRootTaken
  <2> QED BY <1>1, <1>2, <1>3, <1>5, <2>1, <2>2 DEF NoRootTaken
<1> QED BY <1>4, <1>5

(* Fields are renamed of object types without interfaces only, and as the     *)
(* visitor has recorded it.                                                   *)
LEMMA FieldsAsked ==
    ASSUME Accepted
    PROVE  /\ \A t \in DOMAIN field_renamings :
                 \E i \in 1..Len(schema) : schema[i].name = t
           /\ \A i \in 1..Len(schema) :
                 IF schema[i].name \in DOMAIN field_renamings
                 THEN /\ StaysWithFields(schema[i]) /\ schema[i].refs = {}
                      /\ FieldsRecorded(visitor, schema[i])
                 ELSE /\ schema[i].name \notin DOMAIN visitor.reverse_field_name_map
                      /\ \A f : NewFieldNames(schema[i].name, f) = {f}
<1>1. /\ \A i, j \in 1..Len(schema) : schema[i].name = schema[j].name => i = j
      /\ FieldsInv(visitor, Len(schema))
      /\ visitor.types_involving_interfaces_with_field_renamings = {}
      /\ NonexistentTypesWithFieldRenamings = {}
  BY SchemaFacts DEF Accepted, VisitorInv, NoComplaints
<1>2. \A t \in DOMAIN field_renamings :
         \E i \in 1..Len(schema) : schema[i].name = t /\ StaysWithFields(schema[i])
  BY <1>1 DEF NonexistentTypesWithFieldRenamings, FieldsInv
<1>3. ASSUME NEW i \in 1..Len(schema), schema[i].name \in DOMAIN field_renamings
      PROVE  /\ StaysWithFields(schema[i]) /\ schema[i].refs = {}
             /\ FieldsRecorded(visitor, schema[i])
  <2>1. StaysWithFields(schema[i])
    BY <1>1, <1>2, <1>3
  <2>2. FieldsRecorded(visitor, schema[i])
    BY <1>1, <2>1 DEF FieldsInv, NodeRecorded
  <2>3. schema[i].refs = {}
    BY <1>1, <2>2 DEF FieldsRecorded
  <2> QED BY <2>1, <2>2, <2>3
<1>4. ASSUME NEW i \in 1..Len(schema), schema[i].name \notin DOMAIN field_renamings
      PROVE  /\ schema[i].name \notin DOMAIN visitor.reverse_field_name_map
             /\ \A f : NewFieldNames(schema[i].name, f) = {f}
  <2>1. schema[i].name \notin DOMAIN visitor.reverse_field_name_map
    BY <1>1, <1>4 DEF FieldsInv, StaysWithFields
  <2>2. FieldRenamingsOf(schema[i].name) = [f \in {} |-> {}]
    BY <1>4 DEF FieldRenamingsOf, Lookup
  <2>3. \A f : NewFieldNames(schema[i].name, f) = {f}
    BY <2>2 DEF NewFieldNames, Lookup
  <2> QED BY <2>1, <2>3
<1> QED BY <1>2, <1>3, <1>4

(* The names under which a field of a definition stays.                       *)
NewNames(node, f) ==
    IF node.name = QueryType THEN {Desired(f)} \ {NULL} ELSE NewFieldNames(node.name, f)

(* What is known of a definition of the original schema.                      *)
LEMMA DefinitionFacts ==
    ASSUME Accepted, NEW i \in 1..Len(schema)
    PROVE  LET node == schema[i]
           IN  /\ IsDefinition(node) /\ node.name \in Types
               /\ Stays(i) <=> Desired(node.name) # NULL
               /\ IsIdle(node.name) <=> node.name = QueryType
               /\ References(node) \subseteq Types \cup BuiltinScalars
               /\ \A f, g \in node.fields : f.name = g.name => f = g
               /\ node.name = QueryType =>
                     /\ node.kind = "object" /\ \A f \in node.fields : f.name = f.type
                     /\ node.name \notin DOMAIN field_renamings
<1> DEFINE node == schema[i]
<1>1. /\ IsDefinition(node) /\ node.name \in Types
      /\ References(node) \subseteq Types \cup BuiltinScalars
      /\ IsValidSchema(schema, QueryType) /\ DOMAIN schema = 1..Len(schema)
      /\ Types \cap BuiltinScalars = {}
  BY SchemaFacts DEF Accepted
<1>2. IsIdle(node.name) <=> node.name = QueryType
  BY <1>1 DEF IsIdle
<1>3. Stays(i) <=> Desired(node.name) # NULL
  BY <1>1, AcceptedNames DEF Stays
<1>4. \A f, g \in node.fields : f.name = g.name => f = g
  BY <1>1 DEF IsValidSchema, Builds
<1>5. node.name = QueryType => node.kind = "object" /\ \A f \in node.fields : f.name = f.type
  BY <1>1 DEF IsValidSchema, DefinitionsNamed
<1>6. node.name = QueryType => node.name \notin DOMAIN field_renamings
  BY <1>2, FieldsAsked DEF StaysWithFields
<1> QED BY <1>1, <1>2, <1>3, <1>4, <1>5, <1>6

(* The fields of a definition that stays, renamed.                            *)
LEMMA FieldsAre ==
    ASSUME Accepted, NEW i \in 1..Len(schema), Stays(i)
    PROVE  LET node == schema[i]
               fields == IF node.kind = "object" /\ ~IsIdle(node.name)
                         THEN RenamedFields(node) ELSE node.fields
           IN  /\ \A g : g \in fields <=>
                            \E f \in node.fields : \E n \in NewFieldNames(node.name, f.name) :
                               g = [name |-> n, type |-> f.type]
               /\ node.kind = "object" /\ ~IsIdle(node.name) => FieldsToSuppress(node) = {}
<1> DEFINE node == schema[i]
           fields == IF node.kind = "object" /\ ~IsIdle(node.name)
                     THEN RenamedFields(node) ELSE node.fields
           from(g, f) == \E n \in NewFieldNames(node.name, f.name) :
                             g = [name |-> n, type |-> f.type]
<1>1. IsDefinition(node) /\ ~IsSuppressed(node.name)
  BY DefinitionFacts DEF Stays
<1>2. CASE node.kind = "object" /\ ~IsIdle(node.name)
  <2>1. NodeRecorded(visitor, node) /\ visitor.fields_to_suppress = {}
    BY DEF Accepted, VisitorInv, FieldsInv, NoComplaints
  <2>2. FieldsToSuppress(node) = {}
    BY <1>1, <1>2, <2>1 DEF NodeRecorded
  <2>3. fields = RenamedFields(node)
    BY <1>2
  <2> HIDE DEF node
  <2> QED BY <1>1, <2>2, <2>3, RenamedFieldsAre DEF node
<1>3. CASE ~(node.kind = "object" /\ ~IsIdle(node.name))
  <2>1. \A f : NewFieldNames(node.name, f) = {f}
    BY <1>3, FieldsAsked DEF StaysWithFields
  <2>2. \A f \in node.fields : f = [name |-> f.name, type |-> f.type]
    BY <1>1 DEF IsDefinition
  <2>3. fields = node.fields
    BY <1>3
  <2> HIDE DEF fields
  <2>4. \A g : g \in fields <=> \E f \in node.fields : from(g, f)
    BY <2>1, <2>2, <2>3
  <2> QED BY <1>3, <2>4 DEF fields
<1> QED BY <1>2, <1>3

LEMMA FinalName ==
    ASSUME Accepted, NEW i \in 1..Len(schema)
    PROVE  LET node == schema[i] IN
           /\ Final(node) = [kind |-> node.kind, name |-> Desired(node.name),
                             fields |-> Final(node).fields,
                             refs |-> {Desired(r) : r \in node.refs} \ {NULL}]
           /\ RenamedDefinition(node) =
                 [kind |-> node.kind, name |-> Desired(node.name),
                  fields |-> RenamedDefinition(node).fields,
                  refs |-> {Desired(r) : r \in node.refs} \ {NULL}]
<1> DEFINE node == schema[i]
           made == RenamedDefinition(node)
           refs == {NewTypeName(r) : r \in node.refs} \ {NULL}
<1>1. IsDefinition(node) /\ References(node) \subseteq Types \cup BuiltinScalars
      /\ node.name \in Types
  BY DefinitionFacts
<1>2. refs = {Desired(r) : r \in node.refs} \ {NULL}
  BY <1>1, AcceptedNames DEF References
<1>3. NewTypeName(node.name) = Desired(node.name)
  BY <1>1, AcceptedNames
<1>4. made = [kind |-> node.kind, name |-> Desired(node.name),
              fields |-> made.fields, refs |-> refs]
  <2> DEFINE fields == {[f EXCEPT !.type = NewTypeName(@)] :
                          f \in IF node.kind = "object" /\ ~IsIdle(node.name)
                                THEN RenamedFields(node) ELSE node.fields}
  <2>1. made = [node EXCEPT !.name = NewTypeName(@), !.fields = fields, !.refs = refs]
    BY DEF RenamedDefinition
  <2> HIDE DEF fields, refs, node, made
  <2> QED BY <1>1, <1>3, <2>1 DEF IsDefinition
<1> HIDE DEF made, refs
<1>5. Final(node) = IF made.name # QueryType THEN made
                    ELSE [made EXCEPT !.fields = {[f EXCEPT !.name = Desired(@)] :
                                            f \in {x \in @ : Desired(x.name) # NULL}}]
  BY DEF Final, WithRootFieldsRenamed, made
<1>6. Final(node) = [kind |-> node.kind, name |-> Desired(node.name),
                     fields |-> Final(node).fields, refs |-> refs]
  <2> DEFINE roots == {[f EXCEPT !.name = Desired(@)] :
                          f \in {x \in made.fields : Desired(x.name) # NULL}}
  <2>1. Final(node) = IF made.name # QueryType THEN made ELSE [made EXCEPT !.fields = roots]
    BY <1>5
  <2> HIDE DEF roots, node
  <2> QED BY <1>4, <2>1
<1> QED BY <1>2, <1>4, <1>6 DEF made

LEMMA FinalParts ==
    ASSUME Accepted, NEW i \in 1..Len(schema)
    PROVE  LET node == schema[i] IN
           /\ Final(node).kind = node.kind /\ Final(node).name = Desired(node.name)
           /\ Final(node).refs = {Desired(r) : r \in node.refs} \ {NULL}
           /\ Final(node) = [kind |-> Final(node).kind, name |-> Final(node).name,
                             fields |-> Final(node).fields, refs |-> Final(node).refs]
<1> DEFINE node == schema[i]
           refs == {Desired(r) : r \in node.refs} \ {NULL}
           made == Final(node)
           name == Desired(node.name)
<1>1. made = [kind |-> node.kind, name |-> name, fields |-> made.fields, refs |-> refs]
  BY FinalName
<1> HIDE DEF node, refs, made, name
<1>2. made.kind = node.kind /\ made.name = name /\ made.refs = refs
  BY <1>1
<1>3. made = [kind |-> made.kind, name |-> made.name, fields |-> made.fields, refs |-> made.refs]
  BY <1>1, <1>2
<1> QED BY <1>2, <1>3 DEF node, refs, made, name

LEMMA FinalFields ==
    ASSUME Accepted, NoRootTaken, NEW i \in 1..Len(schema), Stays(i)
    PROVE  \A g : g \in Final(schema[i]).fields <=>
              \E f \in schema[i].fields : \E n \in NewNames(schema[i], f.name) :
                 g = [name |-> n, type |-> Desired(f.type)]
<1> DEFINE node == schema[i]
           fields == IF node.kind = "object" /\ ~IsIdle(node.name)
                     THEN RenamedFields(node) ELSE node.fields
           made == RenamedDefinition(node)
<1>1. /\ IsDefinition(node) /\ node.name \in Types
      /\ \A f \in node.fields : f.type \in Types \cup BuiltinScalars
  BY DefinitionFacts DEF References
<1>2. \A g : g \in fields <=>
         \E f \in node.fields : \E n \in NewFieldNames(node.name, f.name) :
            g = [name |-> n, type |-> f.type]
  BY FieldsAre
<1>3. made.fields = {[f EXCEPT !.type = NewTypeName(@)] : f \in fields}
  <2> DEFINE typed == {[f EXCEPT !.type = NewTypeName(@)] : f \in fields}
             refs == {NewTypeName(r) : r \in node.refs} \ {NULL}
  <2>1. made = [node EXCEPT !.name = NewTypeName(@), !.fields = typed, !.refs = refs]
    BY DEF RenamedDefinition
  <2> HIDE DEF typed, refs, node, made
  <2>2. made.fields = typed
    BY <1>1, <2>1 DEF IsDefinition
  <2> QED BY <2>2 DEF typed
<1> HIDE DEF fields
<1>4. \A t \in Types \cup BuiltinScalars : NewTypeName(t) = Desired(t)
  BY AcceptedNames
<1>5. \A g : g \in made.fields <=>
         \E f \in node.fields : \E n \in NewFieldNames(node.name, f.name) :
            g = [name |-> n, type |-> Desired(f.type)]
  <2>1. ASSUME NEW f \in node.fields, NEW n, NEW h, h = [name |-> n, type |-> f.type]
        PROVE  [h EXCEPT !.type = NewTypeName(@)] = [name |-> n, type |-> Desired(f.type)]
    BY <1>1, <1>4, <2>1
  <2>2. ASSUME NEW g \in made.fields
        PROVE  \E f \in node.fields : \E n \in NewFieldNames(node.name, f.name) :
                  g = [name |-> n, type |-> Desired(f.type)]
    <3>1. PICK h \in fields : g = [h EXCEPT !.type = NewTypeName(@)]
      BY <1>3
    <3>2. PICK f \in node.fields : \E n \in NewFieldNames(node.name, f.name) :
             h = [name |-> n, type |-> f.type]
      BY <1>2
    <3>3. PICK n \in NewFieldNames(node.name, f.name) : h = [name |-> n, type |-> f.type]
      BY <3>2
    <3>4. g = [name |-> n, type |-> Desired(f.type)]
      BY <2>1, <3>1, <3>3
    <3> HIDE DEF node, made
    <3> QED BY <3>4
  <2>3. ASSUME NEW f \in node.fields, NEW n \in NewFieldNames(node.name, f.name)
        PROVE  [name |-> n, type |-> Desired(f.type)] \in made.fields
    <3> DEFINE h == [name |-> n, type |-> f.type]
    <3>1. h \in fields
      BY <1>2
    <3>2. [h EXCEPT !.type = NewTypeName(@)] = [name |-> n, type |-> Desired(f.type)]
      BY <2>1
    <3> HIDE DEF h
    <3> QED BY <1>3, <3>1, <3>2
  <2> QED BY <2>2, <2>3
<1>6. made.name = Desired(node.name) /\ made.kind = node.kind
      /\ made = [kind |-> node.kind, name |-> made.name, fields |-> made.fields, refs |-> made.refs]
  <2> DEFINE refs == {Desired(r) : r \in node.refs} \ {NULL}
  <2>1. made = [kind |-> node.kind, name |-> Desired(node.name),
                fields |-> made.fields, refs |-> refs]
    BY FinalName
  <2> HIDE DEF made, node, refs
  <2> QED BY <2>1
<1>7. CASE node.name # QueryType
  <2>1. made.name # QueryType
    BY <1>1, <1>6, <1>7 DEF NoRootTaken
  <2>2. Final(node) = made
    BY <2>1 DEF Final, WithRootFieldsRenamed
  <2> QED BY <1>5, <1>7, <2>2 DEF NewNames
<1>8. CASE node.name = QueryType
  <2> DEFINE roots == {[f EXCEPT !.name = Desired(@)] :
                          f \in {x \in made.fields : Desired(x.name) # NULL}}
  <2>1. made.name = QueryType
    BY <1>6, <1>8, AcceptedNames
  <2>2. Final(node).fields = roots
    <3>1. Final(node) = [made EXCEPT !.fields = roots]
      BY <2>1 DEF Final, WithRootFieldsRenamed
    <3> HIDE DEF roots, made
    <3> QED BY <1>6, <3>1
  <2>3. \A f : NewFieldNames(node.name, f) = {f}
    BY <1>8, DefinitionFacts, FieldsAsked
  <2>4. \A x : x \in made.fields <=>
           \E f \in node.fields : x = [name |-> f.name, type |-> Desired(f.type)]
    BY <1>5, <2>3
  <2> HIDE DEF made
  <2>5. ASSUME NEW f \in node.fields, NEW x, x = [name |-> f.name, type |-> Desired(f.type)]
        PROVE  [x EXCEPT !.name = Desired(@)] = [name |-> Desired(f.name), type |-> Desired(f.type)]
    BY <2>5
  <2> HIDE DEF node
  <2>6. \A g : g \in roots <=>
           \E f \in node.fields : Desired(f.name) # NULL
              /\ g = [name |-> Desired(f.name), type |-> Desired(f.type)]
    <3>1. ASSUME NEW g \in roots
          PROVE  \E f \in node.fields : Desired(f.name) # NULL
                    /\ g = [name |-> Desired(f.name), type |-> Desired(f.type)]
      <4>1. PICK x \in made.fields : Desired(x.name) # NULL /\ g = [x EXCEPT !.name = Desired(@)]
        OBVIOUS
      <4>2. PICK f \in node.fields : x = [name |-> f.name, type |-> Desired(f.type)]
        BY <2>4
      <4> QED BY <2>5, <4>1, <4>2
    <3>2. ASSUME NEW f \in node.fields, Desired(f.name) # NULL
          PROVE  [name |-> Desired(f.name), type |-> Desired(f.type)] \in roots
      <4> DEFINE x == [name |-> f.name, type |-> Desired(f.type)]
      <4>1. x \in made.fields /\ x.name = f.name
        BY <2>4
      <4>2. [x EXCEPT !.name = Desired(@)] = [name |-> Desired(f.name), type |-> Desired(f.type)]
        BY <2>5
      <4> HIDE DEF x
      <4> QED BY <3>2, <4>1, <4>2
    <3> QED BY <3>1, <3>2
  <2> HIDE DEF roots
  <2> QED BY <1>8, <2>2, <2>6 DEF NewNames, node
<1> QED BY <1>7, <1>8

(* No name is given to two fields of a definition, and no field stays whose   *)
(* type does not.                                                             *)
LEMMA NewNamesAreApart ==
    ASSUME Accepted, NoRootTaken, NEW i \in 1..Len(schema), Stays(i),
           NEW f \in schema[i].fields
    PROVE  \A g \in schema[i].fields :
              NewNames(schema[i], f.name) \cap NewNames(schema[i], g.name) # {} => f = g
<1> DEFINE node == schema[i]
<1>1. \A g, h \in node.fields : g.name = h.name => g = h
  BY DefinitionFacts
<1> SUFFICES ASSUME NEW g \in node.fields,
                    NEW n \in NewNames(node, f.name) \cap NewNames(node, g.name)
             PROVE  f.name = g.name
  BY <1>1
<1>2. CASE node.name = QueryType
  <2>1. /\ f.name = f.type /\ g.name = g.type /\ References(node) \subseteq Types \cup BuiltinScalars
    BY <1>2, DefinitionFacts
  <2>2. f.name \in Types \cup BuiltinScalars /\ g.name \in Types \cup BuiltinScalars
    BY <2>1 DEF References
  <2>3. Desired(f.name) = n /\ Desired(g.name) = n /\ n # NULL
    BY <1>2 DEF NewNames
  <2> QED BY <2>2, <2>3, OneToOne
<1>3. CASE node.name # QueryType /\ node.name \in DOMAIN field_renamings
  <2>1. FieldsRecorded(visitor, node) /\ visitor.field_name_conflicts = {}
    BY <1>3, FieldsAsked DEF Accepted, NoComplaints
  <2>2. f.name \in FieldNames(node) /\ g.name \in FieldNames(node)
    BY DEF FieldNames
  <2> QED BY <1>3, <2>1, <2>2 DEF NewNames, FieldsRecorded
<1>4. CASE node.name # QueryType /\ node.name \notin DOMAIN field_renamings
  <2>1. \A x : NewNames(node, x) = {x}
    BY <1>4, FieldsAsked DEF NewNames
  <2> QED BY <2>1
<1> QED BY <1>2, <1>3, <1>4

LEMMA TypesOfFieldsStay ==
    ASSUME Accepted, InterfacesKept, NEW i \in 1..Len(schema), Stays(i),
           NEW f \in schema[i].fields, NewNames(schema[i], f.name) # {}
    PROVE  Desired(f.type) # NULL /\ f.type \in Types \cup BuiltinScalars
<1> DEFINE node == schema[i]
<1>1. /\ IsDefinition(node) /\ f.type \in Types \cup BuiltinScalars
      /\ IsIdle(node.name) <=> node.name = QueryType
  BY DefinitionFacts DEF References
<1>2. CASE node.name = QueryType
  BY <1>1, <1>2, DefinitionFacts DEF NewNames
<1>3. CASE node.kind = "object" /\ node.name # QueryType
  <2>1. FieldsToSuppress(node) = {}
    BY <1>1, <1>3, FieldsAre
  <2> QED BY <1>1, <1>3, <2>1 DEF FieldsToSuppress, NewNames, Desired
<1>4. CASE node.kind = "interface"
  BY <1>1, <1>4 DEF InterfacesKept
<1> QED BY <1>1, <1>2, <1>3, <1>4 DEF IsDefinition

-----------------------------------------------------------------------------
(* The renamed schema *)

(* The result of renaming, whether or not a schema can be built from it.      *)
Result(result) ==
    /\ MadeFrom(result, Len(schema), Final)
    /\ \A a \in DOMAIN result : result[a].kind = "object" => result[a].fields # {}

(* Whatever keeps a schema from being built is one of the two cases that the  *)
(* visitor does not see.                                                      *)
LEMMA BuiltHasNoRootTaken ==
    ASSUME Accepted, NEW result, Result(result), Builds(result)
    PROVE  NoRootTaken
<1> SUFFICES ASSUME NEW t \in Types, Desired(t) = QueryType, t # QueryType PROVE FALSE
  BY DEF NoRootTaken
<1>1. PICK i \in 1..Len(schema), j \in 1..Len(schema) :
         schema[i].name = t /\ schema[j].name = QueryType
  BY SchemaFacts DEF Accepted
<1>2. Desired(QueryType) = QueryType /\ QueryType # NULL
  BY AcceptedNames, SchemaFacts DEF Accepted
<1>3. Stays(i) /\ Stays(j) /\ i # j
  BY <1>1, <1>2, DefinitionFacts
<1>4. PICK a \in DOMAIN result, b \in DOMAIN result :
         a # b /\ result[a] = Final(schema[i]) /\ result[b] = Final(schema[j])
  BY <1>3 DEF Result, MadeFrom
<1>5. Final(schema[i]).name = QueryType /\ Final(schema[j]).name = QueryType
  <2>1. Final(schema[i]).name = Desired(schema[i].name)
    BY FinalParts
  <2>2. Final(schema[j]).name = Desired(schema[j].name)
    BY FinalParts
  <2> QED BY <1>1, <1>2, <2>1, <2>2
<1> QED BY <1>4, <1>5 DEF Builds

LEMMA NamesOfResult ==
    ASSUME Accepted, NEW result, Result(result)
    PROVE  NamesOf(result) = {Desired(t) : t \in Types} \ {NULL}
<1>1. \A i \in 1..Len(schema) :
         /\ Final(schema[i]).name = Desired(schema[i].name) /\ schema[i].name \in Types
         /\ Stays(i) <=> Desired(schema[i].name) # NULL
  BY FinalParts, DefinitionFacts
<1>2. \A t \in Types : \E i \in 1..Len(schema) : schema[i].name = t
  BY SchemaFacts DEF Accepted
<1>3. ASSUME NEW n \in NamesOf(result) PROVE n \in {Desired(t) : t \in Types} \ {NULL}
  <2>1. PICK a \in DOMAIN result : n = result[a].name
    BY DEF NamesOf
  <2>2. PICK i \in 1..Len(schema) : Stays(i) /\ result[a] = Final(schema[i])
    BY DEF Result, MadeFrom
  <2> QED BY <1>1, <2>1, <2>2
<1>4. ASSUME NEW t \in Types, Desired(t) # NULL PROVE Desired(t) \in NamesOf(result)
  <2>1. PICK i \in 1..Len(schema) : schema[i].name = t
    BY <1>2
  <2>2. PICK a \in DOMAIN result : result[a] = Final(schema[i])
    BY <1>1, <1>4, <2>1 DEF Result, MadeFrom
  <2> QED BY <1>1, <2>1, <2>2 DEF NamesOf
<1> QED BY <1>3, <1>4

LEMMA BuiltKeepsInterfaces ==
    ASSUME Accepted, NEW result, Result(result), Builds(result)
    PROVE  InterfacesKept
<1>1. NoRootTaken
  BY BuiltHasNoRootTaken
<1> SUFFICES ASSUME NEW i \in 1..Len(schema), Stays(i), schema[i].kind = "interface",
                    NEW f \in schema[i].fields, Desired(f.type) = NULL
             PROVE  FALSE
  BY DEF InterfacesKept
<1>2. PICK a \in DOMAIN result : result[a] = Final(schema[i])
  BY DEF Result, MadeFrom
<1>3. schema[i].name # QueryType /\ schema[i].name \notin DOMAIN field_renamings
  BY DefinitionFacts, FieldsAsked DEF StaysWithFields
<1>4. NewNames(schema[i], f.name) = {f.name}
  BY <1>3, FieldsAsked DEF NewNames
<1>5. [name |-> f.name, type |-> NULL] \in Final(schema[i]).fields
  BY <1>1, <1>4, FinalFields
<1>6. NULL \in References(result[a])
  BY <1>2, <1>5 DEF References
<1>7. NULL \notin NamesOf(result) \cup BuiltinScalars
  BY NamesOfResult, SchemaFacts DEF Accepted
<1> QED BY <1>6, <1>7 DEF Builds

LEMMA ResultBuilds ==
    ASSUME Accepted, NoRootTaken, InterfacesKept, NEW result, Result(result)
    PROVE  Builds(result)
<1>1. \A t \in Types \cup BuiltinScalars :
         Desired(t) # NULL => Desired(t) \in NamesOf(result) \cup BuiltinScalars
  BY NamesOfResult, AcceptedNames
<1>2. ASSUME NEW a \in DOMAIN result, NEW b \in DOMAIN result, result[a].name = result[b].name
      PROVE  a = b
  <2> SUFFICES ASSUME a # b PROVE FALSE
    OBVIOUS
  <2>1. PICK i \in 1..Len(schema), j \in 1..Len(schema) :
           /\ i # j /\ Stays(i) /\ Stays(j)
           /\ result[a] = Final(schema[i]) /\ result[b] = Final(schema[j])
    BY DEF Result, MadeFrom
  <2>2. /\ Final(schema[i]).name = Desired(schema[i].name)
        /\ Final(schema[j]).name = Desired(schema[j].name)
    BY FinalParts
  <2>3. /\ Desired(schema[i].name) # NULL
        /\ schema[i].name \in Types /\ schema[j].name \in Types
    BY <2>1, DefinitionFacts
  <2>4. schema[i].name = schema[j].name
    BY <1>2, <2>1, <2>2, <2>3, OneToOne
  <2> QED BY <2>1, <2>4, SchemaFacts DEF Accepted
<1>3. ASSUME NEW a \in DOMAIN result
      PROVE  /\ References(result[a]) \subseteq NamesOf(result) \cup BuiltinScalars
             /\ \A f, g \in result[a].fields : f.name = g.name => f = g
  <2>1. PICK i \in 1..Len(schema) : Stays(i) /\ result[a] = Final(schema[i])
    BY DEF Result, MadeFrom
  <2>2. \A g : g \in result[a].fields <=>
           \E f \in schema[i].fields : \E n \in NewNames(schema[i], f.name) :
              g = [name |-> n, type |-> Desired(f.type)]
    BY <2>1, FinalFields
  <2>3. result[a].refs = {Desired(r) : r \in schema[i].refs} \ {NULL}
    BY <2>1, FinalParts
  <2>4. \A r \in schema[i].refs : r \in Types \cup BuiltinScalars
    BY DefinitionFacts DEF References
  <2>5. \A r \in result[a].refs : r \in NamesOf(result) \cup BuiltinScalars
    BY <1>1, <2>3, <2>4
  <2>6. ASSUME NEW g \in result[a].fields
        PROVE  g.type \in NamesOf(result) \cup BuiltinScalars
    <3>1. PICK f \in schema[i].fields : \E n \in NewNames(schema[i], f.name) :
             g = [name |-> n, type |-> Desired(f.type)]
      BY <2>2
    <3>2. Desired(f.type) # NULL /\ f.type \in Types \cup BuiltinScalars
      BY <2>1, <3>1, TypesOfFieldsStay
    <3> QED BY <1>1, <3>1, <3>2
  <2>7. ASSUME NEW g \in result[a].fields, NEW h \in result[a].fields, g.name = h.name
        PROVE  g = h
    <3>1. PICK f \in schema[i].fields : \E n \in NewNames(schema[i], f.name) :
             g = [name |-> n, type |-> Desired(f.type)]
      BY <2>2
    <3>2. PICK e \in schema[i].fields : \E n \in NewNames(schema[i], e.name) :
             h = [name |-> n, type |-> Desired(e.type)]
      BY <2>2
    <3>3. g.name \in NewNames(schema[i], f.name) \cap NewNames(schema[i], e.name)
      BY <2>7, <3>1, <3>2
    <3>4. f = e
      BY <2>1, <3>3, NewNamesAreApart
    <3> QED BY <2>7, <3>1, <3>2, <3>4
  <2> QED BY <2>5, <2>6, <2>7 DEF References
<1> QED BY <1>2, <1>3 DEF Builds

(* An accepted renaming whose result builds.                                  *)
Renamed(result) ==
    Accepted /\ NoRootTaken /\ InterfacesKept /\ Result(result)

(* Each definition of the result is one of the original that stays, and it is *)
(* the only one of its name.                                                  *)
LEMMA ResultIs ==
    ASSUME NEW result, Renamed(result), NEW a \in DOMAIN result
    PROVE  \E i \in 1..Len(schema) :
              /\ Stays(i) /\ result[a] = Final(schema[i])
              /\ schema[i].name \in Types /\ result[a].name = Desired(schema[i].name)
              /\ Desired(schema[i].name) # NULL
              /\ \A t \in Types \cup BuiltinScalars : Desired(t) = result[a].name => schema[i].name = t
<1>1. PICK i \in 1..Len(schema) : Stays(i) /\ result[a] = Final(schema[i])
  BY DEF Renamed, Result, MadeFrom
<1>2. result[a].name = Desired(schema[i].name)
  BY <1>1, FinalParts DEF Renamed
<1>3. schema[i].name \in Types /\ Desired(schema[i].name) # NULL
  BY <1>1, DefinitionFacts DEF Renamed
<1>4. \A t \in Types \cup BuiltinScalars : Desired(t) = result[a].name => schema[i].name = t
  BY <1>2, <1>3, OneToOne DEF Renamed
<1> QED BY <1>1, <1>2, <1>3, <1>4

(* The original's definitions, as a valid schema has them.                    *)
LEMMA OriginalIsValid ==
    ASSUME ArgumentsOK, NEW i \in 1..Len(schema)
    PROVE  LET node == schema[i] IN
           /\ node.kind \in {"object", "interface"} => node.fields # {}
           /\ \A r \in node.refs : \A k \in 1..Len(schema) : schema[k].name = r =>
                 IF node.kind = "union" THEN schema[k].kind = "object"
                 ELSE schema[k].kind = "interface" /\ schema[k].fields \subseteq node.fields
<1>1. IsValidSchema(schema, QueryType) /\ DOMAIN schema = 1..Len(schema)
  BY SchemaFacts
<1>2. \A r \in schema[i].refs : \A k \in 1..Len(schema) :
         schema[k].name = r => schema[k] \in DefinitionsNamed(schema, r)
  BY <1>1 DEF DefinitionsNamed
<1> QED BY <1>1, <1>2 DEF IsValidSchema

LEMMA InterfaceFields ==
    ASSUME NEW result, Renamed(result), NEW k \in 1..Len(schema), Stays(k),
           schema[k].kind = "interface"
    PROVE  \A f : NewNames(schema[k], f) = {f}
<1>1. schema[k].name # QueryType
  BY DefinitionFacts DEF Renamed
<1>2. schema[k].name \notin DOMAIN field_renamings
  BY FieldsAsked DEF Renamed, StaysWithFields
<1> QED BY <1>1, <1>2, FieldsAsked DEF Renamed, NewNames

(* A definition of the result is not empty.                                   *)
LEMMA NothingIsEmpty ==
    ASSUME NEW result, Renamed(result), NEW a \in DOMAIN result
    PROVE  /\ result[a].kind \in {"object", "interface"} => result[a].fields # {}
           /\ result[a].kind = "union" => result[a].refs # {}
<1>1. PICK i \in 1..Len(schema) : Stays(i) /\ result[a] = Final(schema[i])
  BY ResultIs
<1>2. /\ result[a].kind = schema[i].kind
      /\ result[a].refs = {Desired(r) : r \in schema[i].refs} \ {NULL}
  BY <1>1, FinalParts DEF Renamed
<1>3. result[a].kind = "object" => result[a].fields # {}
  BY DEF Renamed, Result
<1>4. ASSUME result[a].kind = "interface" PROVE result[a].fields # {}
  <2>1. PICK f \in schema[i].fields : TRUE
    BY <1>2, <1>4, OriginalIsValid DEF Renamed, Accepted
  <2>2. NewNames(schema[i], f.name) = {f.name}
    BY <1>1, <1>2, <1>4, InterfaceFields
  <2>3. [name |-> f.name, type |-> Desired(f.type)] \in Final(schema[i]).fields
    BY <1>1, <2>2, FinalFields DEF Renamed
  <2> QED BY <1>1, <2>3
<1>5. ASSUME result[a].kind = "union" PROVE result[a].refs # {}
  <2>1. ~IsIdle(schema[i].name) /\ ~IsSuppressed(schema[i].name)
    BY <1>1, <1>2, <1>5, DefinitionFacts DEF Renamed, Stays
  <2>2. NodeRecorded(visitor, schema[i]) /\ visitor.union_types_to_suppress = {}
    BY DEF Renamed, Accepted, VisitorInv, FieldsInv, NoComplaints
  <2>3. PICK m \in schema[i].refs : ~IsSuppressed(m)
    BY <1>2, <1>5, <2>1, <2>2 DEF NodeRecorded
  <2>4. m \in Types \cup BuiltinScalars
    BY DefinitionFacts DEF Renamed, References
  <2>5. Desired(m) # NULL
    BY <2>3, <2>4, AcceptedNames DEF Renamed
  <2> QED BY <1>2, <2>5
<1> QED BY <1>3, <1>4, <1>5

(* Members of unions are still object types, and implementers have what their *)
(* interfaces have.                                                           *)
LEMMA ReferencesFit ==
    ASSUME NEW result, Renamed(result), ~RootImplements,
           NEW a \in DOMAIN result, NEW b \in DOMAIN result, result[b].name \in result[a].refs
    PROVE  IF result[a].kind = "union" THEN result[b].kind = "object"
           ELSE result[b].kind = "interface" /\ result[b].fields \subseteq result[a].fields
<1>1. PICK i \in 1..Len(schema) : Stays(i) /\ result[a] = Final(schema[i])
  BY ResultIs
<1>2. PICK k \in 1..Len(schema) :
         /\ Stays(k) /\ result[b] = Final(schema[k])
         /\ \A t \in Types \cup BuiltinScalars : Desired(t) = result[b].name => schema[k].name = t
  BY ResultIs
<1>3. result[a].kind = schema[i].kind /\ result[b].kind = schema[k].kind
  BY <1>1, <1>2, FinalParts DEF Renamed
<1>4. result[a].refs = {Desired(r) : r \in schema[i].refs} \ {NULL}
  BY <1>1, FinalParts DEF Renamed
<1>5. PICK m \in schema[i].refs : Desired(m) = result[b].name
  BY <1>4
<1>6. m \in Types \cup BuiltinScalars
  BY DefinitionFacts DEF Renamed, References
<1>7. schema[k].name = m
  BY <1>2, <1>5, <1>6
<1>8. IF schema[i].kind = "union" THEN schema[k].kind = "object"
      ELSE schema[k].kind = "interface" /\ schema[k].fields \subseteq schema[i].fields
  BY <1>7, OriginalIsValid DEF Renamed, Accepted
<1>9. ASSUME schema[i].kind # "union" PROVE result[b].fields \subseteq result[a].fields
  <2>1. schema[i].name # QueryType
    <3>1. DOMAIN schema = 1..Len(schema)
      BY SchemaFacts DEF Renamed, Accepted
    <3> QED BY <1>5, <3>1 DEF RootImplements, DefinitionsNamed
  <2>2. schema[i].name \notin DOMAIN field_renamings
    BY FieldsAsked DEF Renamed
  <2>3. \A f : NewNames(schema[i], f) = {f}
    BY <2>1, <2>2, FieldsAsked DEF Renamed, NewNames
  <2>4. \A f : NewNames(schema[k], f) = {f}
    BY <1>2, <1>8, <1>9, InterfaceFields
  <2>5. \A g \in Final(schema[k]).fields : g \in Final(schema[i]).fields
    <3>1. \A g : g \in Final(schema[k]).fields <=>
             \E f \in schema[k].fields : g = [name |-> f.name, type |-> Desired(f.type)]
      BY <1>2, <2>4, FinalFields DEF Renamed
    <3>2. \A g : g \in Final(schema[i]).fields <=>
             \E f \in schema[i].fields : g = [name |-> f.name, type |-> Desired(f.type)]
      BY <1>1, <2>3, FinalFields DEF Renamed
    <3> QED BY <1>8, <1>9, <3>1, <3>2
  <2> QED BY <1>1, <1>2, <2>5
<1> QED BY <1>3, <1>8, <1>9

LEMMA RenamedIsValid ==
    ASSUME NEW result, Renamed(result), ~RootImplements
    PROVE  IsValidSchema(result, QueryType)
<1>1. Builds(result)
  BY ResultBuilds DEF Renamed
<1>2. NamesOf(result) = {Desired(t) : t \in Types} \ {NULL}
  BY NamesOfResult DEF Renamed
<1>3. NamesOf(result) \subseteq ValidNames /\ NamesOf(result) \cap BuiltinScalars = {}
  BY <1>2, AcceptedNames DEF Renamed
<1>4. QueryType \in NamesOf(result)
  BY <1>2, AcceptedNames, SchemaFacts DEF Renamed, Accepted
<1>5. ASSUME NEW a \in DOMAIN result, result[a].name = QueryType
      PROVE  result[a].kind = "object" /\ \A g \in result[a].fields : g.name = g.type
  <2>1. PICK i \in 1..Len(schema) :
           /\ Stays(i) /\ result[a] = Final(schema[i])
           /\ \A t \in Types \cup BuiltinScalars :
                 Desired(t) = result[a].name => schema[i].name = t
    BY ResultIs
  <2>2. QueryType \in Types /\ Desired(QueryType) = QueryType
    BY AcceptedNames, SchemaFacts DEF Renamed, Accepted
  <2>3. schema[i].name = QueryType
    BY <1>5, <2>1, <2>2
  <2>4. schema[i].kind = "object" /\ \A f \in schema[i].fields : f.name = f.type
    BY <2>3, DefinitionFacts DEF Renamed
  <2>5. result[a].kind = "object"
    BY <2>1, <2>4, FinalParts DEF Renamed
  <2>6. \A g \in result[a].fields : \E f \in schema[i].fields :
           g = [name |-> Desired(f.name), type |-> Desired(f.type)]
    BY <2>1, <2>3, FinalFields DEF Renamed, NewNames
  <2> QED BY <2>4, <2>5, <2>6
<1>6. \A a \in DOMAIN result : \A r \in result[a].refs : \A target \in DefinitionsNamed(result, r) :
         IF result[a].kind = "union" THEN target.kind = "object"
         ELSE target.kind = "interface" /\ target.fields \subseteq result[a].fields
  <2> SUFFICES ASSUME NEW a \in DOMAIN result, NEW b \in DOMAIN result,
                      result[b].name \in result[a].refs
               PROVE  IF result[a].kind = "union" THEN result[b].kind = "object"
                      ELSE result[b].kind = "interface" /\ result[b].fields \subseteq result[a].fields
    BY DEF DefinitionsNamed
  <2> QED BY ReferencesFit
<1>7. \A node \in DefinitionsNamed(result, QueryType) :
         node.kind = "object" /\ \A g \in node.fields : g.name = g.type
  BY <1>5 DEF DefinitionsNamed
<1>8. \A a \in DOMAIN result :
         /\ result[a].kind \in {"object", "interface"} => result[a].fields # {}
         /\ result[a].kind = "union" => result[a].refs # {}
  BY NothingIsEmpty
<1> QED BY <1>1, <1>3, <1>4, <1>6, <1>7, <1>8 DEF IsValidSchema

(* Whatever is done has been accepted and builds.                             *)
LEMMA DoneIsRenamed ==
    ASSUME RenameInv, outcome = "done"
    PROVE  Renamed(renamed)
<1>1. Accepted /\ Result(renamed) /\ Builds(renamed)
  BY DEF RenameInv, Accepted, Result
<1> QED BY <1>1, BuiltHasNoRootTaken, BuiltKeepsInterfaces DEF Renamed

(* The schema that renaming returns can be renamed or merged again, and only  *)
(* the two unforeseen cases get past the visitor and fail in building it.     *)
THEOREM RenamingMakesValidSchemas == Spec => []RenamedSchemaIsValid
<1>1. RenameInv => RenamedSchemaIsValid
  <2>1. ASSUME RenameInv, outcome = "done", ~RootImplements
        PROVE  IsValidSchema(renamed, QueryType)
    BY <2>1, DoneIsRenamed, RenamedIsValid
  <2>2. ASSUME RenameInv, outcome = "TypeError", ~Unforeseen PROVE FALSE
    <3>1. Accepted /\ Result(renamed) /\ ~Builds(renamed)
      BY <2>2 DEF RenameInv, Accepted, Result
    <3>2. NoRootTaken
      BY <2>2 DEF NoRootTaken, Unforeseen, Desired, Lookup
    <3>3. InterfacesKept
      <4>1. DOMAIN schema = 1..Len(schema)
        BY <3>1, SchemaFacts DEF Accepted
      <4> SUFFICES ASSUME NEW i \in 1..Len(schema), schema[i].kind = "interface",
                          NEW f \in schema[i].fields
                   PROVE  Desired(f.type) # NULL
        BY DEF InterfacesKept
      <4>2. ~IsSuppressed(f.type)
        BY <2>2, <4>1 DEF Unforeseen
      <4>3. f.type \in Types \cup BuiltinScalars
        BY <3>1, DefinitionFacts DEF References
      <4> QED BY <3>1, <4>2, <4>3, AcceptedNames
    <3> QED BY <3>1, <3>2, <3>3, ResultBuilds
  <2> QED BY <2>1, <2>2 DEF RenamedSchemaIsValid
<1> QED BY <1>1, RenameInvariant, PTL

-----------------------------------------------------------------------------
(* The maps that lead back *)

(* A field of the result is put back to the one it was made from.             *)
LEMMA FieldIsFound ==
    ASSUME NEW result, Renamed(result), NEW i \in 1..Len(schema), Stays(i),
           NEW f \in schema[i].fields, NEW n \in NewNames(schema[i], f.name)
    PROVE  OriginalField(Desired(schema[i].name), n) = f.name
<1> DEFINE node == schema[i]
           t == node.name
           all == visitor.reverse_field_name_map
<1>1. t \in Types /\ Desired(t) # NULL
  BY DefinitionFacts DEF Renamed
<1>2. CASE t = QueryType
  <2>1. f.name = f.type /\ f.type \in Types \cup BuiltinScalars
    BY <1>2, DefinitionFacts DEF Renamed, References
  <2>2. n = Desired(f.name) /\ n # NULL
    BY <1>2 DEF NewNames
  <2>3. OriginalType(n) = f.name
    BY <2>1, <2>2, OneToOne DEF Renamed
  <2>4. Desired(t) = QueryType
    BY <1>2, AcceptedNames DEF Renamed
  <2> QED BY <2>3, <2>4 DEF OriginalField
<1>3. CASE t # QueryType
  <2>1. Desired(t) # QueryType /\ OriginalType(Desired(t)) = t
    BY <1>1, <1>3, OneToOne DEF Renamed, NoRootTaken
  <2>2. OriginalField(Desired(t), n) = Lookup(Lookup(reverse_field_name_map, t, << >>), n, n)
    BY <2>1 DEF OriginalField
  <2>3. n \in NewFieldNames(t, f.name)
    BY <1>3 DEF NewNames
  <2>4. /\ t \in DOMAIN reverse_field_name_map <=> t \in DOMAIN all /\ ChangedNames(all[t]) # {}
        /\ t \in DOMAIN reverse_field_name_map =>
              reverse_field_name_map[t] = [m \in ChangedNames(all[t]) |-> all[t][m]]
    BY DEF reverse_field_name_map, ChangedOnly
  <2>5. CASE t \notin DOMAIN field_renamings
    <3>0. t \notin DOMAIN all /\ NewFieldNames(t, f.name) = {f.name}
      BY <2>5, FieldsAsked DEF Renamed
    <3>1. t \notin DOMAIN all /\ n = f.name
      BY <2>3, <3>0
    <3>2. Lookup(reverse_field_name_map, t, << >>) = << >>
      BY <2>4, <3>1 DEF Lookup
    <3>3. DOMAIN << >> = {}
      OBVIOUS
    <3> QED BY <2>2, <3>1, <3>2, <3>3 DEF Lookup
  <2>6. CASE t \in DOMAIN field_renamings
    <3>1. /\ StaysWithFields(node) /\ t \in DOMAIN all /\ all[t] = OriginalNames(node)
      BY <2>6, FieldsAsked DEF Renamed, FieldsRecorded
    <3>2. n \in DOMAIN OriginalNames(node)
      <4>1. IsDefinition(node) /\ FieldsToSuppress(node) = {}
        BY <3>1, DefinitionFacts DEF Renamed, StaysWithFields
      <4> HIDE DEF node
      <4>2. f \in node.fields
        BY DEF node
      <4>3. [name |-> n, type |-> f.type] \in RenamedFields(node)
        BY <2>3, <4>1, <4>2, RenamedFieldsAre
      <4>4. n \in {g.name : g \in RenamedFields(node)}
        BY <4>3
      <4> QED BY <4>4 DEF OriginalNames
    <3>3. OriginalNames(node)[n] = f.name
      <4>1. \A x, y \in FieldNames(node) : NewFieldNames(t, x) \cap NewFieldNames(t, y) # {} => x = y
        BY <2>6, FieldsAsked DEF Renamed, FieldsRecorded, Accepted, NoComplaints
      <4>2. f.name \in FieldNames(node)
        BY DEF FieldNames
      <4>3. OriginalNames(node)[n] = CHOOSE x \in FieldNames(node) : n \in NewFieldNames(t, x)
        BY <3>2 DEF OriginalNames
      <4> HIDE DEF node, t
      <4> QED BY <2>3, <4>1, <4>2, <4>3
    <3>4. ChangedNames(all[t]) = {m \in DOMAIN OriginalNames(node) : OriginalNames(node)[m] # m}
      BY <3>1 DEF ChangedNames
    <3> HIDE DEF node, t, all
    <3>5. ASSUME f.name # n PROVE OriginalField(Desired(t), n) = f.name
      <4>1. n \in ChangedNames(all[t])
        BY <3>2, <3>3, <3>4, <3>5
      <4>2. Lookup(reverse_field_name_map, t, << >>) = [m \in ChangedNames(all[t]) |-> all[t][m]]
        BY <2>4, <3>1, <4>1 DEF Lookup
      <4> QED BY <2>2, <3>1, <3>3, <4>1, <4>2 DEF Lookup
    <3>6. ASSUME f.name = n PROVE OriginalField(Desired(t), n) = f.name
      <4>1. n \notin ChangedNames(all[t])
        BY <3>3, <3>4, <3>6
      <4>2. CASE t \in DOMAIN reverse_field_name_map
        BY <2>2, <2>4, <3>6, <4>1, <4>2 DEF Lookup
      <4>3. CASE t \notin DOMAIN reverse_field_name_map
        <5>1. Lookup(reverse_field_name_map, t, << >>) = << >> /\ DOMAIN << >> = {}
          BY <4>3 DEF Lookup
        <5> QED BY <2>2, <3>6, <5>1 DEF Lookup
      <4> QED BY <4>2, <4>3
    <3> QED BY <3>5, <3>6 DEF node, t
  <2> QED BY <2>5, <2>6
<1> QED BY <1>2, <1>3

(* The fields that are to remain are those that have a new name.              *)
LEMMA RemainingFields ==
    ASSUME NEW result, Renamed(result), NEW i \in 1..Len(schema), Stays(i),
           NEW f \in schema[i].fields
    PROVE  NewNames(schema[i], f.name) # {} <=>
              /\ Kept(f.type)
              /\ schema[i].name = QueryType \/ NewFieldNames(schema[i].name, f.name) # {}
<1>1. f.type \in Types \cup BuiltinScalars
  BY DefinitionFacts DEF Renamed, References
<1>2. Kept(f.type) <=> Desired(f.type) # NULL
  BY <1>1, AcceptedNames DEF Renamed
<1>3. CASE schema[i].name = QueryType
  <2>1. f.name = f.type
    BY <1>3, DefinitionFacts DEF Renamed
  <2> QED BY <1>2, <1>3, <2>1 DEF NewNames
<1>4. CASE schema[i].name # QueryType
  <2>1. NewNames(schema[i], f.name) # {} => Desired(f.type) # NULL
    BY TypesOfFieldsStay DEF Renamed
  <2> QED BY <1>2, <1>4, <2>1 DEF NewNames
<1> QED BY <1>3, <1>4

LEMMA UndoneIsRemaining ==
    ASSUME NEW result, Renamed(result), NEW i \in 1..Len(schema), Stays(i)
    PROVE  Undone(Final(schema[i])) = Remaining(schema[i])
<1> DEFINE node == schema[i]
           made == Final(node)
           name == OriginalType(made.name)
           fields == {[name |-> OriginalField(made.name, g.name),
                       type |-> OriginalType(g.type)] : g \in made.fields}
           refs == {OriginalType(r) : r \in made.refs}
           left == {f \in node.fields :
                       /\ Kept(f.type)
                       /\ node.name = QueryType \/ NewFieldNames(node.name, f.name) # {}}
           others == {r \in node.refs : Kept(r)}
<1>1. /\ IsDefinition(node) /\ node.name \in Types /\ Desired(node.name) # NULL
      /\ \A r \in node.refs : r \in Types \cup BuiltinScalars
      /\ \A f \in node.fields : f.type \in Types \cup BuiltinScalars
  BY DefinitionFacts DEF Renamed, References
<1>2. /\ made.kind = node.kind /\ made.name = Desired(node.name)
      /\ made.refs = {Desired(r) : r \in node.refs} \ {NULL}
      /\ made = [kind |-> made.kind, name |-> made.name, fields |-> made.fields,
                 refs |-> made.refs]
  BY FinalParts DEF Renamed
<1>3. name = node.name
  BY <1>1, <1>2, OneToOne DEF Renamed
<1>4. refs = others
  <2>1. \A r \in Types \cup BuiltinScalars :
           /\ Kept(r) <=> Desired(r) # NULL
           /\ Desired(r) # NULL => OriginalType(Desired(r)) = r
    BY AcceptedNames, OneToOne DEF Renamed
  <2> HIDE DEF node, made
  <2> QED BY <1>1, <1>2, <2>1
<1>5. fields = left
  <2>1. \A g : g \in made.fields <=>
           \E f \in node.fields : \E n \in NewNames(node, f.name) :
              g = [name |-> n, type |-> Desired(f.type)]
    BY FinalFields DEF Renamed
  <2>2. ASSUME NEW f \in node.fields, NEW n \in NewNames(node, f.name),
               NEW g, g = [name |-> n, type |-> Desired(f.type)]
        PROVE  [name |-> OriginalField(made.name, g.name), type |-> OriginalType(g.type)] = f
    <3>1. OriginalField(made.name, g.name) = f.name
      BY <1>2, <2>2, FieldIsFound
    <3>2. OriginalType(g.type) = f.type
      BY <1>1, <2>2, TypesOfFieldsStay, OneToOne DEF Renamed
    <3>3. f = [name |-> f.name, type |-> f.type]
      BY <1>1 DEF IsDefinition
    <3> QED BY <3>1, <3>2, <3>3
  <2>3. \A f \in node.fields : f \in left <=> NewNames(node, f.name) # {}
    BY RemainingFields
  <2>4. ASSUME NEW x \in fields PROVE x \in left
    <3>1. PICK g \in made.fields : x = [name |-> OriginalField(made.name, g.name),
                                        type |-> OriginalType(g.type)]
      OBVIOUS
    <3>2. PICK f \in node.fields : \E n \in NewNames(node, f.name) :
             g = [name |-> n, type |-> Desired(f.type)]
      BY <2>1
    <3>3. PICK n \in NewNames(node, f.name) : g = [name |-> n, type |-> Desired(f.type)]
      BY <3>2
    <3>4. x = f
      BY <2>2, <3>1, <3>3
    <3> HIDE DEF left
    <3> QED BY <2>3, <3>3, <3>4
  <2>5. ASSUME NEW f \in left PROVE f \in fields
    <3>1. f \in node.fields
      OBVIOUS
    <3>2. PICK n \in NewNames(node, f.name) : TRUE
      BY <2>3, <2>5, <3>1
    <3> DEFINE g == [name |-> n, type |-> Desired(f.type)]
    <3>3. g \in made.fields
      BY <2>1, <3>1
    <3>4. [name |-> OriginalField(made.name, g.name), type |-> OriginalType(g.type)] = f
      BY <2>2, <3>1
    <3> HIDE DEF g, made
    <3> QED BY <3>3, <3>4
  <2> QED BY <2>4, <2>5
<1>6. Undone(made) = [made EXCEPT !.name = name, !.fields = fields, !.refs = refs]
  BY DEF Undone
<1>7. Remaining(node) = [node EXCEPT !.fields = left, !.refs = others]
  BY DEF Remaining
<1> HIDE DEF name, fields, refs, left, others, made, node
<1>8. Undone(made) = [kind |-> node.kind, name |-> node.name, fields |-> left, refs |-> others]
  BY <1>2, <1>3, <1>4, <1>5, <1>6
<1>9. Remaining(node) = [kind |-> node.kind, name |-> node.name, fields |-> left, refs |-> others]
  BY <1>1, <1>7 DEF IsDefinition
<1> QED BY <1>8, <1>9 DEF made, node

(* Undoing the renamed schema with the two maps of changed names gives back   *)
(* what was not suppressed of the original.                                   *)
THEOREM ReverseMapsLeadBack == Spec => []ReverseMapsUndo
<1>1. RenameInv => ReverseMapsUndo
  <2> SUFFICES ASSUME RenameInv, outcome = "done"
               PROVE  {Undone(renamed[a]) : a \in DOMAIN renamed} =
                         {Remaining(schema[i]) :
                             i \in {j \in DOMAIN schema : Kept(schema[j].name)}}
    BY DEF ReverseMapsUndo
  <2>1. Renamed(renamed)
    BY DoneIsRenamed
  <2>2. DOMAIN schema = 1..Len(schema)
    BY <2>1, SchemaFacts DEF Renamed, Accepted
  <2>3. \A i \in 1..Len(schema) : Stays(i) <=> Kept(schema[i].name)
    BY <2>1, DefinitionFacts, AcceptedNames DEF Renamed
  <2>4. \A i \in 1..Len(schema) : Stays(i) => Undone(Final(schema[i])) = Remaining(schema[i])
    BY <2>1, UndoneIsRemaining
  <2>5. ASSUME NEW a \in DOMAIN renamed
        PROVE  \E i \in {j \in DOMAIN schema : Kept(schema[j].name)} :
                  Undone(renamed[a]) = Remaining(schema[i])
    <3>1. PICK i \in 1..Len(schema) : Stays(i) /\ renamed[a] = Final(schema[i])
      BY <2>1, ResultIs
    <3> QED BY <2>2, <2>3, <2>4, <3>1
  <2>6. ASSUME NEW i \in DOMAIN schema, Kept(schema[i].name)
        PROVE  \E a \in DOMAIN renamed : Undone(renamed[a]) = Remaining(schema[i])
    <3>1. PICK a \in DOMAIN renamed : renamed[a] = Final(schema[i])
      BY <2>1, <2>2, <2>3, <2>6 DEF Renamed, Result, MadeFrom
    <3> QED BY <2>2, <2>3, <2>4, <2>6, <3>1
  <2> QED BY <2>5, <2>6
<1> QED BY <1>1, RenameInvariant, PTL

(* Every entry of an accepted type_renamings and field_renamings has changed  *)
(* something.                                                                 *)
THEOREM RenamingsHaveEffect == Spec => []EveryRenamingHasEffect
<1>1. RenameInv => EveryRenamingHasEffect
  <2> SUFFICES ASSUME RenameInv, outcome = "done"
               PROVE  /\ \A t \in DOMAIN type_renamings :
                            /\ t \in NamesOf(schema)
                            /\ ~ \E node \in DefinitionsNamed(renamed, t) :
                                    OriginalType(node.name) = t
                      /\ \A t \in DOMAIN field_renamings : \A f \in DOMAIN field_renamings[t] :
                            \E node \in DefinitionsNamed(renamed, Desired(t)) :
                               {g \in FieldNames(node) : OriginalField(node.name, g) = f}
                                   = field_renamings[t][f]
                               /\ field_renamings[t][f] # {f}
    BY DEF EveryRenamingHasEffect
  <2>1. Renamed(renamed)
    BY DoneIsRenamed
  <2>2. ASSUME NEW t \in DOMAIN type_renamings
        PROVE  /\ t \in NamesOf(schema)
               /\ ~ \E node \in DefinitionsNamed(renamed, t) : OriginalType(node.name) = t
    <3>1. t \in Types /\ Desired(t) # t
      BY <2>1, AcceptedNames DEF Renamed
    <3>2. ASSUME NEW a \in DOMAIN renamed, renamed[a].name = t, OriginalType(t) = t PROVE FALSE
      <4>1. PICK i \in 1..Len(schema) :
               /\ schema[i].name \in Types /\ renamed[a].name = Desired(schema[i].name)
               /\ Desired(schema[i].name) # NULL
        BY <2>1, ResultIs
      <4>2. OriginalType(t) = schema[i].name
        BY <2>1, <3>2, <4>1, OneToOne DEF Renamed
      <4> QED BY <3>1, <3>2, <4>1, <4>2
    <3> QED BY <3>1, <3>2 DEF DefinitionsNamed, Types
  <2>3. ASSUME NEW t \in DOMAIN field_renamings, NEW f \in DOMAIN field_renamings[t]
        PROVE  \E node \in DefinitionsNamed(renamed, Desired(t)) :
                  /\ {g \in FieldNames(node) : OriginalField(node.name, g) = f}
                        = field_renamings[t][f]
                  /\ field_renamings[t][f] # {f}
    <3>1. PICK i \in 1..Len(schema) : schema[i].name = t
      BY <2>1, FieldsAsked DEF Renamed
    <3>2. StaysWithFields(schema[i]) /\ FieldsRecorded(visitor, schema[i])
      BY <2>1, <3>1, FieldsAsked DEF Renamed
    <3>3. Stays(i) /\ t # QueryType
      BY <3>1, <3>2 DEF StaysWithFields, Stays, IsIdle
    <3>4. PICK a \in DOMAIN renamed : renamed[a] = Final(schema[i])
      BY <2>1, <3>3 DEF Renamed, Result, MadeFrom
    <3> DEFINE node == renamed[a]
    <3>5. node.name = Desired(t)
      BY <2>1, <3>1, <3>4, FinalParts DEF Renamed
    <3>6. FieldRenamingsOf(t) = field_renamings[t]
      BY DEF FieldRenamingsOf, Lookup
    <3>7. NewFieldNames(t, f) = field_renamings[t][f]
      BY <3>6 DEF NewFieldNames, Lookup
    <3>8. f \in FieldNames(schema[i]) /\ field_renamings[t][f] # {f}
      BY <2>1, <3>1, <3>2, <3>6 DEF FieldsRecorded, Renamed, Accepted, NoComplaints
    <3>9. PICK h \in schema[i].fields : h.name = f
      BY <3>8 DEF FieldNames
    <3>10. \A x : NewNames(schema[i], x) = NewFieldNames(t, x)
      BY <3>1, <3>3 DEF NewNames
    <3>11. \A g : g \in node.fields <=>
              \E x \in schema[i].fields : \E n \in NewNames(schema[i], x.name) :
                 g = [name |-> n, type |-> Desired(x.type)]
      BY <2>1, <3>3, <3>4, FinalFields DEF Renamed
    <3>12. ASSUME NEW n \in field_renamings[t][f]
           PROVE  n \in FieldNames(node) /\ OriginalField(node.name, n) = f
      <4>1. n \in NewNames(schema[i], h.name)
        BY <3>7, <3>9, <3>10
      <4>2. OriginalField(Desired(schema[i].name), n) = h.name
        BY <2>1, <3>3, <4>1, FieldIsFound
      <4>3. [name |-> n, type |-> Desired(h.type)] \in node.fields
        BY <3>11, <4>1
      <4>4. n \in FieldNames(node)
        BY <4>3 DEF FieldNames
      <4> QED BY <3>1, <3>5, <3>9, <4>2, <4>4
    <3>13. ASSUME NEW n \in FieldNames(node), OriginalField(node.name, n) = f
           PROVE  n \in field_renamings[t][f]
      <4>1. PICK g \in node.fields : g.name = n
        BY DEF FieldNames
      <4>2. PICK x \in schema[i].fields : \E m \in NewNames(schema[i], x.name) :
               g = [name |-> m, type |-> Desired(x.type)]
        BY <3>11
      <4>3. n \in NewNames(schema[i], x.name)
        BY <4>1, <4>2
      <4>4. OriginalField(Desired(schema[i].name), n) = x.name
        BY <2>1, <3>3, <4>3, FieldIsFound
      <4>5. x.name = f
        BY <3>1, <3>5, <3>13, <4>4
      <4> QED BY <3>7, <3>10, <4>3, <4>5
    <3>14. {g \in FieldNames(node) : OriginalField(node.name, g) = f} = field_renamings[t][f]
      BY <3>12, <3>13
    <3>15. node \in DefinitionsNamed(renamed, Desired(t))
      BY <3>5 DEF DefinitionsNamed
    <3> HIDE DEF node
    <3> QED BY <3>8, <3>14, <3>15
  <2> QED BY <2>2, <2>3
<1> QED BY <1>1, RenameInvariant, PTL
-----------------------------------------------------------------------------
(* Names of a query *)

(* A definition of the renamed schema, and the only one of its name.          *)
LEMMA TypeNamedIs ==
    ASSUME RenameInv, outcome = "done", NEW t \in NamesOf(renamed)
    PROVE  \E i \in 1..Len(schema) :
              /\ Stays(i) /\ TypeNamed(t) = Final(schema[i])
              /\ schema[i].name \in Types /\ t = Desired(schema[i].name) /\ t # NULL
              /\ OriginalType(t) = schema[i].name
<1>1. Renamed(renamed)
  BY DoneIsRenamed
<1>2. PICK a \in DOMAIN renamed : renamed[a].name = t
  BY DEF NamesOf
<1>3. TypeNamed(t) \in DefinitionsNamed(renamed, t)
  BY <1>2 DEF TypeNamed, DefinitionsNamed
<1>4. PICK b \in DOMAIN renamed : TypeNamed(t) = renamed[b] /\ renamed[b].name = t
  BY <1>3 DEF DefinitionsNamed
<1>5. PICK i \in 1..Len(schema) :
         /\ Stays(i) /\ renamed[b] = Final(schema[i])
         /\ schema[i].name \in Types /\ renamed[b].name = Desired(schema[i].name)
         /\ Desired(schema[i].name) # NULL
  BY <1>1, ResultIs
<1>6. OriginalType(t) = schema[i].name
  BY <1>1, <1>4, <1>5, OneToOne DEF Renamed
<1> QED BY <1>4, <1>5, <1>6

(* What a name of a type stands for is what the map leads back to.            *)
LEMMA OriginalTypeIs ==
    ASSUME RenameInv, outcome = "done", NEW u \in Types \cup BuiltinScalars, Desired(u) # NULL
    PROVE  /\ OriginalType(Desired(u)) = u
           /\ (CHOOSE v \in NamesOf(schema) \cup BuiltinScalars :
                  NewTypeName(v) = Desired(u) /\ Kept(v)) = u
<1>1. Renamed(renamed)
  BY DoneIsRenamed
<1>2. /\ OriginalType(Desired(u)) = u
      /\ \A v \in Types \cup BuiltinScalars : Desired(v) = Desired(u) => v = u
  BY <1>1, OneToOne DEF Renamed
<1>3. \A v \in Types \cup BuiltinScalars :
         NewTypeName(v) = Desired(v) /\ (Kept(v) <=> Desired(v) # NULL)
  BY <1>1, AcceptedNames DEF Renamed
<1> QED BY <1>2, <1>3 DEF Types

Entry(event, name, scope) == [event |-> event, name |-> name, scope |-> scope]

LEMMA TypeNameMeans ==
    ASSUME RenameInv, outcome = "done", NEW t \in NamesOf(renamed), NEW scope
    PROVE  Meant(Entry("fragment", t, scope)) = OriginalType(t)
<1>1. PICK i \in 1..Len(schema) : schema[i].name \in Types /\ t = Desired(schema[i].name) /\ t # NULL
  BY TypeNamedIs
<1> DEFINE n == Entry("fragment", t, scope)
<1>2. n.event = "fragment" /\ n.name = t
  BY DEF Entry
<1> HIDE DEF n
<1>3. Meant(n) = CHOOSE u \in NamesOf(schema) \cup BuiltinScalars : NewTypeName(u) = t /\ Kept(u)
  BY <1>2 DEF Meant
<1> QED BY <1>1, <1>3, OriginalTypeIs DEF n

(* Root fields are named like their types, whether or not the query type      *)
(* implements an interface.                                                   *)
LEMMA RootFieldMeans ==
    ASSUME RenameInv, outcome = "done", NEW f \in TypeNamed(QueryType).fields
    PROVE  /\ f.name = f.type
           /\ Meant(Entry("root", f.name, QueryType)) = OriginalType(f.name)
<1>1. Renamed(renamed)
  BY DoneIsRenamed
<1>2. QueryType \in Types /\ QueryType # NULL /\ Desired(QueryType) = QueryType
  BY <1>1, SchemaFacts, AcceptedNames DEF Renamed, Accepted
<1>3. QueryType \in NamesOf(renamed)
  BY <1>1, <1>2, NamesOfResult DEF Renamed
<1>4. PICK i \in 1..Len(schema) :
         /\ Stays(i) /\ TypeNamed(QueryType) = Final(schema[i])
         /\ schema[i].name \in Types /\ QueryType = Desired(schema[i].name)
  BY <1>3, TypeNamedIs
<1>5. schema[i].name = QueryType
  BY <1>1, <1>4 DEF Renamed, NoRootTaken
<1>6. PICK x \in schema[i].fields :
         \E n \in NewNames(schema[i], x.name) : f = [name |-> n, type |-> Desired(x.type)]
  BY <1>1, <1>4, FinalFields DEF Renamed
<1>6a. PICK n \in NewNames(schema[i], x.name) : f = [name |-> n, type |-> Desired(x.type)]
  BY <1>6
<1>7. x.name = x.type /\ x.type \in Types \cup BuiltinScalars
  BY <1>1, <1>5, DefinitionFacts DEF Renamed, References
<1>8. n = Desired(x.type) /\ Desired(x.type) # NULL
  BY <1>5, <1>6a, <1>7 DEF NewNames
<1>9. f.name = Desired(x.type) /\ f.type = Desired(x.type)
  BY <1>6a, <1>8
<1> DEFINE e == Entry("root", f.name, QueryType)
<1>10. e.scope = QueryType /\ e.name = f.name
  BY DEF Entry
<1> HIDE DEF e
<1>11. Meant(e) = CHOOSE u \in NamesOf(schema) \cup BuiltinScalars :
                    NewTypeName(u) = f.name /\ Kept(u)
  BY <1>10 DEF Meant
<1>12. /\ OriginalType(Desired(x.type)) = x.type
       /\ (CHOOSE u \in NamesOf(schema) \cup BuiltinScalars :
              NewTypeName(u) = Desired(x.type) /\ Kept(u)) = x.type
  BY <1>7, <1>8, OriginalTypeIs
<1>13. Meant(e) = OriginalType(f.name)
  BY <1>9, <1>11, <1>12
<1> QED BY <1>9, <1>13 DEF e

(* Below the root, what a field stands for is what the map leads back to.     *)
LEMMA FieldMeans ==
    ASSUME RenameInv, outcome = "done", NEW t \in NamesOf(renamed), t # QueryType,
           NEW f \in TypeNamed(t).fields
    PROVE  /\ Meant(Entry("field", f.name, t)) = OriginalField(t, f.name)
           /\ FieldOf(t, f.name) = {f}
           /\ HasSelections(t) /\ TypeNamed(t).kind # "union"
<1>1. Renamed(renamed) /\ Builds(renamed)
  BY DoneIsRenamed DEF RenameInv
<1>2. PICK i \in 1..Len(schema) :
         /\ Stays(i) /\ TypeNamed(t) = Final(schema[i])
         /\ schema[i].name \in Types /\ t = Desired(schema[i].name) /\ t # NULL
         /\ OriginalType(t) = schema[i].name
  BY TypeNamedIs
<1> DEFINE node == schema[i]
<1>3. node.name # QueryType
  BY <1>1, <1>2, AcceptedNames DEF Renamed
<1>4. PICK x \in node.fields :
         \E n \in NewNames(node, x.name) : f = [name |-> n, type |-> Desired(x.type)]
  BY <1>1, <1>2, FinalFields DEF Renamed
<1>5. f.name \in NewNames(node, x.name) /\ f.name \in NewFieldNames(node.name, x.name)
  BY <1>3, <1>4 DEF NewNames
<1>6. OriginalField(t, f.name) = x.name
  BY <1>1, <1>2, <1>5, FieldIsFound
<1>7. DefinitionsNamed(schema, node.name) = {node}
  BY <1>1, SchemaFacts DEF Renamed, Accepted, DefinitionsNamed
<1>8. node.kind \in {"object", "interface"}
  BY <1>1, DefinitionFacts DEF Renamed, IsDefinition
<1>9. (CHOOSE u \in NamesOf(schema) \cup BuiltinScalars : NewTypeName(u) = t /\ Kept(u)) = node.name
  BY <1>2, OriginalTypeIs
<1>10. \A g \in FieldNames(node) :
          (IF node.kind = "object" THEN f.name \in NewFieldNames(node.name, g) ELSE f.name = g)
             <=> g = x.name
  <2> SUFFICES ASSUME NEW y \in node.fields
               PROVE  (IF node.kind = "object" THEN f.name \in NewFieldNames(node.name, y.name)
                       ELSE f.name = y.name) <=> y.name = x.name
    BY DEF FieldNames
  <2>1. f.name \in NewFieldNames(node.name, y.name) => x = y
    BY <1>1, <1>2, <1>3, <1>5, NewNamesAreApart DEF Renamed, NewNames
  <2>2. node.kind = "interface" => NewFieldNames(node.name, x.name) = {x.name}
    BY <1>1, <1>2, <1>3, InterfaceFields DEF NewNames
  <2> HIDE DEF node
  <2> QED BY <1>5, <1>8, <2>1, <2>2
<1>11. x.name \in FieldNames(node)
  BY DEF FieldNames
<1> DEFINE e == Entry("field", f.name, t)
           asked(g) == IF node.kind = "object" THEN e.name \in NewFieldNames(node.name, g)
                       ELSE e.name = g
<1>12. e.event = "field" /\ e.name = f.name /\ e.scope = t
  BY DEF Entry
<1> HIDE DEF e, node
<1>13. Meant(e) = CHOOSE g \in FieldNames(node) : asked(g)
  <2>1. (CHOOSE d \in DefinitionsNamed(schema, node.name) : TRUE) = node
    BY <1>7
  <2> QED BY <1>9, <1>12, <2>1 DEF Meant
<1>14. \A g \in FieldNames(node) : asked(g) <=> g = x.name
  BY <1>10, <1>12
<1> HIDE DEF asked
<1>15. Meant(e) = x.name
  BY <1>11, <1>13, <1>14
<1>16. PICK b \in DOMAIN renamed : TypeNamed(t) = renamed[b] /\ renamed[b].name = t
  <2>1. PICK a \in DOMAIN renamed : renamed[a].name = t
    BY DEF NamesOf
  <2>2. TypeNamed(t) \in DefinitionsNamed(renamed, t)
    BY <2>1 DEF TypeNamed, DefinitionsNamed
  <2> QED BY <2>2 DEF DefinitionsNamed
<1>17. FieldOf(t, f.name) = {f}
  BY <1>1, <1>16 DEF FieldOf, Builds
<1>18. TypeNamed(t).kind = node.kind
  BY <1>1, <1>2, FinalParts DEF Renamed, node
<1>19. HasSelections(t) /\ TypeNamed(t).kind # "union"
  BY <1>8, <1>16, <1>18 DEF HasSelections, DefinitionsNamed
<1> QED BY <1>6, <1>15, <1>17, <1>19 DEF e

-----------------------------------------------------------------------------
(* The walk over a query *)

IsSequence(q) == \E S : q \in Seq(S)

LEMMA SequenceIs ==
    ASSUME NEW q, NEW n \in Nat, q = [i \in 1..n |-> q[i]]
    PROVE  IsSequence(q) /\ Len(q) = n
<1> DEFINE S == {q[i] : i \in 1..n}
<1>1. \A i \in 1..n : q[i] \in S
  OBVIOUS
<1> HIDE DEF S
<1>2. q \in [1..n -> S]
  BY <1>1
<1>3. q \in Seq(S)
  BY <1>2, SeqDef
<1>4. DOMAIN q = 1..n /\ DOMAIN q = 1..Len(q) /\ Len(q) \in Nat
  BY <1>2, <1>3, LenProperties
<1>5. \A k : k \in 1..n <=> k \in 1..Len(q)
  BY <1>4
<1>6. Len(q) = n
  <2>1. n \in 1..n <=> n \in 1..Len(q)
    BY <1>5
  <2>2. Len(q) \in 1..n <=> Len(q) \in 1..Len(q)
    BY <1>5
  <2> QED BY <1>4, <2>1, <2>2
<1> QED BY <1>3, <1>6 DEF IsSequence

LEMMA SequenceParts ==
    ASSUME NEW q, IsSequence(q)
    PROVE  /\ Len(q) \in Nat /\ DOMAIN q = 1..Len(q) /\ q = [i \in 1..Len(q) |-> q[i]]
           /\ q = <<>> <=> Len(q) = 0
  BY EmptySeq, LenProperties DEF IsSequence

LEMMA AppendIs ==
    ASSUME NEW q, IsSequence(q), NEW e
    PROVE  /\ IsSequence(Append(q, e)) /\ Len(Append(q, e)) = Len(q) + 1
           /\ DOMAIN Append(q, e) = 1..(Len(q) + 1)
           /\ Append(q, e) = [i \in 1..(Len(q) + 1) |-> IF i = Len(q) + 1 THEN e ELSE q[i]]
<1>1. PICK S : q \in Seq(S)
  BY DEF IsSequence
<1>2. q \in Seq(S \cup {e}) /\ e \in S \cup {e}
  BY <1>1
<1>3. /\ Append(q, e) \in Seq(S \cup {e}) /\ Len(Append(q, e)) = Len(q) + 1
      /\ \A i \in 1..Len(q) : Append(q, e)[i] = q[i]
      /\ Append(q, e)[Len(q) + 1] = e
  BY <1>2, AppendProperties
<1>4. Append(q, e) = [i \in 1..(Len(q) + 1) |-> Append(q, e)[i]] /\ Len(q) \in Nat
  BY <1>1, <1>3, LenProperties
<1>5. Append(q, e) = [i \in 1..(Len(q) + 1) |-> IF i = Len(q) + 1 THEN e ELSE q[i]]
  BY <1>3, <1>4
<1> QED BY <1>3, <1>4, <1>5 DEF IsSequence

LEMMA FrontIs ==
    ASSUME NEW q, IsSequence(q), q # <<>>
    PROVE  /\ Len(q) \in Nat \ {0} /\ IsSequence(Front(q)) /\ Len(Front(q)) = Len(q) - 1
           /\ Front(q) = [i \in 1..(Len(q) - 1) |-> q[i]]
<1>1. Len(q) \in Nat \ {0}
  BY SequenceParts
<1>2. PICK S : q \in Seq(S)
  BY DEF IsSequence
<1>3. /\ Front(q) \in Seq(S) /\ Len(Front(q)) = Len(q) - 1
      /\ \A i \in 1..(Len(q) - 1) : Front(q)[i] = q[i]
  <2> DEFINE m == Len(q) - 1
  <2>1. m \in Nat /\ \A k \in 1..m : q[k] \in S /\ q[1 + k - 1] = q[k]
    BY <1>1, <1>2, ElementOfSeq
  <2>2. Front(q) = SubSeq(q, 1, m)
    BY DEF Front
  <2> HIDE DEF m
  <2>3. /\ SubSeq(q, 1, m) \in Seq(S)
        /\ Len(SubSeq(q, 1, m)) = IF 1 <= m THEN m - 1 + 1 ELSE 0
        /\ \A k \in 1..(m - 1 + 1) : SubSeq(q, 1, m)[k] = q[1 + k - 1]
    BY <2>1, SubSeqProperties
  <2>4. Len(SubSeq(q, 1, m)) = m /\ \A k \in 1..m : SubSeq(q, 1, m)[k] = q[k]
    BY <2>1, <2>3
  <2> QED BY <2>2, <2>3, <2>4 DEF m
<1>4. Front(q) = [i \in 1..(Len(q) - 1) |-> Front(q)[i]]
  BY <1>3, LenProperties
<1>5. Front(q) = [i \in 1..(Len(q) - 1) |-> q[i]]
  BY <1>3, <1>4
<1> QED BY <1>1, <1>3, <1>5 DEF IsSequence

(* The types that the visitor is in, and what each of a query is in the       *)
(* result.                                                                    *)
TypesOf(o) == [i \in DOMAIN o |-> o[i].type]
Answer(n) == IF n.event = "leave" THEN NULL ELSE Meant(n)
AnswersTo(q) == [i \in DOMAIN q |-> Answer(q[i])]

LEMMA TypesOfMore ==
    ASSUME NEW o, IsSequence(o), NEW x
    PROVE  TypesOf(Append(o, x)) = Append(TypesOf(o), x.type)
<1>1. Len(o) \in Nat /\ DOMAIN o = 1..Len(o)
  BY SequenceParts
<1>2. TypesOf(o) = [i \in 1..Len(o) |-> TypesOf(o)[i]] /\ \A i \in 1..Len(o) : TypesOf(o)[i] = o[i].type
  BY <1>1 DEF TypesOf
<1>3. IsSequence(TypesOf(o)) /\ Len(TypesOf(o)) = Len(o)
  BY <1>1, <1>2, SequenceIs
<1>4. Append(TypesOf(o), x.type) =
         [i \in 1..(Len(o) + 1) |-> IF i = Len(o) + 1 THEN x.type ELSE TypesOf(o)[i]]
  BY <1>3, AppendIs
<1> DEFINE p == Append(o, x)
<1>5. DOMAIN p = 1..(Len(o) + 1) /\ p = [i \in 1..(Len(o) + 1) |-> IF i = Len(o) + 1 THEN x ELSE o[i]]
  BY AppendIs
<1> HIDE DEF p
<1>6. TypesOf(p) = [i \in 1..(Len(o) + 1) |-> p[i].type]
  BY <1>5 DEF TypesOf
<1>7. \A i \in 1..(Len(o) + 1) : p[i].type = IF i = Len(o) + 1 THEN x.type ELSE TypesOf(o)[i]
  BY <1>1, <1>2, <1>5
<1>8. TypesOf(p) = Append(TypesOf(o), x.type)
  BY <1>4, <1>6, <1>7
<1> QED BY <1>8 DEF p

LEMMA TypesOfLess ==
    ASSUME NEW o, IsSequence(o), o # <<>>
    PROVE  /\ TypesOf(Front(o)) = Front(TypesOf(o))
           /\ Last(TypesOf(o)) = Last(o).type
<1>1. Len(o) \in Nat \ {0} /\ DOMAIN o = 1..Len(o)
  BY SequenceParts
<1>2. TypesOf(o) = [i \in 1..Len(o) |-> TypesOf(o)[i]] /\ \A i \in 1..Len(o) : TypesOf(o)[i] = o[i].type
  BY <1>1 DEF TypesOf
<1>3. IsSequence(TypesOf(o)) /\ Len(TypesOf(o)) = Len(o)
  BY <1>1, <1>2, SequenceIs
<1>4. Front(TypesOf(o)) = [i \in 1..(Len(o) - 1) |-> TypesOf(o)[i]]
  BY <1>1, <1>3, FrontIs, SequenceParts
<1>5. Front(o) = [i \in 1..(Len(o) - 1) |-> o[i]]
  BY FrontIs
<1>6. TypesOf(Front(o)) = [i \in 1..(Len(o) - 1) |-> o[i].type]
  BY <1>5 DEF TypesOf
<1>7. \A i \in 1..(Len(o) - 1) : o[i].type = TypesOf(o)[i]
  BY <1>1, <1>2
<1>8. Last(TypesOf(o)) = Last(o).type
  BY <1>1, <1>2, <1>3 DEF Last
<1> QED BY <1>4, <1>6, <1>7, <1>8

LEMMA AnswersToMore ==
    ASSUME NEW q, IsSequence(q), NEW e
    PROVE  AnswersTo(Append(q, e)) = Append(AnswersTo(q), Answer(e))
<1>1. Len(q) \in Nat /\ DOMAIN q = 1..Len(q)
  BY SequenceParts
<1>2. /\ AnswersTo(q) = [i \in 1..Len(q) |-> AnswersTo(q)[i]]
      /\ \A i \in 1..Len(q) : AnswersTo(q)[i] = Answer(q[i])
  BY <1>1 DEF AnswersTo
<1>3. IsSequence(AnswersTo(q)) /\ Len(AnswersTo(q)) = Len(q)
  BY <1>1, <1>2, SequenceIs
<1>4. Append(AnswersTo(q), Answer(e)) =
         [i \in 1..(Len(q) + 1) |-> IF i = Len(q) + 1 THEN Answer(e) ELSE AnswersTo(q)[i]]
  BY <1>3, AppendIs
<1> DEFINE p == Append(q, e)
<1>5. DOMAIN p = 1..(Len(q) + 1) /\ p = [i \in 1..(Len(q) + 1) |-> IF i = Len(q) + 1 THEN e ELSE q[i]]
  BY AppendIs
<1> HIDE DEF p
<1>6. AnswersTo(p) = [i \in 1..(Len(q) + 1) |-> Answer(p[i])]
  BY <1>5 DEF AnswersTo
<1>7. \A i \in 1..(Len(q) + 1) : Answer(p[i]) = IF i = Len(q) + 1 THEN Answer(e) ELSE AnswersTo(q)[i]
  BY <1>1, <1>2, <1>5
<1>8. AnswersTo(p) = Append(AnswersTo(q), Answer(e))
  BY <1>4, <1>6, <1>7
<1> QED BY <1>8 DEF p

(* No inline fragment has been left, and nothing is doubtful about the names. *)
Balanced == \A i \in DOMAIN query : query[i].event = "leave" => query[i].name # "fragment"
Doubtful == FieldAfterCoercion \/ RootFieldBelowRoot

(* Until an inline fragment is left the stack is that of the types which the  *)
(* visitor is in; that is what makes the names right.                         *)
QueryInv ==
    /\ IsSequence(query) /\ IsSequence(open)
    /\ \A i \in DOMAIN open : open[i].event \in {"root", "field", "fragment"}
    /\ query = <<>> => /\ open = <<>> /\ current_type_name = <<>> /\ translated = <<>>
                       /\ verdict = "reading"
    /\ query # <<>> => outcome = "done"
    /\ \/ Doubtful
       \/ /\ verdict \in {"reading", "done"} /\ translated = AnswersTo(query)
          /\ Balanced => current_type_name = TypesOf(open)

LEMMA MeantStays ==
    ASSUME UNCHANGED schema_vars
    PROVE  /\ \A n : Meant(n)' = Meant(n) /\ Answer(n)' = Answer(n)
           /\ AnswersTo(query)' = AnswersTo(query')
<1>1. UNCHANGED arguments /\ schema' = schema
  BY DEF schema_vars, arguments
<1>2. \A t : NewTypeName(t)' = NewTypeName(t)
  BY <1>1, ArgumentsStay
<1>3. \A t, f : NewFieldNames(t, f)' = NewFieldNames(t, f)
  BY <1>1, ArgumentsStay
<1>4. \A t : Kept(t)' = Kept(t)
  BY <1>1 DEF Kept, arguments
<1> DEFINE orig(t) == CHOOSE u \in NamesOf(schema) \cup BuiltinScalars : NewTypeName(u) = t /\ Kept(u)
           named(t) == CHOOSE d \in DefinitionsNamed(schema, t) : TRUE
           field(node, m) == CHOOSE f \in FieldNames(node) :
                                IF node.kind = "object" THEN m \in NewFieldNames(node.name, f)
                                ELSE m = f
<1>5. \A t : orig(t)' = orig(t)
  BY <1>1, <1>2, <1>4 DEF NamesOf
<1>6. \A t : named(t)' = named(t)
  BY <1>1 DEF DefinitionsNamed
<1>7. \A node, m : field(node, m)' = field(node, m)
  BY <1>3 DEF FieldNames
<1>8. \A n : Meant(n) = IF n.event = "fragment" \/ n.scope = QueryType THEN orig(n.name)
                        ELSE field(named(orig(n.scope)), n.name)
  BY DEF Meant
<1>9. \A n : Meant(n)' = IF n.event = "fragment" \/ n.scope = QueryType THEN orig(n.name)'
                         ELSE field(named(orig(n.scope)), n.name)'
  BY DEF Meant
<1> HIDE DEF orig, named, field
<1>10. \A n : Meant(n)' = Meant(n)
  BY <1>5, <1>6, <1>7, <1>8, <1>9
<1>11. \A n : Answer(n)' = Answer(n)
  BY <1>10 DEF Answer
<1>12. AnswersTo(query)' = AnswersTo(query')
  BY <1>11 DEF AnswersTo
<1> QED BY <1>10, <1>11, <1>12

(* A doubt stays, and what is entered can bring one.                          *)
LEMMA DoubtStays ==
    ASSUME IsSequence(query), NEW e, query' = Append(query, e)
    PROVE  /\ Doubtful => Doubtful'
           /\ Balanced' => Balanced
           /\ e.event = "leave" /\ e.name = "fragment" => ~Balanced'
           /\ e.event = "field" /\ ~Balanced => Doubtful'
           /\ e.event = "field" /\ e.scope = QueryType => Doubtful'
<1>1. /\ Len(query) \in Nat /\ DOMAIN query = 1..Len(query)
      /\ query = <<>> <=> Len(query) = 0
  BY SequenceParts
<1>2. /\ DOMAIN query' = 1..(Len(query) + 1)
      /\ query' = [i \in 1..(Len(query) + 1) |-> IF i = Len(query) + 1 THEN e ELSE query[i]]
  BY AppendIs
<1>3. /\ Len(query) + 1 \in DOMAIN query' /\ query'[Len(query) + 1] = e
      /\ \A i \in DOMAIN query : i \in DOMAIN query' /\ query'[i] = query[i] /\ i < Len(query) + 1
  BY <1>1, <1>2
<1>4. Balanced' => Balanced
  BY <1>3 DEF Balanced
<1>5. e.event = "leave" /\ e.name = "fragment" => ~Balanced'
  BY <1>3 DEF Balanced
<1>6. FieldAfterCoercion => FieldAfterCoercion'
  BY <1>3 DEF FieldAfterCoercion
<1>7. RootFieldBelowRoot => RootFieldBelowRoot'
  BY <1>3 DEF RootFieldBelowRoot
<1>8. e.event = "field" /\ ~Balanced => FieldAfterCoercion'
  BY <1>3 DEF FieldAfterCoercion, Balanced
<1>9. e.event = "field" /\ e.scope = QueryType => RootFieldBelowRoot'
  BY <1>3 DEF RootFieldBelowRoot
<1> QED BY <1>4, <1>5, <1>6, <1>7, <1>8, <1>9 DEF Doubtful

LEMMA NothingReadYet ==
    ASSUME query = <<>>, open = <<>>, current_type_name = <<>>, translated = <<>>,
           verdict = "reading"
    PROVE  QueryInv
<1>1. IsSequence(<<>>)
  BY EmptySeq DEF IsSequence
<1>2. AnswersTo(<<>>) = <<>> /\ TypesOf(<<>>) = <<>>
  BY DEF AnswersTo, TypesOf
<1> QED BY <1>1, <1>2 DEF QueryInv

(* What a step that reads one more has to show.                               *)
LEMMA OneMoreRead ==
    ASSUME QueryInv, UNCHANGED schema_vars, outcome = "done",
           NEW e, query' = Append(query, e),
           IsSequence(open'), \A i \in DOMAIN open' : open'[i].event \in {"root", "field", "fragment"},
           ~Doubtful /\ ~Doubtful' =>
              /\ verdict' \in {"reading", "done"}
              /\ translated' = Append(translated, Answer(e))
              /\ Balanced' /\ current_type_name = TypesOf(open) => current_type_name' = TypesOf(open')
    PROVE  QueryInv'
<1>1. IsSequence(query') /\ query' # <<>>
  <2>1. IsSequence(query') /\ Len(query') = Len(query) + 1 /\ Len(query) \in Nat
    BY AppendIs, SequenceParts DEF QueryInv
  <2> QED BY <2>1, SequenceParts
<1>2. outcome' = "done"
  BY DEF schema_vars
<1>3. /\ Doubtful => Doubtful'
      /\ Balanced' => Balanced
  BY DoubtStays DEF QueryInv
<1>4. ASSUME ~Doubtful'
      PROVE  /\ verdict' \in {"reading", "done"} /\ translated' = AnswersTo(query)'
             /\ Balanced' => current_type_name' = TypesOf(open)'
  <2>1. /\ translated = AnswersTo(query)
        /\ Balanced => current_type_name = TypesOf(open)
    BY <1>3, <1>4 DEF QueryInv
  <2>2. translated' = AnswersTo(query')
    BY <1>3, <1>4, <2>1, AnswersToMore DEF QueryInv
  <2>3. AnswersTo(query)' = AnswersTo(query')
    BY MeantStays
  <2>4. verdict' \in {"reading", "done"} /\ (Balanced' => current_type_name' = TypesOf(open)')
    BY <1>3, <1>4, <2>1
  <2> QED BY <2>2, <2>3, <2>4
<1> QED BY <1>1, <1>2, <1>4 DEF QueryInv

LEMMA EnteredIsRead ==
    ASSUME QueryInv, outcome = "done", verdict = "reading",
           NEW event \in {"root", "field", "fragment"}, NEW name, NEW type, NEW stack, NEW result,
           Entered(event, name, type, stack, result),
           ~Doubtful /\ ~Doubtful' =>
              /\ result = Meant(Entry(event, name, Scope))
              /\ Balanced /\ current_type_name = TypesOf(open) =>
                    stack = Append(current_type_name, type)
    PROVE  QueryInv'
<1> DEFINE e == Entry(event, name, Scope)
           x == [event |-> event, type |-> type]
<1>1. /\ query' = Append(query, e) /\ open' = Append(open, x)
      /\ current_type_name' = stack /\ translated' = Append(translated, result)
      /\ UNCHANGED schema_vars /\ verdict' = verdict
  BY DEF Entered, Entry
<1>2. e.event = event /\ e.event # "leave" /\ x.event = event /\ x.type = type
  BY DEF Entry
<1> HIDE DEF e, x
<1>3. IsSequence(open') /\ \A i \in DOMAIN open' : open'[i].event \in {"root", "field", "fragment"}
  <2>1. /\ IsSequence(open') /\ DOMAIN open' = 1..(Len(open) + 1)
        /\ open' = [i \in 1..(Len(open) + 1) |-> IF i = Len(open) + 1 THEN x ELSE open[i]]
    BY <1>1, AppendIs DEF QueryInv
  <2>2. Len(open) \in Nat /\ DOMAIN open = 1..Len(open)
    BY SequenceParts DEF QueryInv
  <2>3. \A i \in DOMAIN open : open[i].event \in {"root", "field", "fragment"}
    BY DEF QueryInv
  <2>4. ASSUME NEW i \in DOMAIN open' PROVE open'[i].event \in {"root", "field", "fragment"}
    <3>1. open'[i] = x \/ (i \in DOMAIN open /\ open'[i] = open[i])
      BY <2>1, <2>2
    <3> QED BY <1>2, <2>3, <3>1
  <2> QED BY <2>1, <2>4
<1>4. Balanced' => Balanced
  BY <1>1, DoubtStays DEF QueryInv
<1>5. ASSUME ~Doubtful, ~Doubtful'
      PROVE  /\ verdict' \in {"reading", "done"}
             /\ translated' = Append(translated, Answer(e))
             /\ Balanced' /\ current_type_name = TypesOf(open) => current_type_name' = TypesOf(open')
  <2>1. result = Answer(e)
    BY <1>2, <1>5 DEF Answer, e
  <2>2. ASSUME Balanced', current_type_name = TypesOf(open)
        PROVE  current_type_name' = TypesOf(open')
    <3>1. stack = Append(TypesOf(open), x.type)
      BY <1>2, <1>4, <1>5, <2>2
    <3>2. TypesOf(Append(open, x)) = Append(TypesOf(open), x.type)
      BY TypesOfMore DEF QueryInv
    <3> QED BY <1>1, <3>1, <3>2
  <2> QED BY <1>1, <2>1, <2>2
<1> QED BY <1>1, <1>3, <1>5, OneMoreRead

LEMMA EnterRootFieldReads ==
    ASSUME RenameInv, QueryInv, EnterRootField PROVE QueryInv'
<1>1. verdict = "reading" /\ outcome = "done" /\ open = <<>> /\ Scope = QueryType
  BY DEF EnterRootField, MayEnter, Scope
<1>2. PICK f \in TypeNamed(QueryType).fields :
         Entered("root", f.name, f.type, Append(current_type_name, f.name),
                 Lookup(reverse_name_map, f.name, f.name))
  BY DEF EnterRootField
<1>3. /\ f.name = f.type
      /\ Meant(Entry("root", f.name, Scope)) = Lookup(reverse_name_map, f.name, f.name)
  BY <1>1, RootFieldMeans DEF OriginalType
<1> QED BY <1>1, <1>2, <1>3, EnteredIsRead

LEMMA EnterInlineFragmentReads ==
    ASSUME RenameInv, QueryInv, EnterInlineFragment PROVE QueryInv'
<1>1. verdict = "reading" /\ outcome = "done"
  BY DEF EnterInlineFragment, MayEnter
<1>2. PICK t \in CoercionsFrom(Scope) :
         Entered("fragment", t, t, Append(current_type_name, t), Lookup(reverse_name_map, t, t))
  BY DEF EnterInlineFragment
<1>3. t \in NamesOf(renamed)
  BY <1>2 DEF CoercionsFrom
<1>4. Meant(Entry("fragment", t, Scope)) = Lookup(reverse_name_map, t, t)
  BY <1>1, <1>3, TypeNameMeans DEF OriginalType
<1> QED BY <1>1, <1>2, <1>4, EnteredIsRead

LEMMA EnterFieldReads ==
    ASSUME RenameInv, QueryInv, EnterField PROVE QueryInv'
<1>1. verdict = "reading" /\ outcome = "done" /\ open # <<>> /\ HasSelections(Scope)
  BY DEF EnterField, MayEnter
<1> DEFINE top == Last(current_type_name)
           foundIn(f) == IF HasSelections(top) THEN FieldOf(top, f.name) ELSE {}
           stackOf(f) == IF foundIn(f) = {} THEN current_type_name
                         ELSE Append(current_type_name, (CHOOSE x \in foundIn(f) : TRUE).type)
<1>2. PICK f \in TypeNamed(Scope).fields :
         IF ~HasSelections(top) \/ TypeNamed(top).kind = "union" THEN RaiseAt(f.name)
         ELSE Entered("field", f.name, f.type, stackOf(f), TranslatedField(stackOf(f), f.name))
  BY DEF EnterField
<1> DEFINE e == Entry("field", f.name, Scope)
<1>3. query # <<>> /\ IsSequence(query) /\ IsSequence(open)
  BY <1>1 DEF QueryInv
<1>4. query' = Append(query, e) /\ UNCHANGED schema_vars
  BY <1>2 DEF Entered, RaiseAt, Entry
<1>5. e.event = "field" /\ e.scope = Scope
  BY DEF Entry
<1>6. Scope \in NamesOf(renamed)
  BY <1>1 DEF HasSelections, DefinitionsNamed, NamesOf
<1> HIDE DEF e
<1>7. ~Doubtful' => Balanced /\ Scope # QueryType
  BY <1>3, <1>4, <1>5, DoubtStays
<1>8. ASSUME ~Doubtful, ~Doubtful'
      PROVE  /\ ~(~HasSelections(top) \/ TypeNamed(top).kind = "union")
             /\ stackOf(f) = Append(current_type_name, f.type)
             /\ TranslatedField(stackOf(f), f.name) = Meant(Entry("field", f.name, Scope))
  <2>1. current_type_name = TypesOf(open) /\ Scope # QueryType
    BY <1>7, <1>8 DEF QueryInv
  <2>2. top = Scope
    BY <1>1, <1>3, <2>1, TypesOfLess DEF Scope
  <2>3. /\ Meant(Entry("field", f.name, Scope)) = OriginalField(Scope, f.name)
        /\ FieldOf(Scope, f.name) = {f}
        /\ HasSelections(Scope) /\ TypeNamed(Scope).kind # "union"
    BY <1>1, <1>6, <2>1, FieldMeans
  <2>4. foundIn(f) = {f}
    BY <2>2, <2>3
  <2> HIDE DEF foundIn
  <2>5. stackOf(f) = Append(current_type_name, f.type)
    <3>1. (CHOOSE x \in foundIn(f) : TRUE) = f
      BY <2>4
    <3> QED BY <2>4, <3>1
  <2> HIDE DEF stackOf, top
  <2>6. stackOf(f)[Len(stackOf(f)) - 1] = Scope
    <3>1. IsSequence(current_type_name) /\ Len(current_type_name) \in Nat \ {0}
      <4>1. Len(open) \in Nat \ {0} /\ DOMAIN open = 1..Len(open)
        BY <1>1, <1>3, SequenceParts
      <4>2. TypesOf(open) = [i \in 1..Len(open) |-> TypesOf(open)[i]]
        BY <4>1 DEF TypesOf
      <4> QED BY <2>1, <4>1, <4>2, SequenceIs
    <3>2. top = current_type_name[Len(current_type_name)]
      BY DEF top, Last
    <3>3. /\ Len(stackOf(f)) = Len(current_type_name) + 1
          /\ stackOf(f) = [i \in 1..(Len(current_type_name) + 1) |->
                IF i = Len(current_type_name) + 1 THEN f.type ELSE current_type_name[i]]
      BY <2>5, <3>1, AppendIs
    <3>4. Len(stackOf(f)) - 1 = Len(current_type_name)
      BY <3>1, <3>3
    <3>5. Len(current_type_name) \in 1..(Len(current_type_name) + 1)
          /\ Len(current_type_name) # Len(current_type_name) + 1
      BY <3>1
    <3>6. stackOf(f)[Len(current_type_name)] = current_type_name[Len(current_type_name)]
      BY <3>3, <3>5
    <3> QED BY <2>2, <3>2, <3>4, <3>6
  <2>7. TranslatedField(stackOf(f), f.name) = OriginalField(Scope, f.name)
    BY <2>1, <2>6 DEF TranslatedField, OriginalField, OriginalType
  <2> QED BY <2>2, <2>3, <2>5, <2>7 DEF top
<1> HIDE DEF top, foundIn, stackOf
<1>9. CASE RaiseAt(f.name) /\ Doubtful'
  <2>1. open' = open
    BY <1>9 DEF RaiseAt
  <2>2. \A i \in DOMAIN open' : open'[i].event \in {"root", "field", "fragment"}
    BY <2>1 DEF QueryInv
  <2>3. IsSequence(open')
    BY <1>3, <2>1
  <2> QED BY <1>1, <1>4, <1>9, <2>2, <2>3, OneMoreRead
<1>10. CASE Entered("field", f.name, f.type, stackOf(f), TranslatedField(stackOf(f), f.name))
  BY <1>1, <1>8, <1>10, EnteredIsRead
<1>11. Doubtful => Doubtful'
  BY <1>3, <1>4, DoubtStays
<1> QED BY <1>2, <1>8, <1>9, <1>10, <1>11

LEMMA LeaveReads ==
    ASSUME RenameInv, QueryInv, Leave PROVE QueryInv'
<1> DEFINE e == [event |-> "leave", name |-> Last(open).event, scope |-> Scope]
<1>1. /\ verdict = "reading" /\ open # <<>>
      /\ query' = Append(query, e) /\ open' = Front(open)
      /\ current_type_name' = IF Last(open).event = "fragment" THEN current_type_name
                              ELSE Front(current_type_name)
      /\ translated' = Append(translated, NULL)
      /\ UNCHANGED <<schema_vars, verdict>>
  BY DEF Leave
<1>2. e.event = "leave" /\ e.name = Last(open).event
  OBVIOUS
<1> HIDE DEF e
<1>3. query # <<>> /\ IsSequence(query) /\ IsSequence(open) /\ outcome = "done"
  BY <1>1 DEF QueryInv
<1>4. /\ Len(open) \in Nat \ {0} /\ DOMAIN open = 1..Len(open)
      /\ IsSequence(open') /\ DOMAIN open' = 1..(Len(open) - 1)
      /\ \A i \in 1..(Len(open) - 1) : open'[i] = open[i]
  BY <1>1, <1>3, FrontIs, SequenceParts
<1>5. \A i \in DOMAIN open' : open'[i].event \in {"root", "field", "fragment"}
  BY <1>4 DEF QueryInv
<1>6. Last(open).event \in {"root", "field", "fragment"}
  BY <1>4 DEF QueryInv, Last
<1>7. Balanced' => Last(open).event # "fragment"
  BY <1>1, <1>2, <1>3, <1>6, DoubtStays
<1>8. Answer(e) = NULL
  BY <1>2 DEF Answer
<1>9. verdict' \in {"reading", "done"}
  BY <1>1
<1>10. ASSUME Balanced', current_type_name = TypesOf(open)
       PROVE  current_type_name' = TypesOf(open')
  BY <1>1, <1>3, <1>7, <1>10, TypesOfLess
<1> QED BY <1>1, <1>3, <1>4, <1>5, <1>8, <1>9, <1>10, OneMoreRead

LEMMA LeaveQueryReads ==
    ASSUME QueryInv, LeaveQuery PROVE QueryInv'
<1>1. /\ verdict = "reading" /\ query # <<>> /\ verdict' = "done"
      /\ UNCHANGED schema_vars
      /\ UNCHANGED <<query, open, current_type_name, translated>>
  BY DEF LeaveQuery
<1>2. AnswersTo(query)' = AnswersTo(query) /\ outcome' = outcome
  BY <1>1, MeantStays DEF schema_vars
<1>3. (Doubtful' <=> Doubtful) /\ (Balanced' <=> Balanced)
  BY <1>1 DEF Doubtful, FieldAfterCoercion, RootFieldBelowRoot, Balanced
<1> QED BY <1>1, <1>2, <1>3 DEF QueryInv

LEMMA QueryInvNext ==
    ASSUME RenameInv, QueryInv, [Next]_vars PROVE QueryInv'
<1>1. CASE Rename
  <2>1. UNCHANGED query_vars
    BY <1>1 DEF Rename
  <2>2. outcome # "done"
    BY <1>1 DEF Rename, SchemaNext, RejectUnsupported, SuppressDefinition, EnterDefinition,
                EnterNamedType, LeaveSchema, RenameQueryTypeFields, CanEnter
  <2>3. query = <<>>
    BY <2>2 DEF QueryInv
  <2>4. /\ query' = <<>> /\ open' = <<>> /\ current_type_name' = <<>> /\ translated' = <<>>
        /\ verdict' = "reading"
    BY <2>1, <2>3 DEF query_vars, QueryInv
  <2>5. IsSequence(<<>>)
    BY EmptySeq DEF IsSequence
  <2>6. AnswersTo(query)' = <<>> /\ TypesOf(open)' = <<>>
    BY <2>4 DEF AnswersTo, TypesOf
  <2> QED BY <2>4, <2>5, <2>6 DEF QueryInv
<1>2. CASE UNCHANGED vars
  <2>1. UNCHANGED schema_vars /\ UNCHANGED query_vars
    BY <1>2 DEF vars
  <2>2. AnswersTo(query)' = AnswersTo(query)
    BY <2>1, MeantStays DEF query_vars
  <2>3. outcome' = outcome
    BY <2>1 DEF schema_vars
  <2>4. (Doubtful' <=> Doubtful) /\ (Balanced' <=> Balanced)
    BY <2>1 DEF query_vars, Doubtful, FieldAfterCoercion, RootFieldBelowRoot, Balanced
  <2> QED BY <2>1, <2>2, <2>3, <2>4 DEF query_vars, QueryInv
<1>3. CASE EnterRootField
  BY <1>3, EnterRootFieldReads
<1>4. CASE EnterField
  BY <1>4, EnterFieldReads
<1>5. CASE EnterInlineFragment
  BY <1>5, EnterInlineFragmentReads
<1>6. CASE Leave
  BY <1>6, LeaveReads
<1>7. CASE LeaveQuery
  BY <1>7, LeaveQueryReads
<1> QED BY <1>1, <1>2, <1>3, <1>4, <1>5, <1>6, <1>7 DEF Next

(* Each name of a query stands in the original schema for what it stood for   *)
(* in the renamed one, as long as no field comes after a type coercion has    *)
(* been left and no root field is below the root: the visitor's stack is then *)
(* that of the types it is in, whatever the query and the renamings.          *)
THEOREM NamesAreTranslatedBack == Spec => []NamesAreTranslatedBeforeCoercions
<1>1. Init => QueryInv
  BY NothingReadYet DEF Init
<1>2. RenameInv /\ QueryInv /\ [Next]_vars => QueryInv'
  BY QueryInvNext
<1>3. QueryInv => NamesAreTranslatedBeforeCoercions
  BY DEF QueryInv, NamesAreTranslatedBeforeCoercions, NamesAreTranslated, Doubtful, AnswersTo, Answer
<1> QED BY <1>1, <1>2, <1>3, RenameInvariant, PTL DEF Spec

=============================================================================
