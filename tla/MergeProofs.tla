----------------------------- MODULE MergeProofs -----------------------------
(* Proofs about the merging of schemas, within the walk that merges schemas   *)
(* and then splits a query.                                                   *)
EXTENDS SplitQuery, TLAPS, SequenceTheorems

-----------------------------------------------------------------------------
(* What has been read of schema i, by the index of the definition.            *)
DefinitionAt(i, k) == federation.schemas[i].definitions[k]

ReadOf(i) ==
    {k \in DOMAIN federation.schemas[i].definitions :
        i < schema_index \/ (i = schema_index /\ k < definition_index)}

IsOwnType(i, k) ==
    /\ DefinitionAt(i, k).kind \notin {"scalar", "directive"}
    /\ DefinitionAt(i, k).name # federation.schemas[i].query_type

IsOfKind(i, k, kind) == DefinitionAt(i, k).kind = kind

(* The three tables of names hold what was read, and nothing else.            *)
TypesAreRecorded ==
    /\ \A n \in DOMAIN type_name_to_schema_id :
          \E i \in DOMAIN federation.schemas : \E k \in ReadOf(i) :
              IsOwnType(i, k) /\ DefinitionAt(i, k).name = n
    /\ \A i \in DOMAIN federation.schemas : \A k \in ReadOf(i) :
          IsOwnType(i, k) => DefinitionAt(i, k).name \in DOMAIN type_name_to_schema_id

ScalarsAreRecorded ==
    /\ \A n \in scalars :
          \/ n \in BuiltinScalars
          \/ \E i \in DOMAIN federation.schemas : \E k \in ReadOf(i) :
                IsOfKind(i, k, "scalar") /\ DefinitionAt(i, k).name = n
    /\ \A i \in DOMAIN federation.schemas : \A k \in ReadOf(i) :
          IsOfKind(i, k, "scalar") => DefinitionAt(i, k).name \in scalars

DirectivesAreRecorded ==
    /\ \A n \in DOMAIN directives :
          \E i \in DOMAIN federation.schemas : \E k \in ReadOf(i) :
              /\ IsOfKind(i, k, "directive")
              /\ DefinitionAt(i, k).name = n /\ DefinitionAt(i, k).refs = directives[n]
    /\ \A i \in DOMAIN federation.schemas : \A k \in ReadOf(i) :
          IsOfKind(i, k, "directive") =>
              /\ DefinitionAt(i, k).name \in DOMAIN directives
              /\ directives[DefinitionAt(i, k).name] = DefinitionAt(i, k).refs

(* No name has been read as a type of two schemas, or as a type and a scalar. *)
NamesAreApart ==
    /\ scalars \cap DOMAIN type_name_to_schema_id = {}
    /\ \A i, j \in DOMAIN federation.schemas : \A k \in ReadOf(i), l \in ReadOf(j) :
          IsOwnType(i, k) /\ IsOwnType(j, l)
              /\ DefinitionAt(i, k).name = DefinitionAt(j, l).name => i = j

IndexesOK ==
    /\ federation \in Federations
    /\ schema_index \in Nat \ {0}
    /\ definition_index \in Nat \ {0}
    /\ merge_outcome \notin {"accumulating", "ValueError", "SchemaMergeNameConflictError"} =>
          Accumulated

MergeInv ==
    /\ IndexesOK
    /\ TypesAreRecorded /\ ScalarsAreRecorded /\ DirectivesAreRecorded
    /\ NamesAreApart
    /\ merge_outcome = "SchemaMergeNameConflictError" /\ ~Accumulated => ~Compatible

-----------------------------------------------------------------------------
(* How the reading goes on                                                    *)

LEMMA Federation ==
    ASSUME federation \in Federations
    PROVE  /\ Len(federation.schemas) \in Nat
           /\ DOMAIN federation.schemas = 1..Len(federation.schemas)
           /\ \A i \in DOMAIN federation.schemas :
                 /\ Len(federation.schemas[i].definitions) \in Nat
                 /\ DOMAIN federation.schemas[i].definitions
                      = 1..Len(federation.schemas[i].definitions)
                 /\ DefinesOnce(federation.schemas[i].definitions)
                 /\ \A k \in DOMAIN federation.schemas[i].definitions :
                       DefinitionAt(i, k).name \in BuiltinScalars =>
                           DefinitionAt(i, k).kind \in {"scalar", "directive"}
  BY FederationsAssumption DEF IsMergeable, DefinitionAt

LEMMA CurrentPosition ==
    ASSUME IndexesOK, Reading
    PROVE  /\ schema_index \in DOMAIN federation.schemas
           /\ definition_index \in DOMAIN federation.schemas[schema_index].definitions
           /\ definition_index \notin ReadOf(schema_index)
           /\ CurrentDefinition = DefinitionAt(schema_index, definition_index)
           /\ ~Accumulated
  BY Federation DEF IndexesOK, Reading, CurrentSchema, CurrentDefinition, DefinitionAt, ReadOf,
     Accumulated

(* The current definition is read.                                            *)
LEMMA ReadNext ==
    ASSUME IndexesOK, Reading, UNCHANGED <<federation, schema_index>>,
           definition_index' = definition_index + 1
    PROVE  \A i \in DOMAIN federation.schemas :
              ReadOf(i)' = IF i = schema_index THEN ReadOf(i) \cup {definition_index} ELSE ReadOf(i)
<1>1. DOMAIN federation.schemas \subseteq Nat /\ schema_index \in Nat /\ definition_index \in Nat
  BY Federation DEF IndexesOK
<1>2. \A i \in DOMAIN federation.schemas :
         DOMAIN federation.schemas[i].definitions \subseteq Nat
  BY Federation DEF IndexesOK
<1> QED
  BY <1>1, <1>2, CurrentPosition DEF ReadOf

(* A schema is finished: nothing more is read.                                *)
LEMMA ReadOn ==
    ASSUME IndexesOK, FinishSchema
    PROVE  \A i \in DOMAIN federation.schemas : ReadOf(i)' = ReadOf(i)
<1>1. DOMAIN federation.schemas \subseteq Nat /\ schema_index \in DOMAIN federation.schemas
  BY Federation DEF IndexesOK, FinishSchema
<1>2. \A i \in DOMAIN federation.schemas :
         DOMAIN federation.schemas[i].definitions = 1..Len(federation.schemas[i].definitions)
         /\ Len(federation.schemas[i].definitions) \in Nat
  BY Federation DEF IndexesOK
<1>3. /\ schema_index' = schema_index + 1 /\ definition_index' = 1 /\ federation' = federation
      /\ definition_index > Len(federation.schemas[schema_index].definitions)
      /\ definition_index \in Nat /\ schema_index \in Nat
  BY DEF FinishSchema, CurrentSchema, IndexesOK
<1> SUFFICES ASSUME NEW i \in DOMAIN federation.schemas,
                    NEW k \in DOMAIN federation.schemas[i].definitions
             PROVE  k \in ReadOf(i)' <=> k \in ReadOf(i)
  BY <1>3 DEF ReadOf
<1>4. k \in Nat /\ i \in Nat /\ k <= Len(federation.schemas[i].definitions)
  BY <1>1, <1>2
<1>5. CASE i < schema_index
  BY <1>1, <1>3, <1>4, <1>5 DEF ReadOf
<1>6. CASE i = schema_index
  BY <1>1, <1>2, <1>3, <1>4, <1>6 DEF ReadOf
<1>7. CASE i > schema_index
  BY <1>1, <1>3, <1>4, <1>7 DEF ReadOf
<1> QED
  BY <1>1, <1>4, <1>5, <1>6, <1>7, <1>3

(* Two definitions of one schema have different names, unless only one of     *)
(* them is a directive.                                                       *)
LEMMA NamesWithinASchema ==
    ASSUME IndexesOK, NEW i \in DOMAIN federation.schemas,
           NEW k \in DOMAIN federation.schemas[i].definitions,
           NEW l \in DOMAIN federation.schemas[i].definitions,
           DefinitionAt(i, k).name = DefinitionAt(i, l).name,
           (DefinitionAt(i, k).kind = "directive") = (DefinitionAt(i, l).kind = "directive")
    PROVE  k = l
  BY Federation DEF IndexesOK, DefinesOnce, DefinitionAt

-----------------------------------------------------------------------------
(* The tables after a step                                                    *)

Tables == TypesAreRecorded /\ ScalarsAreRecorded /\ DirectivesAreRecorded /\ NamesAreApart

tables == <<federation, type_name_to_schema_id, scalars, directives>>

LEMMA NothingRead ==
    ASSUME Tables, UNCHANGED tables, \A i \in DOMAIN federation.schemas : ReadOf(i)' = ReadOf(i)
    PROVE  Tables'
<1>1. federation' = federation /\ type_name_to_schema_id' = type_name_to_schema_id
      /\ scalars' = scalars /\ directives' = directives
  BY DEF tables
<1>2. TypesAreRecorded'
  BY <1>1 DEF Tables, TypesAreRecorded, IsOwnType, DefinitionAt
<1>3. ScalarsAreRecorded'
  BY <1>1 DEF Tables, ScalarsAreRecorded, IsOfKind, DefinitionAt
<1>4. DirectivesAreRecorded'
  BY <1>1 DEF Tables, DirectivesAreRecorded, IsOfKind, DefinitionAt
<1>5. NamesAreApart'
  BY <1>1 DEF Tables, NamesAreApart, IsOwnType, DefinitionAt
<1> QED
  BY <1>2, <1>3, <1>4, <1>5 DEF Tables

ReadsCurrent ==
    /\ Reading /\ UNCHANGED <<federation, schema_index>>
    /\ definition_index' = definition_index + 1

(* A definition is read that the tables say nothing new of.                   *)
LEMMA KnownRead ==
    ASSUME IndexesOK, Tables, ReadsCurrent, UNCHANGED tables,
           ~IsOwnType(schema_index, definition_index),
           CurrentDefinition.kind = "scalar" => CurrentDefinition.name \in scalars,
           CurrentDefinition.kind = "directive" =>
               /\ CurrentDefinition.name \in DOMAIN directives
               /\ directives[CurrentDefinition.name] = CurrentDefinition.refs
    PROVE  Tables'
<1>1. federation' = federation /\ type_name_to_schema_id' = type_name_to_schema_id
      /\ scalars' = scalars /\ directives' = directives
  BY DEF tables
<1>2. \A i \in DOMAIN federation.schemas :
         ReadOf(i)' = IF i = schema_index THEN ReadOf(i) \cup {definition_index} ELSE ReadOf(i)
  BY ReadNext DEF ReadsCurrent
<1>3. /\ schema_index \in DOMAIN federation.schemas
      /\ CurrentDefinition = DefinitionAt(schema_index, definition_index)
  BY CurrentPosition DEF ReadsCurrent
<1>4. TypesAreRecorded'
  BY <1>1, <1>2 DEF Tables, TypesAreRecorded, IsOwnType, DefinitionAt
<1>5. ScalarsAreRecorded'
  BY <1>1, <1>2, <1>3 DEF Tables, ScalarsAreRecorded, IsOfKind, DefinitionAt
<1>6. DirectivesAreRecorded'
  BY <1>1, <1>2, <1>3 DEF Tables, DirectivesAreRecorded, IsOfKind, DefinitionAt
<1>7. NamesAreApart'
  BY <1>1, <1>2 DEF Tables, NamesAreApart, IsOwnType, DefinitionAt
<1> QED
  BY <1>4, <1>5, <1>6, <1>7 DEF Tables

LEMMA DirectiveRead ==
    ASSUME IndexesOK, Tables, ReadsCurrent, UNCHANGED <<type_name_to_schema_id, scalars>>,
           CurrentDefinition.kind = "directive",
           CurrentDefinition.name \notin DOMAIN directives,
           directives' = With(directives, CurrentDefinition.name, CurrentDefinition.refs)
    PROVE  Tables'
<1>1. /\ DOMAIN directives' = DOMAIN directives \cup {CurrentDefinition.name}
      /\ directives'[CurrentDefinition.name] = CurrentDefinition.refs
      /\ \A n \in DOMAIN directives : directives'[n] = directives[n]
  BY DEF With
<1>2. \A i \in DOMAIN federation.schemas :
         ReadOf(i)' = IF i = schema_index THEN ReadOf(i) \cup {definition_index} ELSE ReadOf(i)
  BY ReadNext DEF ReadsCurrent
<1>3. /\ schema_index \in DOMAIN federation.schemas
      /\ CurrentDefinition = DefinitionAt(schema_index, definition_index)
      /\ federation' = federation
  BY CurrentPosition DEF ReadsCurrent
<1>4. TypesAreRecorded'
  BY <1>2, <1>3 DEF Tables, TypesAreRecorded, IsOwnType, DefinitionAt
<1>5. ScalarsAreRecorded'
  BY <1>2, <1>3 DEF Tables, ScalarsAreRecorded, IsOfKind, DefinitionAt
<1>6. DirectivesAreRecorded'
  <2> DEFINE Records(n, i, k) == /\ IsOfKind(i, k, "directive")
                                 /\ DefinitionAt(i, k).name = n
                                 /\ DefinitionAt(i, k).refs = directives'[n]
  <2>1. ASSUME NEW n \in DOMAIN directives'
        PROVE  \E i \in DOMAIN federation.schemas : \E k \in ReadOf(i)' : Records(n, i, k)
    <3>1. CASE n = CurrentDefinition.name
      <4>0. PICK i, k : i \in DOMAIN federation.schemas /\ i = schema_index /\ k = definition_index
        BY <1>3
      <4>1. k \in ReadOf(i)'
        BY <1>2, <4>0
      <4>2. Records(n, i, k)
        BY <1>1, <1>3, <3>1, <4>0 DEF IsOfKind
      <4> QED
        BY <4>0, <4>1, <4>2
    <3>2. CASE n \in DOMAIN directives
      <4>1. PICK i \in DOMAIN federation.schemas : \E k \in ReadOf(i) : Records(n, i, k)
        BY <1>1, <3>2 DEF Tables, DirectivesAreRecorded
      <4>2. ReadOf(i) \subseteq ReadOf(i)'
        BY <1>2
      <4> QED
        BY <4>1, <4>2
    <3> QED
      BY <1>1, <2>1, <3>1, <3>2
  <2>2. ASSUME NEW i \in DOMAIN federation.schemas, NEW k \in ReadOf(i)',
               IsOfKind(i, k, "directive")
        PROVE  DefinitionAt(i, k).name \in DOMAIN directives'
               /\ directives'[DefinitionAt(i, k).name] = DefinitionAt(i, k).refs
    <3>1. CASE k \in ReadOf(i)
      BY <1>1, <2>2, <3>1 DEF Tables, DirectivesAreRecorded
    <3>2. CASE i = schema_index /\ k = definition_index
      BY <1>1, <1>3, <3>2
    <3> QED
      BY <1>2, <2>2, <3>1, <3>2
  <2>3. \A i, k : /\ DefinitionAt(i, k)' = DefinitionAt(i, k)
                  /\ IsOfKind(i, k, "directive")' <=> IsOfKind(i, k, "directive")
    BY <1>3 DEF IsOfKind, DefinitionAt
  <2> QED
    BY <1>3, <2>1, <2>2, <2>3 DEF DirectivesAreRecorded
<1>7. NamesAreApart'
  BY <1>2, <1>3 DEF Tables, NamesAreApart, IsOwnType, DefinitionAt
<1> QED
  BY <1>4, <1>5, <1>6, <1>7 DEF Tables

LEMMA ScalarRead ==
    ASSUME IndexesOK, Tables, ReadsCurrent, UNCHANGED <<type_name_to_schema_id, directives>>,
           CurrentDefinition.kind = "scalar",
           CurrentDefinition.name \notin DOMAIN type_name_to_schema_id,
           scalars' = scalars \cup {CurrentDefinition.name}
    PROVE  Tables'
<1>2. \A i \in DOMAIN federation.schemas :
         ReadOf(i)' = IF i = schema_index THEN ReadOf(i) \cup {definition_index} ELSE ReadOf(i)
  BY ReadNext DEF ReadsCurrent
<1>3. /\ schema_index \in DOMAIN federation.schemas
      /\ CurrentDefinition = DefinitionAt(schema_index, definition_index)
      /\ federation' = federation
  BY CurrentPosition DEF ReadsCurrent
<1>4. TypesAreRecorded'
  BY <1>2, <1>3 DEF Tables, TypesAreRecorded, IsOwnType, DefinitionAt
<1>5. ScalarsAreRecorded'
  BY <1>2, <1>3 DEF Tables, ScalarsAreRecorded, IsOfKind, DefinitionAt
<1>6. DirectivesAreRecorded'
  BY <1>2, <1>3 DEF Tables, DirectivesAreRecorded, IsOfKind, DefinitionAt
<1>7. NamesAreApart'
  BY <1>2, <1>3 DEF Tables, NamesAreApart, IsOwnType, DefinitionAt
<1> QED
  BY <1>4, <1>5, <1>6, <1>7 DEF Tables

LEMMA TypeRead ==
    ASSUME IndexesOK, Tables, ReadsCurrent, UNCHANGED <<scalars, directives>>,
           IsOwnType(schema_index, definition_index), ~TypeClashes(CurrentDefinition.name), NEW id,
           type_name_to_schema_id' = With(type_name_to_schema_id, CurrentDefinition.name, id)
    PROVE  Tables'
<1>1. DOMAIN type_name_to_schema_id' = DOMAIN type_name_to_schema_id \cup {CurrentDefinition.name}
  BY DEF With
<1>2. \A i \in DOMAIN federation.schemas :
         ReadOf(i)' = IF i = schema_index THEN ReadOf(i) \cup {definition_index} ELSE ReadOf(i)
  BY ReadNext DEF ReadsCurrent
<1>3. /\ schema_index \in DOMAIN federation.schemas
      /\ CurrentDefinition = DefinitionAt(schema_index, definition_index)
      /\ federation' = federation
  BY CurrentPosition DEF ReadsCurrent
<1>4. TypesAreRecorded'
  <2>1. ASSUME NEW n \in DOMAIN type_name_to_schema_id'
        PROVE  \E i \in DOMAIN federation.schemas : \E k \in ReadOf(i)' :
                   IsOwnType(i, k) /\ DefinitionAt(i, k).name = n
    <3>1. CASE n = CurrentDefinition.name
      <4>0. PICK i, k : i \in DOMAIN federation.schemas /\ i = schema_index /\ k = definition_index
        BY <1>3
      <4>1. k \in ReadOf(i)'
        BY <1>2, <4>0
      <4> QED
        BY <1>3, <3>1, <4>0, <4>1
    <3>2. CASE n \in DOMAIN type_name_to_schema_id
      <4>1. PICK i \in DOMAIN federation.schemas :
                \E k \in ReadOf(i) : IsOwnType(i, k) /\ DefinitionAt(i, k).name = n
        BY <3>2 DEF Tables, TypesAreRecorded
      <4>2. ReadOf(i) \subseteq ReadOf(i)'
        BY <1>2
      <4> QED
        BY <4>1, <4>2
    <3> QED
      BY <1>1, <2>1, <3>1, <3>2
  <2>2. ASSUME NEW i \in DOMAIN federation.schemas, NEW k \in ReadOf(i)', IsOwnType(i, k)
        PROVE  DefinitionAt(i, k).name \in DOMAIN type_name_to_schema_id'
    <3>1. CASE k \in ReadOf(i)
      BY <1>1, <2>2, <3>1 DEF Tables, TypesAreRecorded
    <3>2. CASE i = schema_index /\ k = definition_index
      BY <1>1, <1>3, <3>2
    <3> QED
      BY <1>2, <2>2, <3>1, <3>2
  <2>3. \A i, k : /\ DefinitionAt(i, k)' = DefinitionAt(i, k)
                  /\ IsOwnType(i, k)' <=> IsOwnType(i, k)
    BY <1>3 DEF IsOwnType, DefinitionAt
  <2> QED
    BY <1>3, <2>1, <2>2, <2>3 DEF TypesAreRecorded
<1>5. ScalarsAreRecorded'
  BY <1>2, <1>3 DEF Tables, ScalarsAreRecorded, IsOfKind, IsOwnType, DefinitionAt
<1>6. DirectivesAreRecorded'
  BY <1>2, <1>3 DEF Tables, DirectivesAreRecorded, IsOfKind, IsOwnType, DefinitionAt
<1>7. NamesAreApart'
  <2>1. (scalars \cap DOMAIN type_name_to_schema_id)' = {}
    BY <1>1 DEF Tables, NamesAreApart, TypeClashes
  <2> SUFFICES ASSUME NEW i \in DOMAIN federation.schemas, NEW j \in DOMAIN federation.schemas,
                      NEW k \in ReadOf(i)', NEW l \in ReadOf(j)',
                      IsOwnType(i, k), IsOwnType(j, l),
                      DefinitionAt(i, k).name = DefinitionAt(j, l).name, i # j
               PROVE  FALSE
    BY <1>3, <2>1 DEF NamesAreApart, IsOwnType, DefinitionAt
  <2>2. CASE k \in ReadOf(i) /\ l \in ReadOf(j)
    BY <2>2 DEF Tables, NamesAreApart
  <2>3. CASE k \notin ReadOf(i)
    <3>1. i = schema_index /\ k = definition_index /\ l \in ReadOf(j)
      BY <1>2, <2>3
    <3> QED
      BY <1>3, <3>1 DEF Tables, TypesAreRecorded, TypeClashes
  <2>4. CASE l \notin ReadOf(j)
    <3>1. j = schema_index /\ l = definition_index /\ k \in ReadOf(i)
      BY <1>2, <2>4
    <3> QED
      BY <1>3, <3>1 DEF Tables, TypesAreRecorded, TypeClashes
  <2> QED
    BY <2>2, <2>3, <2>4
<1> QED
  BY <1>4, <1>5, <1>6, <1>7 DEF Tables

-----------------------------------------------------------------------------
(* A conflict that is raised is one: it would be found in any order.          *)

LEMMA DefinedTypes ==
    ASSUME NEW i \in DOMAIN federation.schemas,
           NEW k \in DOMAIN federation.schemas[i].definitions
    PROVE  /\ IsOwnType(i, k) => DefinitionAt(i, k).name \in OwnTypes(i)
           /\ \A kind : IsOfKind(i, k, kind) => DefinitionAt(i, k) \in OfKind(i, kind)
  BY DEF DefinitionAt, ToSet, OwnTypes, OfKind, IsOwnType, IsOfKind

LEMMA ReadIsDefined ==
    ASSUME NEW i, NEW k \in ReadOf(i)
    PROVE  k \in DOMAIN federation.schemas[i].definitions
  BY DEF ReadOf

(* The current definition as rigid indexes.                                   *)
LEMMA Current ==
    ASSUME IndexesOK, Reading
    PROVE  \E j, l :
               /\ j \in DOMAIN federation.schemas /\ l \in DOMAIN federation.schemas[j].definitions
               /\ j = schema_index /\ l = definition_index /\ l \notin ReadOf(j)
               /\ CurrentDefinition = DefinitionAt(j, l)
  BY CurrentPosition

LEMMA TypeConflict ==
    ASSUME IndexesOK, Tables, Reading, IsOwnType(schema_index, definition_index),
           TypeClashes(CurrentDefinition.name)
    PROVE  ~Compatible
<1>1. PICK j, l :
          /\ j \in DOMAIN federation.schemas /\ l \in DOMAIN federation.schemas[j].definitions
          /\ j = schema_index /\ l = definition_index /\ l \notin ReadOf(j)
          /\ CurrentDefinition = DefinitionAt(j, l)
  BY Current
<1>2. IsOwnType(j, l) /\ CurrentDefinition.name \in OwnTypes(j)
  BY <1>1, DefinedTypes
<1>3. CurrentDefinition.name \notin BuiltinScalars
  BY <1>1, <1>2, Federation DEF IndexesOK, IsOwnType
<1>4. CASE CurrentDefinition.name \in DOMAIN type_name_to_schema_id
  <2>1. PICK i, k :
            /\ i \in DOMAIN federation.schemas /\ k \in ReadOf(i)
            /\ IsOwnType(i, k) /\ DefinitionAt(i, k).name = CurrentDefinition.name
    BY <1>4 DEF Tables, TypesAreRecorded
  <2>2. k \in DOMAIN federation.schemas[i].definitions
    BY <2>1, ReadIsDefined
  <2>3. CurrentDefinition.name \in OwnTypes(i)
    BY <2>1, <2>2, DefinedTypes
  <2>4. i # j
    BY <1>1, <1>2, <2>1, <2>2, NamesWithinASchema DEF IsOwnType
  <2> QED
    BY <1>1, <1>2, <2>1, <2>3, <2>4 DEF Compatible
<1>5. CASE CurrentDefinition.name \in scalars
  <2>1. PICK i, k :
            /\ i \in DOMAIN federation.schemas /\ k \in ReadOf(i)
            /\ IsOfKind(i, k, "scalar") /\ DefinitionAt(i, k).name = CurrentDefinition.name
    BY <1>3, <1>5 DEF Tables, ScalarsAreRecorded
  <2>2. k \in DOMAIN federation.schemas[i].definitions
    BY <2>1, ReadIsDefined
  <2>3. CurrentDefinition.name \in {x.name : x \in OfKind(i, "scalar")}
    BY <2>1, <2>2, DefinedTypes
  <2>4. i # j
    BY <1>1, <1>2, <2>1, <2>2, NamesWithinASchema DEF IsOwnType, IsOfKind
  <2> QED
    BY <1>1, <1>2, <2>1, <2>3, <2>4 DEF Compatible
<1> QED
  BY <1>4, <1>5 DEF TypeClashes

LEMMA ScalarConflict ==
    ASSUME IndexesOK, Tables, Reading, CurrentDefinition.kind = "scalar",
           ScalarClashes(CurrentDefinition.name)
    PROVE  ~Compatible
<1>1. PICK j, l :
          /\ j \in DOMAIN federation.schemas /\ l \in DOMAIN federation.schemas[j].definitions
          /\ j = schema_index /\ l = definition_index /\ l \notin ReadOf(j)
          /\ CurrentDefinition = DefinitionAt(j, l)
  BY Current
<1>2. CurrentDefinition.name \in {x.name : x \in OfKind(j, "scalar")}
  BY <1>1, DefinedTypes DEF IsOfKind
<1>3. PICK i, k :
          /\ i \in DOMAIN federation.schemas /\ k \in ReadOf(i)
          /\ IsOwnType(i, k) /\ DefinitionAt(i, k).name = CurrentDefinition.name
  BY DEF Tables, TypesAreRecorded, ScalarClashes
<1>4. k \in DOMAIN federation.schemas[i].definitions
  BY <1>3, ReadIsDefined
<1>5. CurrentDefinition.name \in OwnTypes(i)
  BY <1>3, <1>4, DefinedTypes
<1>6. i # j
  BY <1>1, <1>3, <1>4, NamesWithinASchema DEF IsOwnType
<1> QED
  BY <1>1, <1>2, <1>3, <1>5, <1>6 DEF Compatible

LEMMA DirectiveConflict ==
    ASSUME IndexesOK, Tables, Reading, CurrentDefinition.kind = "directive",
           CurrentDefinition.name \in DOMAIN directives,
           directives[CurrentDefinition.name] # CurrentDefinition.refs
    PROVE  ~Compatible
<1>1. PICK j, l :
          /\ j \in DOMAIN federation.schemas /\ l \in DOMAIN federation.schemas[j].definitions
          /\ j = schema_index /\ l = definition_index /\ l \notin ReadOf(j)
          /\ CurrentDefinition = DefinitionAt(j, l)
  BY Current
<1>2. CurrentDefinition \in OfKind(j, "directive")
  BY <1>1, DefinedTypes DEF IsOfKind
<1>3. PICK i, k :
          /\ i \in DOMAIN federation.schemas /\ k \in ReadOf(i)
          /\ IsOfKind(i, k, "directive") /\ DefinitionAt(i, k).name = CurrentDefinition.name
          /\ DefinitionAt(i, k).refs = directives[CurrentDefinition.name]
  BY DEF Tables, DirectivesAreRecorded
<1>4. k \in DOMAIN federation.schemas[i].definitions
  BY <1>3, ReadIsDefined
<1>5. DefinitionAt(i, k) \in OfKind(i, "directive")
  BY <1>3, <1>4, DefinedTypes
<1>6. i # j
  BY <1>1, <1>3, <1>4, NamesWithinASchema DEF IsOfKind
<1> QED
  BY <1>1, <1>2, <1>3, <1>5, <1>6 DEF Compatible

-----------------------------------------------------------------------------
(* The inductive invariant                                                    *)

LEMMA NothingIsReadAtFirst ==
    ASSUME MergeInit, NEW i \in DOMAIN federation.schemas PROVE ReadOf(i) = {}
<1> SUFFICES ASSUME NEW k \in DOMAIN federation.schemas[i].definitions PROVE ~(i < 1) /\ ~(k < 1)
  BY DEF MergeInit, ReadOf
<1>1. federation \in Federations
  BY DEF MergeInit
<1>2. i \in 1..Len(federation.schemas) /\ Len(federation.schemas) \in Nat
  BY <1>1, Federation
<1>3. k \in 1..Len(federation.schemas[i].definitions)
      /\ Len(federation.schemas[i].definitions) \in Nat
  BY <1>1, Federation
<1> QED
  BY <1>2, <1>3

LEMMA MergeInvInit == MergeInit => MergeInv
<1> SUFFICES ASSUME MergeInit PROVE MergeInv
  OBVIOUS
<1>1. IndexesOK
  BY DEF MergeInit, IndexesOK
<1>2. \A i \in DOMAIN federation.schemas : ReadOf(i) = {}
  BY NothingIsReadAtFirst
<1>3. DOMAIN type_name_to_schema_id = {} /\ DOMAIN directives = {} /\ scalars = BuiltinScalars
  BY DEF MergeInit
<1> QED
  BY <1>1, <1>2, <1>3 DEF MergeInit, MergeInv, TypesAreRecorded, ScalarsAreRecorded,
     DirectivesAreRecorded, NamesAreApart

(* An outcome is raised, or edges are started or added: nothing is read.      *)
LEMMA WithoutReading ==
    ASSUME MergeInv,
           UNCHANGED <<federation, schema_index, definition_index, type_name_to_schema_id,
                       scalars, directives>>,
           merge_outcome' \notin {"accumulating", "ValueError", "SchemaMergeNameConflictError"} =>
               Accumulated,
           merge_outcome' = "SchemaMergeNameConflictError" /\ ~Accumulated => ~Compatible
    PROVE  MergeInv'
<1>1. IndexesOK'
  BY DEF MergeInv, IndexesOK, Accumulated
<1>2. \A i \in DOMAIN federation.schemas : ReadOf(i)' = ReadOf(i)
  BY DEF ReadOf
<1>3. Tables'
  BY <1>2, NothingRead DEF MergeInv, Tables, tables
<1>4. Compatible' <=> Compatible
  BY DEF Compatible, OwnTypes, OfKind
<1>5. Accumulated' <=> Accumulated
  BY DEF Accumulated
<1> QED
  BY <1>1, <1>3, <1>4, <1>5 DEF MergeInv, Tables

(* The tables keep up, and the merging goes on.                               *)
LEMMA WithReading ==
    ASSUME MergeInv, federation' = federation, merge_outcome = "accumulating",
           UNCHANGED merge_outcome,
           schema_index' \in Nat \ {0}, definition_index' \in Nat \ {0}, Tables'
    PROVE  MergeInv'
  BY DEF MergeInv, IndexesOK, Tables

LEMMA MergeInvNext ==
    ASSUME MergeInv, MergeNext PROVE MergeInv'
<1> USE DEF MergeInv
<1>0. /\ schema_index \in Nat \ {0} /\ definition_index \in Nat \ {0}
      /\ schema_index + 1 \in Nat \ {0} /\ definition_index + 1 \in Nat \ {0}
  BY DEF IndexesOK
<1>1. Tables
  BY DEF Tables
<1>2. CASE RejectSingleSchema
  BY <1>2, WithoutReading DEF RejectSingleSchema, RaiseInMerge
<1>3. CASE TakeQueryType
  <2>1. ReadsCurrent /\ merge_outcome = "accumulating" /\ UNCHANGED merge_outcome
    BY <1>3 DEF TakeQueryType, ReadsCurrent, Reading
  <2>2. ~IsOwnType(schema_index, definition_index)
    BY <1>3 DEF TakeQueryType, IsOwnType, CurrentDefinition, CurrentSchema, DefinitionAt
  <2>3. Tables'
    BY <1>1, <1>3, <2>1, <2>2, KnownRead DEF TakeQueryType, tables
  <2> QED
    BY <1>0, <2>1, <2>3, WithReading DEF ReadsCurrent
<1>4. CASE MergeDirective
  <2> DEFINE d == CurrentDefinition
  <2>1. Reading /\ d.kind = "directive" /\ ~IsOwnType(schema_index, definition_index)
    BY <1>4 DEF MergeDirective, IsOwnType, CurrentDefinition, CurrentSchema, DefinitionAt
  <2>2. CASE /\ d.name \notin DOMAIN directives
             /\ directives' = With(directives, d.name, d.refs)
             /\ definition_index' = definition_index + 1
             /\ UNCHANGED <<federation, schema_index, type_name_to_schema_id, scalars,
                            merge_outcome>>
    <3>1. ReadsCurrent /\ merge_outcome = "accumulating" /\ UNCHANGED merge_outcome
      BY <2>1, <2>2 DEF ReadsCurrent, Reading
    <3>2. Tables'
      BY <1>1, <2>1, <2>2, <3>1, DirectiveRead
    <3> QED
      BY <1>0, <3>1, <3>2, WithReading DEF ReadsCurrent
  <2>3. CASE d.name \in DOMAIN directives /\ directives[d.name] = d.refs /\ Skip
    <3>1. ReadsCurrent /\ merge_outcome = "accumulating" /\ UNCHANGED merge_outcome
      BY <2>1, <2>3 DEF ReadsCurrent, Skip, Reading
    <3>2. UNCHANGED tables
      BY <2>3 DEF Skip, tables
    <3>3. Tables'
      BY <1>1, <2>1, <2>3, <3>1, <3>2, KnownRead
    <3> QED
      BY <1>0, <3>1, <3>3, WithReading DEF ReadsCurrent
  <2>4. CASE /\ d.name \in DOMAIN directives /\ directives[d.name] # d.refs
             /\ RaiseInMerge("SchemaMergeNameConflictError")
    <3>1. ~Compatible
      BY <1>1, <2>1, <2>4, DirectiveConflict
    <3> QED
      BY <2>4, <3>1, WithoutReading DEF RaiseInMerge
  <2> QED
    BY <1>4, <2>2, <2>3, <2>4 DEF MergeDirective
<1>5. CASE MergeScalar
  <2> DEFINE n == CurrentDefinition.name
  <2>1. /\ Reading /\ CurrentDefinition.kind = "scalar"
        /\ ~IsOwnType(schema_index, definition_index)
    BY <1>5 DEF MergeScalar, IsOwnType, CurrentDefinition, CurrentSchema, DefinitionAt
  <2>2. CASE n \in scalars /\ Skip
    <3>1. ReadsCurrent /\ merge_outcome = "accumulating" /\ UNCHANGED merge_outcome
      BY <2>1, <2>2 DEF ReadsCurrent, Skip, Reading
    <3>2. UNCHANGED tables
      BY <2>2 DEF Skip, tables
    <3>3. Tables'
      BY <1>1, <2>1, <2>2, <3>1, <3>2, KnownRead
    <3> QED
      BY <1>0, <3>1, <3>3, WithReading DEF ReadsCurrent
  <2>3. CASE ScalarClashes(n) /\ RaiseInMerge("SchemaMergeNameConflictError")
    <3>1. ~Compatible
      BY <1>1, <2>1, <2>3, ScalarConflict
    <3> QED
      BY <2>3, <3>1, WithoutReading DEF RaiseInMerge
  <2>4. CASE /\ n \notin scalars /\ ~ScalarClashes(n)
             /\ scalars' = scalars \cup {n}
             /\ AppendCurrent
             /\ UNCHANGED type_name_to_schema_id
    <3>1. ReadsCurrent /\ merge_outcome = "accumulating" /\ UNCHANGED merge_outcome
      BY <2>1, <2>4 DEF ReadsCurrent, AppendCurrent, Reading
    <3>2. Tables'
      BY <1>1, <2>1, <2>4, <3>1, ScalarRead DEF ScalarClashes, AppendCurrent
    <3> QED
      BY <1>0, <3>1, <3>2, WithReading DEF ReadsCurrent
  <2> QED
    BY <1>5, <2>2, <2>3, <2>4 DEF MergeScalar
<1>6. CASE MergeType
  <2> DEFINE n == CurrentDefinition.name
  <2>1. Reading /\ IsOwnType(schema_index, definition_index)
    BY <1>6 DEF MergeType, IsOwnType, CurrentDefinition, CurrentSchema, DefinitionAt
  <2>2. CASE TypeClashes(n) /\ RaiseInMerge("SchemaMergeNameConflictError")
    <3>1. ~Compatible
      BY <1>1, <2>1, <2>2, TypeConflict
    <3> QED
      BY <2>2, <3>1, WithoutReading DEF RaiseInMerge
  <2>3. CASE /\ ~TypeClashes(n)
             /\ type_name_to_schema_id' = With(type_name_to_schema_id, n, CurrentSchema.id)
             /\ AppendCurrent
             /\ UNCHANGED scalars
    <3>1. ReadsCurrent /\ merge_outcome = "accumulating" /\ UNCHANGED merge_outcome
      BY <2>1, <2>3 DEF ReadsCurrent, AppendCurrent, Reading
    <3>2. Tables'
      BY <1>1, <2>1, <2>3, <3>1, TypeRead DEF AppendCurrent
    <3> QED
      BY <1>0, <3>1, <3>2, WithReading DEF ReadsCurrent
  <2> QED
    BY <1>6, <2>2, <2>3 DEF MergeType
<1>7. CASE FinishSchema
  <2>1. \A i \in DOMAIN federation.schemas : ReadOf(i)' = ReadOf(i)
    BY <1>7, ReadOn
  <2>2. Tables'
    BY <1>1, <1>7, <2>1, NothingRead DEF FinishSchema, tables
  <2> QED
    BY <1>0, <1>7, <2>2, WithReading DEF FinishSchema
<1>8. CASE StartEdges
  BY <1>8, WithoutReading DEF StartEdges, Accumulated
<1>9. CASE AddCrossSchemaEdge
  <2>1. Accumulated
    BY <1>9 DEF AddCrossSchemaEdge, IndexesOK
  <2>2. UNCHANGED <<federation, schema_index, definition_index, type_name_to_schema_id, scalars,
                    directives>>
    BY <1>9 DEF AddCrossSchemaEdge, RaiseInMerge
  <2> QED
    BY <2>1, <2>2, WithoutReading
<1>10. CASE BuildMergedSchema
  <2>1. Accumulated
    BY <1>10 DEF BuildMergedSchema, IndexesOK
  <2> QED
    BY <1>10, <2>1, WithoutReading DEF BuildMergedSchema, RaiseInMerge
<1> QED
  BY <1>2, <1>3, <1>4, <1>5, <1>6, <1>7, <1>8, <1>9, <1>10 DEF MergeNext

(* Splitting the query leaves what was merged alone.                          *)
LEMMA SplitLeavesMerge == Next => MergeNext \/ UNCHANGED merge_vars
  BY DEF Next, Merge, PoseQuery, RejectRepeatedProperty, RejectCrossSchemaField, RaiseInSplit,
     ProcessCrossSchemaField, RecurseOnIntraSchemaFields, FinishNode, MakeQueryPlan

LEMMA MergeInvStutters ==
    ASSUME MergeInv, UNCHANGED merge_vars PROVE MergeInv'
  BY WithoutReading DEF merge_vars, MergeInv, IndexesOK

LEMMA MergeInvariant == Spec => []MergeInv
<1>1. Init => MergeInv
  BY MergeInvInit DEF Init
<1>2. MergeInv /\ [Next]_vars => MergeInv'
  BY MergeInvNext, MergeInvStutters, SplitLeavesMerge DEF vars
<1> QED
  BY <1>1, <1>2, PTL DEF Spec

-----------------------------------------------------------------------------
(* When all schemas are read, no two of them can be in conflict.              *)
LEMMA AllRead ==
    ASSUME IndexesOK, Accumulated, NEW i \in DOMAIN federation.schemas
    PROVE  ReadOf(i) = DOMAIN federation.schemas[i].definitions
  BY Federation DEF IndexesOK, Accumulated, ReadOf

LEMMA ReadMeansCompatible ==
    ASSUME MergeInv, Accumulated PROVE Compatible
<1> SUFFICES ASSUME NEW i \in DOMAIN federation.schemas, NEW j \in DOMAIN federation.schemas, i # j
             PROVE  /\ OwnTypes(i) \cap OwnTypes(j) = {}
                    /\ OwnTypes(i) \cap {x.name : x \in OfKind(j, "scalar")} = {}
                    /\ \A x \in OfKind(i, "directive") : \A y \in OfKind(j, "directive") :
                          x.name = y.name => x.refs = y.refs
  BY DEF Compatible
<1>1. \A m \in DOMAIN federation.schemas : \A n \in OwnTypes(m) :
         \E k \in ReadOf(m) : IsOwnType(m, k) /\ DefinitionAt(m, k).name = n
  BY AllRead DEF MergeInv, OwnTypes, ToSet, IsOwnType, DefinitionAt
<1>2. \A m \in DOMAIN federation.schemas : \A kind : \A x \in OfKind(m, kind) :
         \E k \in ReadOf(m) : IsOfKind(m, k, kind) /\ DefinitionAt(m, k) = x
  BY AllRead DEF MergeInv, OfKind, ToSet, IsOfKind, DefinitionAt
<1>3. OwnTypes(i) \cap OwnTypes(j) = {}
  BY <1>1 DEF MergeInv, NamesAreApart
<1>4. OwnTypes(i) \cap {x.name : x \in OfKind(j, "scalar")} = {}
  <2>1. OwnTypes(i) \subseteq DOMAIN type_name_to_schema_id
    BY <1>1 DEF MergeInv, TypesAreRecorded
  <2>2. {x.name : x \in OfKind(j, "scalar")} \subseteq scalars
    BY <1>2 DEF MergeInv, ScalarsAreRecorded
  <2> QED
    BY <2>1, <2>2 DEF MergeInv, NamesAreApart
<1>5. ASSUME NEW x \in OfKind(i, "directive"), NEW y \in OfKind(j, "directive"), x.name = y.name
      PROVE  x.refs = y.refs
  BY <1>2, <1>5 DEF MergeInv, DirectivesAreRecorded
<1> QED
  BY <1>3, <1>4, <1>5

(* Conflicts of names are looked for in what was merged before; yet schemas   *)
(* are merged only if no two of them are in conflict, and merge_schemas       *)
(* raises a conflict only if two of them are, whichever comes first.          *)
THEOREM ConflictsAreFoundInAnyOrder == Spec => []ConflictsDoNotDependOnOrder
<1>1. MergeInv => ConflictsDoNotDependOnOrder
  BY ReadMeansCompatible DEF ConflictsDoNotDependOnOrder, MergeInv
<1> QED
  BY <1>1, MergeInvariant, PTL
-----------------------------------------------------------------------------
(* What is known of each schema                                               *)

IsTypeAt(i, k) == k \in DOMAIN federation.schemas[i].definitions /\ ~IsOfKind(i, k, "directive")
QueryTypeIn(i) == federation.schemas[i].query_type

LEMMA SchemaFacts ==
    ASSUME federation \in Federations, NEW i \in DOMAIN federation.schemas
    PROVE  /\ \A k \in DOMAIN federation.schemas[i].definitions : IsNode(DefinitionAt(i, k))
           /\ \A k, l : IsTypeAt(i, k) /\ IsTypeAt(i, l) /\ DefinitionAt(i, k).name = DefinitionAt(i, l).name
                 => k = l
           /\ \A k : IsTypeAt(i, k) =>
                 /\ DefinitionAt(i, k).name \in ValidNames \ BuiltinScalars
                 /\ \A f, g \in DefinitionAt(i, k).fields : f.name = g.name => f = g
                 /\ DefinitionAt(i, k).kind \in {"object", "interface"} => DefinitionAt(i, k).fields # {}
                 /\ DefinitionAt(i, k).kind = "union" => DefinitionAt(i, k).refs # {}
           /\ \A k : IsTypeAt(i, k) => \A r \in References(DefinitionAt(i, k)) :
                 r \in BuiltinScalars \/ \E l : IsTypeAt(i, l) /\ DefinitionAt(i, l).name = r
  <1> DEFINE defs == federation.schemas[i].definitions
             types == Types(defs)
  <1>1. IsMergeable(federation.schemas[i])
    BY FederationsAssumption
  <1>2. /\ DOMAIN types = {k \in DOMAIN defs : IsTypeAt(i, k)}
        /\ \A k \in DOMAIN types : types[k] = DefinitionAt(i, k)
    BY DEF Types, IsTypeAt, IsOfKind, DefinitionAt
  <1>3. IsValidSchema(types, federation.schemas[i].query_type)
    BY <1>1 DEF IsMergeable
  <1>4. \A k : IsTypeAt(i, k) <=> k \in DOMAIN types
    BY <1>2 DEF IsTypeAt
  <1> HIDE DEF types
  <1>5. \A k \in DOMAIN defs : IsNode(DefinitionAt(i, k))
    BY <1>1 DEF IsMergeable, DefinitionAt
  <1>6. \A k, l : IsTypeAt(i, k) /\ IsTypeAt(i, l) /\ DefinitionAt(i, k).name = DefinitionAt(i, l).name
           => k = l
    BY <1>2, <1>3, <1>4 DEF IsValidSchema, Builds
  <1>7. \A k : IsTypeAt(i, k) =>
           /\ DefinitionAt(i, k).name \in ValidNames \ BuiltinScalars
           /\ \A f, g \in DefinitionAt(i, k).fields : f.name = g.name => f = g
           /\ DefinitionAt(i, k).kind \in {"object", "interface"} => DefinitionAt(i, k).fields # {}
           /\ DefinitionAt(i, k).kind = "union" => DefinitionAt(i, k).refs # {}
    BY <1>2, <1>3, <1>4 DEF IsValidSchema, Builds, NamesOf
  <1>8. \A k : IsTypeAt(i, k) => \A r \in References(DefinitionAt(i, k)) :
           r \in BuiltinScalars \/ \E l : IsTypeAt(i, l) /\ DefinitionAt(i, l).name = r
    <2> SUFFICES ASSUME NEW k \in DOMAIN types, NEW r \in References(DefinitionAt(i, k)),
                        r \notin BuiltinScalars
                 PROVE  \E l \in DOMAIN types : DefinitionAt(i, l).name = r
      BY <1>4
    <2>1. References(types[k]) \subseteq NamesOf(types) \cup BuiltinScalars
      BY <1>3 DEF IsValidSchema, Builds
    <2>2. r \in NamesOf(types)
      BY <1>2, <2>1
    <2> QED
      BY <1>2, <2>2 DEF NamesOf
  <1> QED
    BY <1>5, <1>6, <1>7, <1>8

LEMMA RefsInASchema ==
    ASSUME federation \in Federations, NEW i \in DOMAIN federation.schemas, NEW k, NEW l,
           IsTypeAt(i, k), IsTypeAt(i, l), DefinitionAt(i, l).name \in DefinitionAt(i, k).refs
    PROVE  /\ DefinitionAt(i, k).kind = "union" => DefinitionAt(i, l).kind = "object"
           /\ DefinitionAt(i, k).kind # "union" =>
                 /\ DefinitionAt(i, l).kind = "interface"
                 /\ DefinitionAt(i, l).fields \subseteq DefinitionAt(i, k).fields
  <1> DEFINE defs == federation.schemas[i].definitions
             types == Types(defs)
  <1>1. IsMergeable(federation.schemas[i])
    BY FederationsAssumption
  <1>2. /\ k \in DOMAIN types /\ l \in DOMAIN types
        /\ types[k] = DefinitionAt(i, k) /\ types[l] = DefinitionAt(i, l)
    BY DEF Types, IsTypeAt, IsOfKind, DefinitionAt
  <1>3. IsValidSchema(types, federation.schemas[i].query_type)
    BY <1>1 DEF IsMergeable
  <1> HIDE DEF types
  <1>4. types[l] \in DefinitionsNamed(types, types[l].name)
    BY <1>2 DEF DefinitionsNamed
  <1> QED
    BY <1>2, <1>3, <1>4 DEF IsValidSchema

(* The query type of a schema is an object type; its root fields are named    *)
(* like the vertices that they lead to.                                       *)
IsQueryTypeAt(i, k) == IsTypeAt(i, k) /\ DefinitionAt(i, k).name = QueryTypeIn(i)

LEMMA QueryTypeFacts ==
    ASSUME federation \in Federations, NEW i \in DOMAIN federation.schemas
    PROVE  /\ \E k : IsQueryTypeAt(i, k)
           /\ \A k : IsQueryTypeAt(i, k) =>
                 /\ DefinitionAt(i, k).kind = "object"
                 /\ \A f \in DefinitionAt(i, k).fields :
                       /\ f.name = f.type
                       /\ \E l : IsTypeAt(i, l) /\ IsOwnType(i, l) /\ DefinitionAt(i, l).name = f.type
  <1> DEFINE defs == federation.schemas[i].definitions
             types == Types(defs)
             q == federation.schemas[i].query_type
  <1>1. IsMergeable(federation.schemas[i])
    BY FederationsAssumption
  <1>2. /\ DOMAIN types = {k \in DOMAIN defs : IsTypeAt(i, k)}
        /\ \A k \in DOMAIN types : types[k] = DefinitionAt(i, k)
    BY DEF Types, IsTypeAt, IsOfKind, DefinitionAt
  <1>3. IsValidSchema(types, q)
    BY <1>1 DEF IsMergeable
  <1>4. \A d \in DefinitionsNamed(types, q) : \A f \in d.fields :
           \E k \in DOMAIN defs :
              /\ defs[k].name = f.type /\ defs[k].name # q
              /\ defs[k].kind \in {"object", "interface", "union"}
    BY <1>1 DEF IsMergeable
  <1> HIDE DEF types
  <1>5. \A k : IsQueryTypeAt(i, k) =>
            k \in DOMAIN types /\ DefinitionAt(i, k) \in DefinitionsNamed(types, q)
    BY <1>2 DEF IsQueryTypeAt, QueryTypeIn, IsTypeAt, DefinitionsNamed
  <1>6. \E k : IsQueryTypeAt(i, k)
    BY <1>2, <1>3 DEF IsValidSchema, NamesOf, IsQueryTypeAt, QueryTypeIn
  <1>7. ASSUME NEW k, IsQueryTypeAt(i, k)
        PROVE  /\ DefinitionAt(i, k).kind = "object"
               /\ \A f \in DefinitionAt(i, k).fields : f.name = f.type
    BY <1>3, <1>5, <1>7 DEF IsValidSchema
  <1>8. ASSUME NEW k, IsQueryTypeAt(i, k), NEW f \in DefinitionAt(i, k).fields
        PROVE  \E l : IsTypeAt(i, l) /\ IsOwnType(i, l) /\ DefinitionAt(i, l).name = f.type
    BY <1>4, <1>5, <1>8 DEF IsTypeAt, IsOfKind, IsOwnType, DefinitionAt
  <1> QED
    BY <1>6, <1>7, <1>8

-----------------------------------------------------------------------------
(* What the merged schema is made from                                        *)

(* d is the definition k of schema i, with fields added for cross-schema      *)
(* edges.                                                                     *)
IsFrom(d, i, k) ==
    LET source == DefinitionAt(i, k)
    IN  /\ IsOwnType(i, k) \/ IsOfKind(i, k, "scalar")
        /\ d = [kind |-> source.kind, name |-> source.name, fields |-> d.fields, refs |-> source.refs]
        /\ source.fields \subseteq d.fields
        /\ \A f \in d.fields : f \in source.fields \/ f.stitch # NULL

IsASequence == \E S : definitions \in Seq(S)

DefinitionsAreRead ==
    /\ IsASequence
    /\ \A n \in DOMAIN definitions :
          \E i \in DOMAIN federation.schemas : \E k \in ReadOf(i) : IsFrom(definitions[n], i, k)
    /\ \A m, n \in DOMAIN definitions : definitions[m].name = definitions[n].name => m = n
    /\ \A i \in DOMAIN federation.schemas : \A k \in ReadOf(i) :
          IsOwnType(i, k) \/ IsOfKind(i, k, "scalar") => DefinitionAt(i, k).name \in NamesOf(definitions)
    /\ edge_index = 0 => \A n \in DOMAIN definitions : \A f \in definitions[n].fields : f.stitch = NULL

IdsAreRecorded ==
    \A i \in DOMAIN federation.schemas : \A k \in ReadOf(i) :
        IsOwnType(i, k) => type_name_to_schema_id[DefinitionAt(i, k).name] = federation.schemas[i].id

RootFieldsAreRead ==
    /\ \A f \in query_type_fields : \E i \in DOMAIN federation.schemas : \E k :
          IsQueryTypeAt(i, k) /\ f \in DefinitionAt(i, k).fields
    /\ \A i \in DOMAIN federation.schemas : \A k \in ReadOf(i) :
          i = schema_index /\ IsQueryTypeAt(i, k) => new_query_type_fields = DefinitionAt(i, k).fields
    /\ schema_index > 1 => query_type_fields # {}

ReadingInv ==
    /\ DefinitionsAreRead /\ IdsAreRecorded /\ RootFieldsAreRead
    /\ edge_index \in Nat
    /\ merge_outcome = "accumulating" => edge_index = 0

LEMMA Indexes ==
    ASSUME IsASequence
    PROVE  Len(definitions) \in Nat /\ DOMAIN definitions = 1..Len(definitions)
  BY DEF IsASequence

LEMMA OneMore ==
    ASSUME IsASequence, NEW d, definitions' = Append(definitions, d)
    PROVE  /\ IsASequence'
           /\ Len(definitions) \in Nat /\ DOMAIN definitions = 1..Len(definitions)
           /\ DOMAIN definitions' = 1..(Len(definitions) + 1)
           /\ \A n \in DOMAIN definitions : definitions'[n] = definitions[n]
           /\ definitions'[Len(definitions) + 1] = d
  <1>1. PICK S : definitions \in Seq(S)
    BY DEF IsASequence
  <1>2. definitions \in Seq(S \cup {d}) /\ d \in S \cup {d}
    BY <1>1
  <1>3. /\ definitions' \in Seq(S \cup {d})
        /\ Len(definitions') = Len(definitions) + 1
        /\ \A n \in 1..Len(definitions) : definitions'[n] = definitions[n]
        /\ definitions'[Len(definitions) + 1] = d
    BY <1>2, AppendProperties
  <1>4. Len(definitions) \in Nat /\ DOMAIN definitions = 1..Len(definitions)
    BY <1>1
  <1>5. DOMAIN definitions' = 1..Len(definitions')
    BY <1>3
  <1> QED
    BY <1>3, <1>4, <1>5 DEF IsASequence

LEMMA NamesAreRecorded ==
    ASSUME Tables, DefinitionsAreRead, NEW n \in DOMAIN definitions
    PROVE  definitions[n].name \in scalars \cup DOMAIN type_name_to_schema_id
  BY DEF Tables, DefinitionsAreRead, IsFrom, TypesAreRecorded, ScalarsAreRecorded

(* Reading a definition that is not appended.                                 *)
LEMMA ReadWithoutAppend ==
    ASSUME MergeInv, DefinitionsAreRead, IdsAreRecorded, ReadsCurrent,
           UNCHANGED <<definitions, edge_index, type_name_to_schema_id>>,
           ~IsOwnType(schema_index, definition_index),
           CurrentDefinition.kind = "scalar" => CurrentDefinition.name \in scalars
    PROVE  DefinitionsAreRead' /\ IdsAreRecorded'
  <1>1. IndexesOK
    BY DEF MergeInv
  <1>2. \A i \in DOMAIN federation.schemas :
           ReadOf(i)' = IF i = schema_index THEN ReadOf(i) \cup {definition_index} ELSE ReadOf(i)
    BY <1>1, ReadNext DEF ReadsCurrent
  <1>3. /\ schema_index \in DOMAIN federation.schemas
        /\ definition_index \in DOMAIN federation.schemas[schema_index].definitions
        /\ CurrentDefinition = DefinitionAt(schema_index, definition_index)
        /\ federation' = federation
    BY <1>1, CurrentPosition DEF ReadsCurrent
  <1>4. \A i, k : /\ DefinitionAt(i, k)' = DefinitionAt(i, k)
                  /\ IsOwnType(i, k)' <=> IsOwnType(i, k)
                  /\ \A kind : IsOfKind(i, k, kind)' <=> IsOfKind(i, k, kind)
                  /\ \A d : IsFrom(d, i, k)' <=> IsFrom(d, i, k)
    BY <1>3 DEF DefinitionAt, IsOwnType, IsOfKind, IsFrom
  <1>5. IsOfKind(schema_index, definition_index, "scalar") =>
            CurrentDefinition.name \in NamesOf(definitions)
    <2> SUFFICES ASSUME IsOfKind(schema_index, definition_index, "scalar")
                 PROVE  CurrentDefinition.name \in NamesOf(definitions)
      OBVIOUS
    <2>1. CurrentDefinition.name \in scalars
      BY <1>3 DEF IsOfKind
    <2>2. IsTypeAt(schema_index, definition_index)
      BY <1>3 DEF IsTypeAt, IsOfKind
    <2>3. CurrentDefinition.name \notin BuiltinScalars
      BY <1>1, <1>3, <2>2, SchemaFacts DEF IndexesOK
    <2>4. PICK i \in DOMAIN federation.schemas : \E k \in ReadOf(i) :
              IsOfKind(i, k, "scalar") /\ DefinitionAt(i, k).name = CurrentDefinition.name
      BY <2>1, <2>3 DEF MergeInv, ScalarsAreRecorded
    <2> QED
      BY <2>4 DEF DefinitionsAreRead
  <1>6. IdsAreRecorded'
    BY <1>2, <1>3, <1>4 DEF IdsAreRecorded
  <1>7. \A n \in DOMAIN definitions :
           \E i \in DOMAIN federation.schemas : \E k \in ReadOf(i)' : IsFrom(definitions[n], i, k)
    <2> SUFFICES ASSUME NEW n \in DOMAIN definitions
                 PROVE  \E i \in DOMAIN federation.schemas : \E k \in ReadOf(i)' :
                            IsFrom(definitions[n], i, k)
      OBVIOUS
    <2>1. PICK i \in DOMAIN federation.schemas : \E k \in ReadOf(i) : IsFrom(definitions[n], i, k)
      BY DEF DefinitionsAreRead
    <2>2. ReadOf(i) \subseteq ReadOf(i)'
      BY <1>2
    <2> QED
      BY <2>1, <2>2
  <1>8. \A i \in DOMAIN federation.schemas : \A k \in ReadOf(i)' :
           IsOwnType(i, k) \/ IsOfKind(i, k, "scalar") => DefinitionAt(i, k).name \in NamesOf(definitions)
    BY <1>2, <1>3, <1>5 DEF DefinitionsAreRead
  <1>9. DefinitionsAreRead'
    BY <1>3, <1>4, <1>7, <1>8 DEF DefinitionsAreRead, IsASequence, NamesOf
  <1> QED
    BY <1>6, <1>9

(* Reading a type or scalar that is appended.                                 *)
LEMMA ReadWithAppend ==
    ASSUME MergeInv, DefinitionsAreRead, IdsAreRecorded, ReadsCurrent, edge_index' = edge_index,
           definitions' = Append(definitions, CurrentDefinition),
           IsOwnType(schema_index, definition_index)
               \/ IsOfKind(schema_index, definition_index, "scalar"),
           CurrentDefinition.name \notin scalars \cup DOMAIN type_name_to_schema_id,
           type_name_to_schema_id' =
               IF CurrentDefinition.kind = "scalar" THEN type_name_to_schema_id
               ELSE With(type_name_to_schema_id, CurrentDefinition.name, CurrentSchema.id)
    PROVE  DefinitionsAreRead' /\ IdsAreRecorded'
  <1> DEFINE last == Len(definitions) + 1
  <1>1. IndexesOK /\ Tables
    BY DEF MergeInv, Tables
  <1>2. \A i \in DOMAIN federation.schemas :
           ReadOf(i)' = IF i = schema_index THEN ReadOf(i) \cup {definition_index} ELSE ReadOf(i)
    BY <1>1, ReadNext DEF ReadsCurrent
  <1>3. /\ schema_index \in DOMAIN federation.schemas
        /\ definition_index \in DOMAIN federation.schemas[schema_index].definitions
        /\ CurrentDefinition = DefinitionAt(schema_index, definition_index)
        /\ federation' = federation
    BY <1>1, CurrentPosition DEF ReadsCurrent
  <1>4. \A i, k : /\ DefinitionAt(i, k)' = DefinitionAt(i, k)
                  /\ IsOwnType(i, k)' <=> IsOwnType(i, k)
                  /\ \A kind : IsOfKind(i, k, kind)' <=> IsOfKind(i, k, kind)
                  /\ \A d : IsFrom(d, i, k)' <=> IsFrom(d, i, k)
    BY <1>3 DEF DefinitionAt, IsOwnType, IsOfKind, IsFrom
  <1>5. /\ IsASequence'
        /\ Len(definitions) \in Nat /\ DOMAIN definitions = 1..Len(definitions)
        /\ DOMAIN definitions' = 1..last
        /\ \A n \in DOMAIN definitions : definitions'[n] = definitions[n]
        /\ definitions'[last] = CurrentDefinition
    BY OneMore DEF DefinitionsAreRead
  <1>6. DOMAIN definitions' = DOMAIN definitions \cup {last} /\ last \notin DOMAIN definitions
    BY <1>5
  <1> HIDE DEF last
  <1>7. IsNode(CurrentDefinition)
    BY <1>1, <1>3, SchemaFacts DEF IndexesOK
  <1>8. IsFrom(CurrentDefinition, schema_index, definition_index)
    BY <1>3, <1>7 DEF IsFrom, IsNode
  <1>9. \A n \in DOMAIN definitions' :
           \E i \in DOMAIN federation.schemas : \E k \in ReadOf(i)' : IsFrom(definitions'[n], i, k)
    <2> SUFFICES ASSUME NEW n \in DOMAIN definitions'
                 PROVE  \E i \in DOMAIN federation.schemas : \E k \in ReadOf(i)' :
                            IsFrom(definitions'[n], i, k)
      OBVIOUS
    <2>1. CASE n = last
      <3>1. PICK i, k : i \in DOMAIN federation.schemas /\ i = schema_index /\ k = definition_index
        BY <1>3
      <3>2. k \in ReadOf(i)'
        BY <1>2, <3>1
      <3> QED
        BY <1>5, <1>8, <2>1, <3>1, <3>2
    <2>2. CASE n \in DOMAIN definitions
      <3>1. PICK i \in DOMAIN federation.schemas : \E k \in ReadOf(i) : IsFrom(definitions[n], i, k)
        BY <2>2 DEF DefinitionsAreRead
      <3>2. ReadOf(i) \subseteq ReadOf(i)'
        BY <1>2
      <3> QED
        BY <1>5, <2>2, <3>1, <3>2
    <2> QED
      BY <1>6, <2>1, <2>2
  <1>10. \A n \in DOMAIN definitions : definitions[n].name # CurrentDefinition.name
    BY <1>1, NamesAreRecorded
  <1>11. \A m, n \in DOMAIN definitions' : definitions'[m].name = definitions'[n].name => m = n
    BY <1>5, <1>6, <1>10 DEF DefinitionsAreRead
  <1>12. NamesOf(definitions)' = NamesOf(definitions) \cup {CurrentDefinition.name}
    BY <1>5, <1>6 DEF NamesOf
  <1>13. \A i \in DOMAIN federation.schemas : \A k \in ReadOf(i)' :
           IsOwnType(i, k) \/ IsOfKind(i, k, "scalar") => DefinitionAt(i, k).name \in NamesOf(definitions)'
    BY <1>2, <1>3, <1>12 DEF DefinitionsAreRead
  <1>14. edge_index = 0 =>
            \A n \in DOMAIN definitions' : \A f \in definitions'[n].fields : f.stitch = NULL
    BY <1>5, <1>6, <1>7 DEF DefinitionsAreRead, IsNode
  <1>15. DefinitionsAreRead'
    BY <1>3, <1>4, <1>5, <1>9, <1>11, <1>13, <1>14 DEF DefinitionsAreRead
  <1>16. IdsAreRecorded'
    <2> SUFFICES ASSUME NEW i \in DOMAIN federation.schemas, NEW k \in ReadOf(i)', IsOwnType(i, k)
                 PROVE  type_name_to_schema_id'[DefinitionAt(i, k).name] = federation.schemas[i].id
      BY <1>3, <1>4 DEF IdsAreRecorded
    <2>1. CASE k \in ReadOf(i)
      <3>1. /\ DefinitionAt(i, k).name \in DOMAIN type_name_to_schema_id
            /\ type_name_to_schema_id[DefinitionAt(i, k).name] = federation.schemas[i].id
        BY <1>1, <2>1 DEF Tables, TypesAreRecorded, IdsAreRecorded
      <3> QED
        BY <3>1 DEF With
    <2>2. CASE i = schema_index /\ k = definition_index
      <3>1. CurrentDefinition.kind # "scalar"
        BY <1>3, <2>2 DEF IsOwnType
      <3> QED
        BY <1>3, <2>2, <3>1 DEF With, CurrentSchema
    <2> QED
      BY <1>2, <2>1, <2>2
  <1> QED
    BY <1>15, <1>16

(* The root fields, by the way the query types are read.                      *)
LEMMA RootFieldsNotRead ==
    ASSUME MergeInv, RootFieldsAreRead, ReadsCurrent,
           UNCHANGED <<new_query_type_fields, query_type_fields>>,
           ~IsQueryTypeAt(schema_index, definition_index)
    PROVE  RootFieldsAreRead'
  <1>1. IndexesOK
    BY DEF MergeInv
  <1>2. \A i \in DOMAIN federation.schemas :
           ReadOf(i)' = IF i = schema_index THEN ReadOf(i) \cup {definition_index} ELSE ReadOf(i)
    BY <1>1, ReadNext DEF ReadsCurrent
  <1>3. /\ federation' = federation /\ schema_index' = schema_index
        /\ new_query_type_fields' = new_query_type_fields /\ query_type_fields' = query_type_fields
    BY DEF ReadsCurrent
  <1>4. \A i, k : /\ DefinitionAt(i, k)' = DefinitionAt(i, k)
                  /\ IsQueryTypeAt(i, k)' <=> IsQueryTypeAt(i, k)
    BY <1>3 DEF DefinitionAt, IsQueryTypeAt, QueryTypeIn, IsTypeAt, IsOfKind
  <1> QED
    BY <1>2, <1>3, <1>4 DEF RootFieldsAreRead

LEMMA RootFieldsRead ==
    ASSUME MergeInv, RootFieldsAreRead, TakeQueryType
    PROVE  RootFieldsAreRead'
  <1>1. IndexesOK /\ ReadsCurrent
    BY DEF MergeInv, TakeQueryType, ReadsCurrent, Reading
  <1>2. \A i \in DOMAIN federation.schemas :
           ReadOf(i)' = IF i = schema_index THEN ReadOf(i) \cup {definition_index} ELSE ReadOf(i)
    BY <1>1, ReadNext DEF ReadsCurrent
  <1>3. /\ federation' = federation /\ schema_index' = schema_index
        /\ new_query_type_fields' = CurrentDefinition.fields /\ query_type_fields' = query_type_fields
        /\ CurrentDefinition = DefinitionAt(schema_index, definition_index)
        /\ schema_index \in DOMAIN federation.schemas
        /\ definition_index \in DOMAIN federation.schemas[schema_index].definitions
    BY <1>1, CurrentPosition DEF ReadsCurrent, TakeQueryType
  <1>4. \A i, k : /\ DefinitionAt(i, k)' = DefinitionAt(i, k)
                  /\ IsQueryTypeAt(i, k)' <=> IsQueryTypeAt(i, k)
    BY <1>3 DEF DefinitionAt, IsQueryTypeAt, QueryTypeIn, IsTypeAt, IsOfKind
  <1>5. IsQueryTypeAt(schema_index, definition_index)
    BY <1>3 DEF TakeQueryType, IsQueryTypeAt, IsTypeAt, IsOfKind, QueryTypeIn, CurrentSchema
  <1>6. \A k : IsQueryTypeAt(schema_index, k) => k = definition_index
    BY <1>1, <1>3, <1>5, SchemaFacts DEF IsQueryTypeAt, IndexesOK
  <1>7. \A i \in DOMAIN federation.schemas : \A k \in ReadOf(i)' :
           i = schema_index /\ IsQueryTypeAt(i, k) => new_query_type_fields' = DefinitionAt(i, k).fields
    BY <1>3, <1>6
  <1> QED
    BY <1>3, <1>4, <1>7 DEF RootFieldsAreRead

LEMMA RootFieldsFinished ==
    ASSUME MergeInv, RootFieldsAreRead, FinishSchema
    PROVE  RootFieldsAreRead'
  <1>1. IndexesOK
    BY DEF MergeInv
  <1>2. /\ schema_index \in DOMAIN federation.schemas /\ schema_index \in Nat
        /\ schema_index' = schema_index + 1 /\ definition_index' = 1
        /\ definition_index \in Nat
        /\ definition_index > Len(federation.schemas[schema_index].definitions)
        /\ Len(federation.schemas[schema_index].definitions) \in Nat
        /\ DOMAIN federation.schemas[schema_index].definitions
              = 1..Len(federation.schemas[schema_index].definitions)
        /\ query_type_fields' = query_type_fields \cup new_query_type_fields
        /\ new_query_type_fields' = new_query_type_fields /\ federation' = federation
    BY <1>1, Federation DEF FinishSchema, IndexesOK, CurrentSchema
  <1>3. PICK q : IsQueryTypeAt(schema_index, q)
    BY <1>1, <1>2, QueryTypeFacts DEF IndexesOK
  <1>4. q \in ReadOf(schema_index)
    BY <1>2, <1>3 DEF IsQueryTypeAt, IsTypeAt, ReadOf
  <1>5. new_query_type_fields = DefinitionAt(schema_index, q).fields
    BY <1>2, <1>3, <1>4 DEF RootFieldsAreRead
  <1>6. DefinitionAt(schema_index, q).fields # {}
    <2>1. IsTypeAt(schema_index, q) /\ DefinitionAt(schema_index, q).kind = "object"
      BY <1>1, <1>2, <1>3, QueryTypeFacts DEF IsQueryTypeAt, IndexesOK
    <2> QED
      BY <1>1, <1>2, <2>1, SchemaFacts DEF IndexesOK
  <1>7. \A i, k : /\ DefinitionAt(i, k)' = DefinitionAt(i, k)
                  /\ IsQueryTypeAt(i, k)' <=> IsQueryTypeAt(i, k)
    BY <1>2 DEF DefinitionAt, IsQueryTypeAt, QueryTypeIn, IsTypeAt, IsOfKind
  <1>8. ASSUME NEW i \in DOMAIN federation.schemas, NEW k \in ReadOf(i)', i = schema_index'
        PROVE  FALSE
    <2>1. k \in DOMAIN federation.schemas[i].definitions /\ k < 1
      BY <1>2, <1>8, Federation, <1>1 DEF ReadOf, IndexesOK
    <2> QED
      BY <1>1, <2>1, Federation DEF IndexesOK
  <1>9. \A f \in query_type_fields' : \E i \in DOMAIN federation.schemas : \E k :
           IsQueryTypeAt(i, k) /\ f \in DefinitionAt(i, k).fields
    BY <1>2, <1>3, <1>5 DEF RootFieldsAreRead
  <1>10. query_type_fields' # {}
    BY <1>2, <1>5, <1>6
  <1> QED
    BY <1>2, <1>7, <1>8, <1>9, <1>10 DEF RootFieldsAreRead

-----------------------------------------------------------------------------
(* When all schemas are read                                                  *)

LEMMA AllIsRead ==
    ASSUME MergeInv, Accumulated, NEW i \in DOMAIN federation.schemas, NEW k, IsTypeAt(i, k)
    PROVE  k \in ReadOf(i)
  BY AllRead DEF MergeInv, IsTypeAt

(* A type is no one else's type or scalar.                                    *)
LEMMA SameOwner ==
    ASSUME MergeInv, Accumulated,
           NEW i \in DOMAIN federation.schemas, NEW k, IsTypeAt(i, k), IsOwnType(i, k),
           NEW j \in DOMAIN federation.schemas, NEW l, IsTypeAt(j, l),
           IsOwnType(j, l) \/ IsOfKind(j, l, "scalar"),
           DefinitionAt(i, k).name = DefinitionAt(j, l).name
    PROVE  i = j /\ k = l
  <1>1. k \in ReadOf(i) /\ l \in ReadOf(j)
    BY AllIsRead
  <1>2. DefinitionAt(i, k).name \in DOMAIN type_name_to_schema_id
    BY <1>1 DEF MergeInv, TypesAreRecorded
  <1>3. ~IsOfKind(j, l, "scalar")
    BY <1>1, <1>2 DEF MergeInv, ScalarsAreRecorded, NamesAreApart
  <1>4. i = j
    BY <1>1, <1>3 DEF MergeInv, NamesAreApart
  <1>5. k = l
    BY <1>4, SchemaFacts DEF MergeInv, IndexesOK
  <1> QED
    BY <1>4, <1>5

LEMMA ReadAreTypes ==
    ASSUME NEW i \in DOMAIN federation.schemas, NEW k \in ReadOf(i),
           IsOwnType(i, k) \/ IsOfKind(i, k, "scalar")
    PROVE  IsTypeAt(i, k)
  BY DEF ReadOf, IsTypeAt, IsOwnType, IsOfKind

LEMMA Origin ==
    ASSUME DefinitionsAreRead, NEW n \in DOMAIN definitions
    PROVE  \E i, k : /\ i \in DOMAIN federation.schemas /\ IsTypeAt(i, k)
                     /\ IsFrom(definitions[n], i, k)
  <1>1. PICK i \in DOMAIN federation.schemas : \E k \in ReadOf(i) : IsFrom(definitions[n], i, k)
    BY DEF DefinitionsAreRead
  <1>2. PICK k \in ReadOf(i) : IsFrom(definitions[n], i, k)
    BY <1>1
  <1> QED
    BY <1>2, ReadAreTypes DEF IsFrom

(* The definition of a type in the merged schema comes from its own schema.   *)
LEMMA DefinitionOf ==
    ASSUME MergeInv, DefinitionsAreRead, Accumulated,
           NEW i \in DOMAIN federation.schemas, NEW k, IsTypeAt(i, k), IsOwnType(i, k)
    PROVE  /\ \E n \in DOMAIN definitions : definitions[n].name = DefinitionAt(i, k).name
           /\ \A n \in DOMAIN definitions :
                 definitions[n].name = DefinitionAt(i, k).name => IsFrom(definitions[n], i, k)
  <1>1. k \in ReadOf(i)
    BY AllIsRead
  <1>2. \E n \in DOMAIN definitions : definitions[n].name = DefinitionAt(i, k).name
    BY <1>1 DEF DefinitionsAreRead, NamesOf
  <1>3. ASSUME NEW n \in DOMAIN definitions, definitions[n].name = DefinitionAt(i, k).name
        PROVE  IsFrom(definitions[n], i, k)
    <2>1. PICK j, l : /\ j \in DOMAIN federation.schemas /\ IsTypeAt(j, l)
                      /\ IsFrom(definitions[n], j, l)
      BY Origin
    <2>2. /\ IsOwnType(j, l) \/ IsOfKind(j, l, "scalar")
          /\ definitions[n].name = DefinitionAt(j, l).name
      BY <2>1 DEF IsFrom
    <2>3. i = j /\ k = l
      BY <1>3, <2>1, <2>2, SameOwner
    <2> QED
      BY <2>1, <2>3
  <1> QED
    BY <1>2, <1>3

(* What a type of a schema refers to is another type of it, or a scalar.      *)
LEMMA ReferencesStay ==
    ASSUME MergeInv, ~QueryTypeIsReferredTo,
           NEW i \in DOMAIN federation.schemas, NEW k, IsTypeAt(i, k),
           NEW r \in References(DefinitionAt(i, k)), r \notin BuiltinScalars
    PROVE  \E l : /\ IsTypeAt(i, l) /\ DefinitionAt(i, l).name = r
                  /\ IsOwnType(i, l) \/ IsOfKind(i, l, "scalar")
  <1>1. PICK l : IsTypeAt(i, l) /\ DefinitionAt(i, l).name = r
    BY SchemaFacts DEF MergeInv, IndexesOK
  <1>2. r # QueryTypeIn(i)
    <2>1. DefinitionAt(i, k) \in ToSet(federation.schemas[i].definitions)
      BY DEF IsTypeAt, DefinitionAt, ToSet
    <2> QED
      BY <2>1 DEF QueryTypeIsReferredTo, QueryTypeIn, IsTypeAt, IsOfKind
  <1> QED
    BY <1>1, <1>2 DEF IsTypeAt, IsOwnType, IsOfKind, QueryTypeIn

LEMMA RefsStay ==
    ASSUME MergeInv, ~QueryTypeIsReferredTo,
           NEW i \in DOMAIN federation.schemas, NEW k, IsTypeAt(i, k),
           DefinitionAt(i, k).kind \in {"object", "union"},
           NEW r \in DefinitionAt(i, k).refs
    PROVE  \E l : /\ IsTypeAt(i, l) /\ IsOwnType(i, l) /\ DefinitionAt(i, l).name = r
                  /\ DefinitionAt(i, k).kind = "union" => DefinitionAt(i, l).kind = "object"
                  /\ DefinitionAt(i, k).kind = "object" =>
                        /\ DefinitionAt(i, l).kind = "interface"
                        /\ DefinitionAt(i, l).fields \subseteq DefinitionAt(i, k).fields
  <1>1. r \notin BuiltinScalars
    <2>1. IsMergeable(federation.schemas[i])
      BY FederationsAssumption DEF MergeInv, IndexesOK
    <2> QED
      BY <2>1 DEF IsMergeable, IsTypeAt, DefinitionAt
  <1>2. r \in References(DefinitionAt(i, k))
    BY DEF References
  <1>3. PICK l : /\ IsTypeAt(i, l) /\ DefinitionAt(i, l).name = r
                 /\ IsOwnType(i, l) \/ IsOfKind(i, l, "scalar")
    BY <1>1, <1>2, ReferencesStay
  <1>4. /\ DefinitionAt(i, k).kind = "union" => DefinitionAt(i, l).kind = "object"
        /\ DefinitionAt(i, k).kind # "union" =>
              /\ DefinitionAt(i, l).kind = "interface"
              /\ DefinitionAt(i, l).fields \subseteq DefinitionAt(i, k).fields
    BY <1>3, RefsInASchema DEF MergeInv, IndexesOK
  <1> QED
    BY <1>3, <1>4 DEF IsOfKind

(* A type that is a class: it may be the end of an edge.                      *)
IsClassAt(i, k) ==
    IsTypeAt(i, k) /\ IsOwnType(i, k) /\ DefinitionAt(i, k).kind \in {"object", "interface"}

(* Classes below a class are in the same schema, and have what it has.        *)
LEMMA Subclasses ==
    ASSUME MergeInv, DefinitionsAreRead, Accumulated, ~QueryTypeIsReferredTo,
           NEW i \in DOMAIN federation.schemas, NEW k, IsClassAt(i, k),
           NEW m \in SubclassSet(DefinitionAt(i, k).name)
    PROVE  \E l : /\ IsClassAt(i, l) /\ DefinitionAt(i, l).name = m
                  /\ l = k \/ DefinitionAt(i, l).kind = "object"
                  /\ DefinitionAt(i, k).fields \subseteq DefinitionAt(i, l).fields
  <1> DEFINE t == DefinitionAt(i, k).name
             Goal == \E l : /\ IsClassAt(i, l) /\ DefinitionAt(i, l).name = m
                            /\ l = k \/ DefinitionAt(i, l).kind = "object"
                            /\ DefinitionAt(i, k).fields \subseteq DefinitionAt(i, l).fields
  <1>1. CASE m = t
    BY <1>1
  <1>2. ASSUME NEW n \in DOMAIN definitions, definitions[n].kind = "object",
               t \in definitions[n].refs, m = definitions[n].name
        PROVE  Goal
    <2>1. PICK j, l : /\ j \in DOMAIN federation.schemas /\ IsTypeAt(j, l)
                      /\ IsFrom(definitions[n], j, l)
      BY Origin
    <2>2. /\ IsOwnType(j, l) /\ DefinitionAt(j, l).kind = "object"
          /\ DefinitionAt(j, l).name = m /\ t \in DefinitionAt(j, l).refs
      BY <1>2, <2>1 DEF IsFrom, IsOfKind
    <2>3. PICK h : /\ IsTypeAt(j, h) /\ IsOwnType(j, h) /\ DefinitionAt(j, h).name = t
                   /\ DefinitionAt(j, h).fields \subseteq DefinitionAt(j, l).fields
      BY <2>1, <2>2, RefsStay
    <2>4. i = j /\ k = h
      BY <2>1, <2>3, SameOwner DEF IsClassAt
    <2> QED
      BY <2>1, <2>2, <2>3, <2>4 DEF IsClassAt
  <1>3. ASSUME NEW n \in DOMAIN definitions, definitions[n].name = Lookup(federation.hints, t, NULL),
               m \in definitions[n].refs
        PROVE  Goal
    <2>1. definitions[n].name # NULL
      <3>1. PICK j, l : /\ j \in DOMAIN federation.schemas /\ IsTypeAt(j, l)
                        /\ IsFrom(definitions[n], j, l)
        BY Origin
      <3>2. definitions[n].name = DefinitionAt(j, l).name
        BY <3>1 DEF IsFrom
      <3>3. definitions[n].name \in ValidNames
        BY <3>1, <3>2, SchemaFacts DEF MergeInv, IndexesOK
      <3> QED
        BY <3>3, FederationsAssumption
    <2>2. t \in DOMAIN federation.hints /\ definitions[n].name = federation.hints[t]
      BY <1>3, <2>1 DEF Lookup
    <2>3. PICK j \in DOMAIN federation.schemas :
              IsEquivalent(federation.schemas[j], t, federation.hints[t])
      BY <2>2, FederationsAssumption DEF MergeInv, IndexesOK
    <2> DEFINE defs == federation.schemas[j].definitions
    <2>0. PICK h, u \in DOMAIN defs :
              /\ defs[h].name = t /\ defs[h].kind \in {"object", "interface"}
              /\ t # federation.schemas[j].query_type
              /\ defs[u].name = federation.hints[t] /\ defs[u].kind = "union"
              /\ \A d \in ToSet(defs) :
                    d.kind = "object" /\ d.name \in defs[u].refs => defs[h].fields \subseteq d.fields
      BY <2>3 DEF IsEquivalent
    <2>3a. /\ DefinitionAt(j, h) = defs[h] /\ DefinitionAt(j, u) = defs[u]
           /\ QueryTypeIn(j) = federation.schemas[j].query_type
      BY DEF DefinitionAt, QueryTypeIn
    <2> HIDE DEF defs
    <2>4. /\ DefinitionAt(j, h).name = t /\ DefinitionAt(j, h).kind \in {"object", "interface"}
          /\ t # QueryTypeIn(j)
          /\ DefinitionAt(j, u).name = definitions[n].name /\ DefinitionAt(j, u).kind = "union"
          /\ \A d \in ToSet(defs) :
                d.kind = "object" /\ d.name \in DefinitionAt(j, u).refs
                    => DefinitionAt(j, h).fields \subseteq d.fields
      BY <2>0, <2>2, <2>3a
    <2>5. IsTypeAt(j, h) /\ IsOwnType(j, h) /\ IsTypeAt(j, u)
      BY <2>4 DEF defs, IsTypeAt, IsOwnType, IsOfKind, QueryTypeIn
    <2>6. i = j /\ k = h
      BY <2>4, <2>5, SameOwner DEF IsClassAt
    <2>7. IsOwnType(i, u)
      BY <2>4, <2>5, <2>6, QueryTypeFacts DEF IsOwnType, IsQueryTypeAt, QueryTypeIn, MergeInv, IndexesOK
    <2>8. IsFrom(definitions[n], i, u)
      BY <2>4, <2>5, <2>6, <2>7, DefinitionOf
    <2>9. m \in DefinitionAt(i, u).refs
      BY <1>3, <2>8 DEF IsFrom
    <2>10. PICK l : /\ IsTypeAt(i, l) /\ IsOwnType(i, l) /\ DefinitionAt(i, l).name = m
                    /\ DefinitionAt(i, l).kind = "object"
      BY <2>4, <2>5, <2>6, <2>9, RefsStay
    <2>11. DefinitionAt(i, l) \in ToSet(federation.schemas[i].definitions)
      BY <2>10 DEF IsTypeAt, DefinitionAt, ToSet
    <2> QED
      BY <2>4, <2>6, <2>9, <2>10, <2>11 DEF IsClassAt, defs
  <1> QED
    BY <1>1, <1>2, <1>3 DEF SubclassSet, ToSet

-----------------------------------------------------------------------------
(* Adding edges                                                               *)

(* The fields of an edge from source to sink are there in two schemas.        *)
Stitches(source, sink) ==
    \E i, j \in DOMAIN federation.schemas : \E k, l :
        /\ IsClassAt(i, k) /\ DefinitionAt(i, k).name = source.type
        /\ IsClassAt(j, l) /\ DefinitionAt(j, l).name = sink.type
        /\ federation.schemas[i].id # federation.schemas[j].id
        /\ \E x \in DefinitionAt(i, k).fields : \E y \in DefinitionAt(j, l).fields :
              /\ x.name = source.field /\ y.name = sink.field
              /\ ~x.list /\ ~y.list /\ {x.type, y.type} \subseteq scalars
              /\ ScalarsMatch(x.type, y.type)

(* Field f of type t is that of edge e, in one of its directions.             *)
IsOfEdge(t, f, e) ==
    \/ /\ t \in SubclassSet(e.outbound.type)
       /\ f = EdgeTo("out_" \o e.name, e.outbound, e.inbound)
    \/ /\ ~e.out_edge_only /\ t \in SubclassSet(e.inbound.type)
       /\ f = EdgeTo("in_" \o e.name, e.inbound, e.outbound)

(* The merged definitions with fields added to them.                          *)
IsExtended(defs) ==
    /\ DOMAIN defs = DOMAIN definitions
    /\ \A n \in DOMAIN definitions : LET d == definitions[n] IN
          /\ defs[n] = [kind |-> d.kind, name |-> d.name, fields |-> defs[n].fields, refs |-> d.refs]
          /\ d.fields \subseteq defs[n].fields
          /\ \A f \in defs[n].fields : f \in d.fields \/ f.stitch # NULL

FieldsAreApart(defs) ==
    \A n \in DOMAIN defs : \A f, g \in defs[n].fields : f.name = g.name => f = g

ImplementersFollow(defs) ==
    \A m, n \in DOMAIN defs :
        defs[m].kind = "object" /\ defs[n].name \in defs[m].refs => defs[n].fields \subseteq defs[m].fields

StitchesAreEdges(defs) ==
    \A n \in DOMAIN defs : \A f \in defs[n].fields :
        f.stitch # NULL =>
            /\ f.list
            /\ \E x \in DOMAIN federation.edges :
                  /\ IsOfEdge(defs[n].name, f, federation.edges[x])
                  /\ Stitches(federation.edges[x].outbound, federation.edges[x].inbound)

Good(defs) ==
    IsExtended(defs) /\ FieldsAreApart(defs) /\ ImplementersFollow(defs) /\ StitchesAreEdges(defs)

LEMMA StitchesBack ==
    ASSUME NEW source, NEW sink, Stitches(source, sink) PROVE Stitches(sink, source)
  <1>1. \A s, t : ScalarsMatch(s, t) => ScalarsMatch(t, s)
    <2> SUFFICES ASSUME NEW s, NEW t, ScalarsMatch(s, t) PROVE ScalarsMatch(t, s)
      OBVIOUS
    <2>1. {s, t} = {t, s}
      OBVIOUS
    <2> QED
      BY <2>1 DEF ScalarsMatch
  <1> QED
    BY <1>1 DEF Stitches

(* A check of an edge looks at the definitions as they are, which have edges  *)
(* already; what it finds are fields of the schemas themselves.               *)
LEMMA ReferenceIs ==
    ASSUME MergeInv, DefinitionsAreRead, IdsAreRecorded, Accumulated, Good(definitions),
           NEW r, IsValidReference(r)
    PROVE  \E i \in DOMAIN federation.schemas : \E k :
              /\ IsClassAt(i, k) /\ DefinitionAt(i, k).name = r.type
              /\ federation.schemas[i].id = r.schema
              /\ \E x \in FieldsNamed(r.type, r.field) :
                    x.name = r.field /\ (~x.list => x \in DefinitionAt(i, k).fields)
  <1>1. PICK m \in DOMAIN definitions :
            definitions[m].kind \in {"object", "interface"} /\ definitions[m].name = r.type
    BY DEF IsValidReference, ToSet
  <1>2. PICK i, k : /\ i \in DOMAIN federation.schemas /\ IsTypeAt(i, k)
                    /\ IsFrom(definitions[m], i, k)
    BY Origin
  <1>3. IsClassAt(i, k) /\ DefinitionAt(i, k).name = r.type
    BY <1>1, <1>2 DEF IsFrom, IsOfKind, IsClassAt
  <1>4. k \in ReadOf(i)
    BY <1>2, AllIsRead
  <1>5. federation.schemas[i].id = r.schema
    BY <1>2, <1>3, <1>4 DEF IdsAreRecorded, IsValidReference, IsClassAt
  <1>6. PICK n \in DOMAIN definitions : definitions[n].name = r.type
                                        /\ \E x \in definitions[n].fields : x.name = r.field
    BY DEF IsValidReference, FieldsNamed, DefinitionsNamed
  <1>7. n = m
    BY <1>1, <1>6 DEF DefinitionsAreRead
  <1>8. PICK x \in definitions[m].fields : x.name = r.field
    BY <1>6, <1>7
  <1>9. x \in FieldsNamed(r.type, r.field)
    <2>1. definitions[m] \in DefinitionsNamed(definitions, r.type)
      BY <1>1 DEF DefinitionsNamed
    <2> QED
      BY <1>8, <2>1 DEF FieldsNamed
  <1>10. ~x.list => x \in DefinitionAt(i, k).fields
    BY <1>2, <1>8 DEF IsFrom, Good, StitchesAreEdges
  <1> QED
    BY <1>2, <1>3, <1>5, <1>8, <1>9, <1>10

LEMMA ValidEdgeStitches ==
    ASSUME MergeInv, DefinitionsAreRead, IdsAreRecorded, Accumulated, Good(definitions),
           NEW edge, IsValidEdge(edge)
    PROVE  Stitches(edge.outbound, edge.inbound)
  <1> DEFINE out == edge.outbound
             in == edge.inbound
  <1>1. PICK i \in DOMAIN federation.schemas : \E k :
              /\ IsClassAt(i, k) /\ DefinitionAt(i, k).name = out.type
              /\ federation.schemas[i].id = out.schema
              /\ \E x \in FieldsNamed(out.type, out.field) :
                    x.name = out.field /\ (~x.list => x \in DefinitionAt(i, k).fields)
    BY ReferenceIs DEF IsValidEdge
  <1>2. PICK j \in DOMAIN federation.schemas : \E l :
              /\ IsClassAt(j, l) /\ DefinitionAt(j, l).name = in.type
              /\ federation.schemas[j].id = in.schema
              /\ \E y \in FieldsNamed(in.type, in.field) :
                    y.name = in.field /\ (~y.list => y \in DefinitionAt(j, l).fields)
    BY ReferenceIs DEF IsValidEdge
  <1>3. PICK k, x : /\ IsClassAt(i, k) /\ DefinitionAt(i, k).name = out.type
                    /\ federation.schemas[i].id = out.schema
                    /\ x \in FieldsNamed(out.type, out.field)
                    /\ x.name = out.field /\ (~x.list => x \in DefinitionAt(i, k).fields)
    BY <1>1
  <1>4. PICK l, y : /\ IsClassAt(j, l) /\ DefinitionAt(j, l).name = in.type
                    /\ federation.schemas[j].id = in.schema
                    /\ y \in FieldsNamed(in.type, in.field)
                    /\ y.name = in.field /\ (~y.list => y \in DefinitionAt(j, l).fields)
    BY <1>2
  <1>5. ~x.list /\ ~y.list /\ {x.type, y.type} \subseteq scalars /\ ScalarsMatch(x.type, y.type)
    BY <1>3, <1>4 DEF IsValidEdge, StitchesMatchingScalars
  <1> QED
    BY <1>3, <1>4, <1>5 DEF Stitches, IsValidEdge

LEMMA AddedIs ==
    ASSUME NEW defs, IsExtended(defs), NEW name, NEW source, NEW sink
    PROVE  /\ DOMAIN AddedEdgeFields(defs, name, source, sink) = DOMAIN defs
           /\ \A n \in DOMAIN defs :
                 AddedEdgeFields(defs, name, source, sink)[n] =
                    [kind |-> defs[n].kind, name |-> defs[n].name, refs |-> defs[n].refs,
                     fields |-> IF defs[n].name \in SubclassSet(source.type)
                                THEN defs[n].fields \cup {EdgeTo(name, source, sink)}
                                ELSE defs[n].fields]
  <1>1. \A n \in DOMAIN defs : defs[n] = [kind |-> defs[n].kind, name |-> defs[n].name,
                                          fields |-> defs[n].fields, refs |-> defs[n].refs]
    BY DEF IsExtended
  <1> QED
    BY <1>1 DEF AddedEdgeFields

(* Names of classes of schema i: definition k itself or object types.         *)
AreClasses(i, k, names) ==
    \A c \in names : \E l : /\ IsClassAt(i, l) /\ DefinitionAt(i, l).name = c
                            /\ l = k \/ DefinitionAt(i, l).kind = "object"

LEMMA SubclassesAreClasses ==
    ASSUME MergeInv, DefinitionsAreRead, Accumulated, ~QueryTypeIsReferredTo,
           NEW i \in DOMAIN federation.schemas, NEW k, IsClassAt(i, k),
           NEW t, t = DefinitionAt(i, k).name
    PROVE  AreClasses(i, k, SubclassSet(t))
  <1> SUFFICES ASSUME NEW c \in SubclassSet(DefinitionAt(i, k).name)
               PROVE  \E l : /\ IsClassAt(i, l) /\ DefinitionAt(i, l).name = c
                             /\ l = k \/ DefinitionAt(i, l).kind = "object"
    BY DEF AreClasses
  <1>1. \E l : /\ IsClassAt(i, l) /\ DefinitionAt(i, l).name = c
               /\ l = k \/ DefinitionAt(i, l).kind = "object"
               /\ DefinitionAt(i, k).fields \subseteq DefinitionAt(i, l).fields
    BY Subclasses
  <1> QED
    BY <1>1

(* Field `name`, from source to sink, is that of an edge in one direction.    *)
IsDirectionOfAnEdge(name, source, sink) ==
    /\ <<source.field, sink.field>> # NULL
    /\ \E x \in DOMAIN federation.edges :
          /\ \A t \in SubclassSet(source.type) :
                IsOfEdge(t, EdgeTo(name, source, sink), federation.edges[x])
          /\ Stitches(federation.edges[x].outbound, federation.edges[x].inbound)

LEMMA AddOne ==
    ASSUME MergeInv, DefinitionsAreRead, Accumulated, ~QueryTypeIsReferredTo,
           NEW defs, Good(defs), NEW name, NEW source, NEW sink,
           NEW i \in DOMAIN federation.schemas, NEW k, IsClassAt(i, k),
           DefinitionAt(i, k).name = source.type,
           ~Clashes(defs, name, source), IsDirectionOfAnEdge(name, source, sink)
    PROVE  Good(AddedEdgeFields(defs, name, source, sink))
  <1> DEFINE new == AddedEdgeFields(defs, name, source, sink)
             e == EdgeTo(name, source, sink)
             Sub == SubclassSet(source.type)
  <1>0. AreClasses(i, k, SubclassSet(source.type))
    BY SubclassesAreClasses
  <1>1. /\ DOMAIN defs = DOMAIN definitions
        /\ \A n \in DOMAIN definitions :
              /\ defs[n].kind = definitions[n].kind /\ defs[n].name = definitions[n].name
              /\ defs[n].refs = definitions[n].refs
              /\ definitions[n].fields \subseteq defs[n].fields
              /\ \A f \in defs[n].fields : f \in definitions[n].fields \/ f.stitch # NULL
    BY DEF Good, IsExtended
  <1>2. /\ DOMAIN new = DOMAIN defs
        /\ \A n \in DOMAIN defs :
              new[n] = [kind |-> defs[n].kind, name |-> defs[n].name, refs |-> defs[n].refs,
                        fields |-> IF defs[n].name \in Sub THEN defs[n].fields \cup {e}
                                   ELSE defs[n].fields]
    BY AddedIs DEF Good
  <1>3. /\ e.name = name /\ e.stitch # NULL /\ e.list
        /\ \E x \in DOMAIN federation.edges :
              /\ \A t \in Sub : IsOfEdge(t, e, federation.edges[x])
              /\ Stitches(federation.edges[x].outbound, federation.edges[x].inbound)
    BY DEF EdgeTo, IsDirectionOfAnEdge
  <1> HIDE DEF new, e, Sub
  <1>4. \A n \in DOMAIN defs :
           /\ new[n].kind = defs[n].kind /\ new[n].name = defs[n].name
           /\ new[n].refs = defs[n].refs
           /\ defs[n].name \in Sub => new[n].fields = defs[n].fields \cup {e}
           /\ defs[n].name \notin Sub => new[n].fields = defs[n].fields
    BY <1>2
  <1>5. IsExtended(new)
    BY <1>1, <1>2, <1>3 DEF IsExtended
  <1>6. FieldsAreApart(new)
    <2> SUFFICES ASSUME NEW n \in DOMAIN defs, NEW f \in new[n].fields, NEW g \in new[n].fields,
                        f.name = g.name
                 PROVE  f = g
      BY <1>2 DEF FieldsAreApart
    <2>1. \A h \in defs[n].fields : defs[n].name \in Sub => h.name # name
      BY DEF Clashes, FieldNames, Sub
    <2> QED
      BY <1>3, <1>4, <2>1 DEF Good, FieldsAreApart
  <1>7. ImplementersFollow(new)
    <2> SUFFICES ASSUME NEW m \in DOMAIN defs, NEW n \in DOMAIN defs,
                        defs[m].kind = "object", defs[n].name \in defs[m].refs
                 PROVE  new[n].fields \subseteq new[m].fields
      BY <1>2, <1>4 DEF ImplementersFollow
    <2>1. defs[n].fields \subseteq defs[m].fields
      BY DEF Good, ImplementersFollow
    <2>2. ASSUME defs[n].name \in Sub PROVE defs[m].name \in Sub
      <3>0. definitions[n].name \in SubclassSet(source.type)
        BY <1>1, <2>2 DEF Sub
      <3>1. PICK l : /\ IsClassAt(i, l) /\ DefinitionAt(i, l).name = definitions[n].name
                     /\ l = k \/ DefinitionAt(i, l).kind = "object"
        BY <1>0, <3>0 DEF AreClasses
      <3>2. PICK j, h : /\ j \in DOMAIN federation.schemas /\ IsTypeAt(j, h)
                        /\ IsFrom(definitions[m], j, h)
        BY <1>1, Origin
      <3>3. DefinitionAt(j, h).kind = "object" /\ definitions[n].name \in DefinitionAt(j, h).refs
        BY <1>1, <3>2 DEF IsFrom
      <3>4. PICK g : /\ IsTypeAt(j, g) /\ IsOwnType(j, g)
                     /\ DefinitionAt(j, g).name = definitions[n].name
                     /\ DefinitionAt(j, g).kind = "interface"
        BY <3>2, <3>3, RefsStay
      <3>5. j = i /\ g = l
        BY <3>1, <3>2, <3>4, SameOwner DEF IsClassAt
      <3>6. definitions[n].name = source.type
        BY <3>1, <3>4, <3>5
      <3>7. definitions[m] \in ToSet(definitions) /\ definitions[m].kind = "object"
            /\ source.type \in definitions[m].refs
        BY <1>1, <3>6 DEF ToSet
      <3> QED
        BY <1>1, <3>7 DEF SubclassSet, Sub
    <2> QED
      BY <1>4, <2>1, <2>2
  <1>8. StitchesAreEdges(new)
    <2> SUFFICES ASSUME NEW n \in DOMAIN defs, NEW f \in new[n].fields, f.stitch # NULL
                 PROVE  /\ f.list
                        /\ \E z \in DOMAIN federation.edges :
                              /\ IsOfEdge(defs[n].name, f, federation.edges[z])
                              /\ Stitches(federation.edges[z].outbound, federation.edges[z].inbound)
      BY <1>2, <1>4 DEF StitchesAreEdges
    <2>1. CASE f \in defs[n].fields
      BY <2>1 DEF Good, StitchesAreEdges
    <2>2. CASE defs[n].name \in Sub /\ f = e
      BY <1>3, <2>2
    <2> QED
      BY <1>4, <2>1, <2>2
  <1> QED
    BY <1>5, <1>6, <1>7, <1>8 DEF new, Good

(* Before edges are added, the definitions are those of the schemas.          *)
LEMMA GoodAtFirst ==
    ASSUME MergeInv, DefinitionsAreRead, Accumulated, edge_index = 0, ~QueryTypeIsReferredTo
    PROVE  Good(definitions)
  <1>1. \A n \in DOMAIN definitions : \A f \in definitions[n].fields : f.stitch = NULL
    BY DEF DefinitionsAreRead
  <1>2. ASSUME NEW n \in DOMAIN definitions, NEW i \in DOMAIN federation.schemas, NEW k,
               IsFrom(definitions[n], i, k)
        PROVE  /\ definitions[n].fields = DefinitionAt(i, k).fields
               /\ definitions[n].kind = DefinitionAt(i, k).kind
               /\ definitions[n].name = DefinitionAt(i, k).name
               /\ definitions[n].refs = DefinitionAt(i, k).refs
    <2>1. /\ definitions[n] = [kind |-> DefinitionAt(i, k).kind, name |-> DefinitionAt(i, k).name,
                               fields |-> definitions[n].fields, refs |-> DefinitionAt(i, k).refs]
          /\ DefinitionAt(i, k).fields \subseteq definitions[n].fields
          /\ \A f \in definitions[n].fields : f \in DefinitionAt(i, k).fields \/ f.stitch # NULL
      BY <1>2 DEF IsFrom
    <2>2. definitions[n].fields = DefinitionAt(i, k).fields
      BY <1>1, <2>1
    <2> QED
      BY <2>1, <2>2
  <1>3. IsExtended(definitions)
    <2> SUFFICES ASSUME NEW n \in DOMAIN definitions
                 PROVE  definitions[n] = [kind |-> definitions[n].kind, name |-> definitions[n].name,
                                          fields |-> definitions[n].fields, refs |-> definitions[n].refs]
      BY DEF IsExtended
    <2>1. PICK i, k : IsFrom(definitions[n], i, k)
      BY Origin
    <2> QED
      BY <2>1 DEF IsFrom
  <1>4. FieldsAreApart(definitions)
    <2> SUFFICES ASSUME NEW n \in DOMAIN definitions
                 PROVE  \A f, g \in definitions[n].fields : f.name = g.name => f = g
      BY DEF FieldsAreApart
    <2>1. PICK i, k : i \in DOMAIN federation.schemas /\ IsTypeAt(i, k) /\ IsFrom(definitions[n], i, k)
      BY Origin
    <2>2. \A f, g \in DefinitionAt(i, k).fields : f.name = g.name => f = g
      BY <2>1, SchemaFacts DEF MergeInv, IndexesOK
    <2> QED
      BY <1>2, <2>1, <2>2
  <1>5. ImplementersFollow(definitions)
    <2> SUFFICES ASSUME NEW m \in DOMAIN definitions, NEW n \in DOMAIN definitions,
                        definitions[m].kind = "object", definitions[n].name \in definitions[m].refs
                 PROVE  definitions[n].fields \subseteq definitions[m].fields
      BY DEF ImplementersFollow
    <2>1. PICK i, k : i \in DOMAIN federation.schemas /\ IsTypeAt(i, k) /\ IsFrom(definitions[m], i, k)
      BY Origin
    <2>2. DefinitionAt(i, k).kind = "object" /\ definitions[n].name \in DefinitionAt(i, k).refs
          /\ definitions[m].fields = DefinitionAt(i, k).fields
      BY <1>2, <2>1
    <2>3. PICK l : /\ IsTypeAt(i, l) /\ IsOwnType(i, l)
                   /\ DefinitionAt(i, l).name = definitions[n].name
                   /\ DefinitionAt(i, l).fields \subseteq DefinitionAt(i, k).fields
      BY <2>1, <2>2, RefsStay
    <2>4. IsFrom(definitions[n], i, l)
      BY <2>1, <2>3, DefinitionOf
    <2> QED
      BY <1>2, <2>1, <2>2, <2>3, <2>4
  <1>6. StitchesAreEdges(definitions)
    BY <1>1 DEF StitchesAreEdges
  <1> QED
    BY <1>3, <1>4, <1>5, <1>6 DEF Good

(* The first edges are there, in the directions they are to be walked.        *)
Walked(defs, number) ==
    \A x \in 1..number : LET e == federation.edges[x] IN
        /\ Stitches(e.outbound, e.inbound)
        /\ \A n \in DOMAIN defs :
              /\ defs[n].name \in SubclassSet(e.outbound.type) =>
                     "out_" \o e.name \in FieldNames(defs[n])
              /\ defs[n].name \in SubclassSet(e.inbound.type) =>
                     e.out_edge_only \/ "in_" \o e.name \in FieldNames(defs[n])

LEMMA NoNullStitch ==
    ASSUME federation \in Federations, NEW x \in DOMAIN federation.edges
    PROVE  LET e == federation.edges[x]
           IN  /\ <<e.outbound.field, e.inbound.field>> # NULL
               /\ <<e.inbound.field, e.outbound.field>> # NULL
  <1>1. \A k \in DOMAIN federation.edges : LET e == federation.edges[k] IN
            NULL \notin {<<e.outbound.field, e.inbound.field>>, <<e.inbound.field, e.outbound.field>>}
    BY FederationsAssumption
  <1> QED
    BY <1>1

(* Each direction of an edge that is added is one.                            *)
LEMMA Directions ==
    ASSUME federation \in Federations, NEW x \in DOMAIN federation.edges,
           Stitches(federation.edges[x].outbound, federation.edges[x].inbound)
    PROVE  LET e == federation.edges[x]
           IN  /\ IsDirectionOfAnEdge("out_" \o e.name, e.outbound, e.inbound)
               /\ ~e.out_edge_only => IsDirectionOfAnEdge("in_" \o e.name, e.inbound, e.outbound)
  <1> DEFINE e == federation.edges[x]
  <1>1. <<e.outbound.field, e.inbound.field>> # NULL /\ <<e.inbound.field, e.outbound.field>> # NULL
    BY NoNullStitch
  <1>2. \A t \in SubclassSet(e.outbound.type) :
            IsOfEdge(t, EdgeTo("out_" \o e.name, e.outbound, e.inbound), federation.edges[x])
    BY DEF IsOfEdge
  <1>3. ~e.out_edge_only => \A t \in SubclassSet(e.inbound.type) :
            IsOfEdge(t, EdgeTo("in_" \o e.name, e.inbound, e.outbound), federation.edges[x])
    BY DEF IsOfEdge
  <1>4. IsDirectionOfAnEdge("out_" \o e.name, e.outbound, e.inbound)
    BY <1>1, <1>2 DEF IsDirectionOfAnEdge
  <1>5. ~e.out_edge_only => IsDirectionOfAnEdge("in_" \o e.name, e.inbound, e.outbound)
    BY <1>1, <1>3 DEF IsDirectionOfAnEdge
  <1> QED
    BY <1>4, <1>5

LEMMA AddedHasTheField ==
    ASSUME NEW defs, IsExtended(defs), NEW name, NEW source, NEW sink
    PROVE  LET new == AddedEdgeFields(defs, name, source, sink)
           IN  /\ DOMAIN new = DOMAIN defs
               /\ \A n \in DOMAIN defs :
                     /\ new[n].name = defs[n].name
                     /\ FieldNames(defs[n]) \subseteq FieldNames(new[n])
                     /\ defs[n].name \in SubclassSet(source.type) => name \in FieldNames(new[n])
  <1> DEFINE new == AddedEdgeFields(defs, name, source, sink)
             e == EdgeTo(name, source, sink)
  <1>1. /\ DOMAIN new = DOMAIN defs
        /\ \A n \in DOMAIN defs :
              new[n] = [kind |-> defs[n].kind, name |-> defs[n].name, refs |-> defs[n].refs,
                        fields |-> IF defs[n].name \in SubclassSet(source.type)
                                   THEN defs[n].fields \cup {e} ELSE defs[n].fields]
    BY AddedIs
  <1>2. e.name = name
    BY DEF EdgeTo
  <1> HIDE DEF new, e
  <1>3. \A n \in DOMAIN defs :
           /\ new[n].name = defs[n].name
           /\ FieldNames(defs[n]) \subseteq FieldNames(new[n])
           /\ defs[n].name \in SubclassSet(source.type) => name \in FieldNames(new[n])
    BY <1>1, <1>2 DEF FieldNames
  <1> QED
    BY <1>1, <1>3 DEF new

IsAdded(edge, new) ==
    LET out_name == "out_" \o edge.name
        in_name == "in_" \o edge.name
        outward == AddedEdgeFields(definitions, out_name, edge.outbound, edge.inbound)
    IN  /\ IsValidEdge(edge)
        /\ ~Clashes(definitions, out_name, edge.outbound)
        /\ edge.out_edge_only \/ ~Clashes(outward, in_name, edge.inbound)
        /\ new = IF edge.out_edge_only THEN outward
                 ELSE AddedEdgeFields(outward, in_name, edge.inbound, edge.outbound)

LEMMA EdgeAdded ==
    ASSUME MergeInv, DefinitionsAreRead, IdsAreRecorded, Accumulated, ~QueryTypeIsReferredTo,
           Good(definitions), NEW x \in DOMAIN federation.edges, NEW new,
           IsAdded(federation.edges[x], new)
    PROVE  /\ Good(new)
           /\ Stitches(federation.edges[x].outbound, federation.edges[x].inbound)
           /\ \A n \in DOMAIN definitions :
                 /\ FieldNames(definitions[n]) \subseteq FieldNames(new[n])
                 /\ definitions[n].name \in SubclassSet(federation.edges[x].outbound.type) =>
                        "out_" \o federation.edges[x].name \in FieldNames(new[n])
                 /\ definitions[n].name \in SubclassSet(federation.edges[x].inbound.type) =>
                        \/ federation.edges[x].out_edge_only
                        \/ "in_" \o federation.edges[x].name \in FieldNames(new[n])
  <1> DEFINE edge == federation.edges[x]
             out_name == "out_" \o edge.name
             in_name == "in_" \o edge.name
             outward == AddedEdgeFields(definitions, out_name, edge.outbound, edge.inbound)
             back == AddedEdgeFields(outward, in_name, edge.inbound, edge.outbound)
  <1>1. /\ IsValidEdge(edge)
        /\ ~Clashes(definitions, out_name, edge.outbound)
        /\ edge.out_edge_only \/ ~Clashes(outward, in_name, edge.inbound)
        /\ edge.out_edge_only => new = outward
        /\ ~edge.out_edge_only => new = back
    BY DEF IsAdded
  <1>2. Stitches(edge.outbound, edge.inbound)
    BY <1>1, ValidEdgeStitches
  <1>3. /\ IsDirectionOfAnEdge(out_name, edge.outbound, edge.inbound)
        /\ ~edge.out_edge_only => IsDirectionOfAnEdge(in_name, edge.inbound, edge.outbound)
    BY <1>2, Directions DEF MergeInv, IndexesOK
  <1>4. PICK i, j, k, l :
            /\ i \in DOMAIN federation.schemas /\ j \in DOMAIN federation.schemas
            /\ IsClassAt(i, k) /\ DefinitionAt(i, k).name = edge.outbound.type
            /\ IsClassAt(j, l) /\ DefinitionAt(j, l).name = edge.inbound.type
    BY <1>2 DEF Stitches
  <1>5. Good(outward)
    <2> HIDE DEF edge, out_name
    <2> QED
      BY <1>1, <1>3, <1>4, AddOne
  <1>6. ~edge.out_edge_only => Good(back)
    <2> HIDE DEF edge, in_name, outward
    <2> QED
      BY <1>1, <1>3, <1>4, <1>5, AddOne
  <1>7. /\ DOMAIN outward = DOMAIN definitions
        /\ \A n \in DOMAIN definitions :
              /\ outward[n].name = definitions[n].name
              /\ FieldNames(definitions[n]) \subseteq FieldNames(outward[n])
              /\ definitions[n].name \in SubclassSet(edge.outbound.type) =>
                     out_name \in FieldNames(outward[n])
    <2>1. IsExtended(definitions)
      BY DEF Good
    <2> HIDE DEF edge, out_name
    <2> QED
      BY <2>1, AddedHasTheField
  <1>8. \A n \in DOMAIN outward :
              /\ FieldNames(outward[n]) \subseteq FieldNames(back[n])
              /\ outward[n].name \in SubclassSet(edge.inbound.type) =>
                     in_name \in FieldNames(back[n])
    <2>1. IsExtended(outward)
      BY <1>5 DEF Good
    <2> HIDE DEF edge, in_name, outward
    <2> QED
      BY <2>1, AddedHasTheField
  <1>9. Good(new)
    BY <1>1, <1>5, <1>6
  <1> HIDE DEF outward, back, out_name, in_name
  <1>10. \A n \in DOMAIN definitions :
            /\ FieldNames(definitions[n]) \subseteq FieldNames(new[n])
            /\ definitions[n].name \in SubclassSet(edge.outbound.type) =>
                   out_name \in FieldNames(new[n])
            /\ definitions[n].name \in SubclassSet(edge.inbound.type) =>
                   edge.out_edge_only \/ in_name \in FieldNames(new[n])
    <2> SUFFICES ASSUME NEW n \in DOMAIN definitions
                 PROVE  /\ FieldNames(definitions[n]) \subseteq FieldNames(new[n])
                        /\ definitions[n].name \in SubclassSet(edge.outbound.type) =>
                               out_name \in FieldNames(new[n])
                        /\ definitions[n].name \in SubclassSet(edge.inbound.type) =>
                               edge.out_edge_only \/ in_name \in FieldNames(new[n])
      OBVIOUS
    <2> HIDE DEF edge
    <2>1. CASE edge.out_edge_only
      BY <1>1, <1>7, <2>1
    <2>2. CASE ~edge.out_edge_only
      <3>1. FieldNames(outward[n]) \subseteq FieldNames(new[n]) /\ FieldNames(definitions[n]) \subseteq FieldNames(outward[n])
        BY <1>1, <1>7, <1>8, <2>2
      <3> QED
        BY <1>1, <1>7, <1>8, <2>2, <3>1
    <2> QED
      BY <2>1, <2>2
  <1> QED
    BY <1>2, <1>9, <1>10 DEF out_name, in_name

(* The merged definitions may be replaced by others that have more fields.    *)
LEMMA Extending ==
    ASSUME DefinitionsAreRead, NEW new, IsExtended(new), definitions' = new,
           new = [n \in DOMAIN new |-> new[n]],
           UNCHANGED <<federation, schema_index, definition_index>>, edge_index' # 0
    PROVE  /\ DefinitionsAreRead'
           /\ \A t : SubclassSet(t)' = SubclassSet(t)
  <1>1. /\ DOMAIN new = DOMAIN definitions
        /\ \A n \in DOMAIN definitions :
              /\ new[n].kind = definitions[n].kind /\ new[n].name = definitions[n].name
              /\ new[n].refs = definitions[n].refs
    BY DEF IsExtended
  <1>2. IsASequence'
    <2> DEFINE S == {new[n] : n \in DOMAIN new}
    <2>1. Len(definitions) \in Nat /\ DOMAIN definitions = 1..Len(definitions)
      BY Indexes DEF DefinitionsAreRead
    <2>2. new \in [1..Len(definitions) -> S]
      BY <1>1, <2>1
    <2> HIDE DEF S
    <2>3. new \in Seq(S)
      BY <2>1, <2>2, SeqDef
    <2> QED
      BY <2>3 DEF IsASequence
  <1>3. \A i : ReadOf(i)' = ReadOf(i)
    BY DEF ReadOf
  <1>4. \A i, k : /\ DefinitionAt(i, k)' = DefinitionAt(i, k)
                  /\ IsOwnType(i, k)' <=> IsOwnType(i, k)
                  /\ \A kind : IsOfKind(i, k, kind)' <=> IsOfKind(i, k, kind)
                  /\ \A d : IsFrom(d, i, k)' <=> IsFrom(d, i, k)
    BY DEF DefinitionAt, IsOwnType, IsOfKind, IsFrom
  <1>5. ASSUME NEW n \in DOMAIN definitions, NEW i, NEW k, IsFrom(definitions[n], i, k)
        PROVE  IsFrom(new[n], i, k)
    <2>1. LET d == definitions[n]
          IN  /\ new[n] = [kind |-> d.kind, name |-> d.name, fields |-> new[n].fields, refs |-> d.refs]
              /\ d.fields \subseteq new[n].fields
              /\ \A f \in new[n].fields : f \in d.fields \/ f.stitch # NULL
      BY DEF IsExtended
    <2>2. LET source == DefinitionAt(i, k) IN
              /\ IsOwnType(i, k) \/ IsOfKind(i, k, "scalar")
              /\ definitions[n].kind = source.kind /\ definitions[n].name = source.name
              /\ definitions[n].refs = source.refs
              /\ source.fields \subseteq definitions[n].fields
              /\ \A f \in definitions[n].fields : f \in source.fields \/ f.stitch # NULL
      BY <1>5 DEF IsFrom
    <2> QED
      BY <2>1, <2>2 DEF IsFrom
  <1>6. \A n \in DOMAIN new :
            \E i \in DOMAIN federation.schemas : \E k \in ReadOf(i) : IsFrom(new[n], i, k)
    BY <1>1, <1>5 DEF DefinitionsAreRead
  <1>7. NamesOf(definitions)' = NamesOf(definitions)
    BY <1>1 DEF NamesOf
  <1>8. DefinitionsAreRead'
    BY <1>1, <1>2, <1>3, <1>4, <1>6, <1>7 DEF DefinitionsAreRead
  <1>9. ASSUME NEW t PROVE SubclassSet(t)' = SubclassSet(t)
    <2>1. ASSUME NEW c, c \in SubclassSet(t)' PROVE c \in SubclassSet(t)
      BY <1>1, <2>1 DEF SubclassSet, ToSet
    <2>2. ASSUME NEW c, c \in SubclassSet(t) PROVE c \in SubclassSet(t)'
      BY <1>1, <2>2 DEF SubclassSet, ToSet
    <2> QED
      BY <2>1, <2>2
  <1> QED
    BY <1>8, <1>9

(* What the edges are about does not depend on the outcome.                   *)
LEMMA ClassesStay ==
    ASSUME federation' = federation, scalars' = scalars, \A t : SubclassSet(t)' = SubclassSet(t)
    PROVE  /\ \A source, sink : Stitches(source, sink)' <=> Stitches(source, sink)
           /\ \A t, f, e : IsOfEdge(t, f, e)' <=> IsOfEdge(t, f, e)
  <1>1. \A i, k : IsClassAt(i, k)' <=> IsClassAt(i, k)
    BY DEF IsClassAt, IsTypeAt, IsOwnType, IsOfKind, DefinitionAt
  <1>2. \A i, k : DefinitionAt(i, k)' = DefinitionAt(i, k)
    BY DEF DefinitionAt
  <1>3. \A source, sink : Stitches(source, sink)' <=> Stitches(source, sink)
    BY <1>1, <1>2 DEF Stitches
  <1>4. \A name, source, sink : EdgeTo(name, source, sink)' = EdgeTo(name, source, sink)
    BY DEF EdgeTo
  <1>5. \A t, f, e : IsOfEdge(t, f, e)' <=> IsOfEdge(t, f, e)
    BY <1>4 DEF IsOfEdge
  <1> QED
    BY <1>3, <1>5

LEMMA GoodStays ==
    ASSUME NEW new, Good(new), definitions' = new, federation' = federation, scalars' = scalars,
           \A t : SubclassSet(t)' = SubclassSet(t)
    PROVE  Good(definitions)'
  <1>1. /\ \A source, sink : Stitches(source, sink)' <=> Stitches(source, sink)
        /\ \A t, f, e : IsOfEdge(t, f, e)' <=> IsOfEdge(t, f, e)
    BY ClassesStay
  <1>2. IsExtended(definitions)'
    <2>1. \A n \in DOMAIN new :
             new[n] = [kind |-> new[n].kind, name |-> new[n].name, fields |-> new[n].fields,
                       refs |-> new[n].refs]
      BY DEF Good, IsExtended
    <2> QED
      BY <2>1 DEF IsExtended
  <1>3. FieldsAreApart(definitions)'
    BY DEF Good, FieldsAreApart
  <1>4. ImplementersFollow(definitions)'
    BY DEF Good, ImplementersFollow
  <1>5. StitchesAreEdges(definitions)'
    BY <1>1 DEF Good, StitchesAreEdges
  <1> QED
    BY <1>2, <1>3, <1>4, <1>5 DEF Good

LEMMA WalkedStays ==
    ASSUME DefinitionsAreRead, Walked(definitions, edge_index), edge_index \in Nat,
           NEW new, DOMAIN new = DOMAIN definitions,
           \A n \in DOMAIN definitions :
               /\ new[n].name = definitions[n].name
               /\ FieldNames(definitions[n]) \subseteq FieldNames(new[n]),
           definitions' = new, federation' = federation, edge_index' = edge_index + 1,
           scalars' = scalars, \A t : SubclassSet(t)' = SubclassSet(t),
           NEW e, e = federation.edges[edge_index + 1],
           Stitches(e.outbound, e.inbound),
           \A n \in DOMAIN definitions :
               /\ definitions[n].name \in SubclassSet(e.outbound.type) =>
                      "out_" \o e.name \in FieldNames(new[n])
               /\ definitions[n].name \in SubclassSet(e.inbound.type) =>
                      e.out_edge_only \/ "in_" \o e.name \in FieldNames(new[n])
    PROVE  Walked(definitions, edge_index)'
  <1>1. \A source, sink : Stitches(source, sink)' <=> Stitches(source, sink)
    BY ClassesStay
  <1> DEFINE Fits(d, c) == /\ Stitches(d.outbound, d.inbound)
                           /\ \A n \in DOMAIN c :
                                 /\ c[n].name \in SubclassSet(d.outbound.type) =>
                                        "out_" \o d.name \in FieldNames(c[n])
                                 /\ c[n].name \in SubclassSet(d.inbound.type) =>
                                        d.out_edge_only \/ "in_" \o d.name \in FieldNames(c[n])
  <1>2. \A x \in 1..edge_index : Fits(federation.edges[x], definitions)
    BY DEF Walked
  <1>3. ASSUME NEW d, Fits(d, definitions) PROVE Fits(d, new)
    BY <1>3
  <1>4. Fits(e, new)
    OBVIOUS
  <1>5. \A x \in 1..(edge_index + 1) : Fits(federation.edges[x], new)
    <2> HIDE DEF Fits
    <2>1. ASSUME NEW x \in 1..(edge_index + 1) PROVE x \in 1..edge_index \/ x = edge_index + 1
      OBVIOUS
    <2> QED
      BY <1>2, <1>3, <1>4, <2>1
  <1>6. \A c : FieldNames(c)' = FieldNames(c)
    BY DEF FieldNames
  <1> QED
    BY <1>1, <1>5 DEF Walked

-----------------------------------------------------------------------------
(* The steps of the merging                                                   *)

LEMMA MergedAsRead ==
    ASSUME DefinitionsAreRead PROVE IsExtended(definitions)
  <1> SUFFICES ASSUME NEW n \in DOMAIN definitions
               PROVE  definitions[n] = [kind |-> definitions[n].kind, name |-> definitions[n].name,
                                        fields |-> definitions[n].fields, refs |-> definitions[n].refs]
    BY DEF IsExtended
  <1>1. PICK i, k : IsFrom(definitions[n], i, k)
    BY Origin
  <1> QED
    BY <1>1 DEF IsFrom

LEMMA AddedExtends ==
    ASSUME NEW defs, IsExtended(defs), NEW name, NEW source, NEW sink,
           <<source.field, sink.field>> # NULL
    PROVE  IsExtended(AddedEdgeFields(defs, name, source, sink))
  <1> DEFINE new == AddedEdgeFields(defs, name, source, sink)
             e == EdgeTo(name, source, sink)
  <1>1. /\ DOMAIN new = DOMAIN defs
        /\ \A n \in DOMAIN defs :
              new[n] = [kind |-> defs[n].kind, name |-> defs[n].name, refs |-> defs[n].refs,
                        fields |-> IF defs[n].name \in SubclassSet(source.type)
                                   THEN defs[n].fields \cup {e} ELSE defs[n].fields]
    BY AddedIs
  <1>2. e.stitch # NULL
    BY DEF EdgeTo
  <1> HIDE DEF new, e
  <1>3. IsExtended(new)
    <2>1. /\ DOMAIN defs = DOMAIN definitions
          /\ \A n \in DOMAIN definitions :
                /\ defs[n].kind = definitions[n].kind /\ defs[n].name = definitions[n].name
                /\ defs[n].refs = definitions[n].refs
                /\ definitions[n].fields \subseteq defs[n].fields
                /\ \A f \in defs[n].fields : f \in definitions[n].fields \/ f.stitch # NULL
      BY DEF IsExtended
    <2> QED
      BY <1>1, <1>2, <2>1 DEF IsExtended
  <1> QED
    BY <1>3 DEF new

LEMMA EdgesExtend ==
    ASSUME MergeInv, DefinitionsAreRead, NEW x \in DOMAIN federation.edges, NEW new,
           IsAdded(federation.edges[x], new)
    PROVE  IsExtended(new) /\ new = [n \in DOMAIN new |-> new[n]]
  <1> DEFINE edge == federation.edges[x]
             out_name == "out_" \o edge.name
             in_name == "in_" \o edge.name
             outward == AddedEdgeFields(definitions, out_name, edge.outbound, edge.inbound)
             back == AddedEdgeFields(outward, in_name, edge.inbound, edge.outbound)
  <1>1. new = outward \/ new = back
    BY DEF IsAdded
  <1>2. /\ <<edge.outbound.field, edge.inbound.field>> # NULL
        /\ <<edge.inbound.field, edge.outbound.field>> # NULL
    BY NoNullStitch DEF MergeInv, IndexesOK
  <1>3. outward = [n \in DOMAIN outward |-> outward[n]] /\ back = [n \in DOMAIN back |-> back[n]]
    BY DEF AddedEdgeFields
  <1>4. IsExtended(outward)
    <2> HIDE DEF edge, out_name
    <2> QED
      BY <1>2, MergedAsRead, AddedExtends
  <1>5. IsExtended(back)
    <2> HIDE DEF edge, in_name, outward
    <2> QED
      BY <1>2, <1>4, AddedExtends
  <1> QED
    BY <1>1, <1>3, <1>4, <1>5

(* An outcome is raised, or edges are started.                                *)
LEMMA NothingMerged ==
    ASSUME ReadingInv,
           UNCHANGED <<federation, schema_index, definition_index, new_query_type_fields, definitions,
                       query_type_fields, type_name_to_schema_id, edge_index>>,
           merge_outcome' = "accumulating" => merge_outcome = "accumulating"
    PROVE  ReadingInv'
  <1>1. \A i : ReadOf(i)' = ReadOf(i)
    BY DEF ReadOf
  <1>2. \A i, k : /\ DefinitionAt(i, k)' = DefinitionAt(i, k)
                  /\ IsOwnType(i, k)' <=> IsOwnType(i, k)
                  /\ \A kind : IsOfKind(i, k, kind)' <=> IsOfKind(i, k, kind)
                  /\ IsQueryTypeAt(i, k)' <=> IsQueryTypeAt(i, k)
                  /\ \A d : IsFrom(d, i, k)' <=> IsFrom(d, i, k)
    BY DEF DefinitionAt, IsOwnType, IsOfKind, IsFrom, IsQueryTypeAt, IsTypeAt, QueryTypeIn
  <1>3. DefinitionsAreRead'
    BY <1>1, <1>2 DEF ReadingInv, DefinitionsAreRead, IsASequence, NamesOf
  <1>4. IdsAreRecorded'
    BY <1>1, <1>2 DEF ReadingInv, IdsAreRecorded
  <1>5. RootFieldsAreRead'
    BY <1>1, <1>2 DEF ReadingInv, RootFieldsAreRead
  <1> QED
    BY <1>3, <1>4, <1>5 DEF ReadingInv

(* An edge is refused, or it is added and is the next of the federation.      *)
EdgeIsAdded ==
    /\ IsAdded(federation.edges[edge_index + 1], definitions')
    /\ edge_index' = edge_index + 1
    /\ UNCHANGED <<federation, schema_index, definition_index, new_query_type_fields,
                   query_type_fields, type_name_to_schema_id, scalars, directives, merge_outcome>>

LEMMA EdgeSteps ==
    ASSUME AddCrossSchemaEdge
    PROVE  \/ RaiseInMerge("InvalidCrossSchemaEdgeError")
           \/ RaiseInMerge("SchemaMergeNameConflictError")
           \/ EdgeIsAdded
  BY Zenon DEF AddCrossSchemaEdge, IsAdded, EdgeIsAdded

LEMMA EdgeIndexes ==
    ASSUME MergeInv, ReadingInv, edge_index < Len(federation.edges)
    PROVE  edge_index \in Nat /\ edge_index + 1 \in DOMAIN federation.edges
  <1>1. Len(federation.edges) \in Nat /\ DOMAIN federation.edges = 1..Len(federation.edges)
    BY FederationsAssumption DEF MergeInv, IndexesOK
  <1> QED
    BY <1>1 DEF ReadingInv

(* The merged schema is built, before there are edges and with them.          *)
LEMMA BuildingSteps ==
    ASSUME StartEdges \/ BuildMergedSchema
    PROVE  /\ UNCHANGED <<federation, schema_index, definition_index, new_query_type_fields,
                          definitions, query_type_fields, type_name_to_schema_id, scalars,
                          directives, edge_index>>
           /\ merge_outcome' \in {"adding edges", "merged", "TypeError"}
           /\ merge_outcome' # "accumulating"
           /\ merge_outcome' = "merged" =>
                  /\ BuildsWithDirectives
                  /\ edge_index = Len(federation.edges)
  <1>1. CASE StartEdges
    <2>1. UNCHANGED <<federation, schema_index, definition_index, new_query_type_fields,
                      definitions, query_type_fields, type_name_to_schema_id, scalars,
                      directives, edge_index>>
      BY <1>1, Zenon DEF StartEdges
    <2>2. merge_outcome' = IF BuildsWithDirectives THEN "adding edges" ELSE "TypeError"
      BY <1>1, Zenon DEF StartEdges
    <2>3. /\ merge_outcome' \in {"adding edges", "merged", "TypeError"}
          /\ merge_outcome' # "accumulating" /\ merge_outcome' # "merged"
      BY <2>2, Zenon
    <2> QED
      BY <2>1, <2>3, Zenon
  <1>2. CASE BuildMergedSchema
    <2>1. UNCHANGED <<federation, schema_index, definition_index, new_query_type_fields,
                      definitions, query_type_fields, type_name_to_schema_id, scalars,
                      directives, edge_index>>
      BY <1>2, Zenon DEF BuildMergedSchema, RaiseInMerge
    <2>2. edge_index = Len(federation.edges)
      BY <1>2, Zenon DEF BuildMergedSchema
    <2>3. merge_outcome' = IF BuildsWithDirectives THEN "merged" ELSE "TypeError"
      BY <1>2, Zenon DEF BuildMergedSchema, RaiseInMerge
    <2>4. /\ merge_outcome' \in {"adding edges", "merged", "TypeError"}
          /\ merge_outcome' # "accumulating"
          /\ merge_outcome' = "merged" => BuildsWithDirectives
      BY <2>3
    <2> QED
      BY <2>1, <2>2, <2>4, Zenon
  <1> QED
    BY <1>1, <1>2, Zenon

LEMMA ReadingInvNext ==
    ASSUME MergeInv, ReadingInv, MergeNext PROVE ReadingInv'
  <1>0. IndexesOK
    BY DEF MergeInv
  <1>1. ASSUME NEW error, RaiseInMerge(error), error # "accumulating" PROVE ReadingInv'
    BY <1>1, NothingMerged DEF RaiseInMerge
  <1>2. CASE RejectSingleSchema
    BY <1>1, <1>2 DEF RejectSingleSchema
  <1>3. CASE TakeQueryType
    <2>1. ReadsCurrent /\ ~IsOwnType(schema_index, definition_index)
          /\ CurrentDefinition.kind # "scalar"
      BY <1>3 DEF TakeQueryType, ReadsCurrent, IsOwnType, CurrentDefinition, CurrentSchema, DefinitionAt
    <2>2. UNCHANGED <<definitions, edge_index, type_name_to_schema_id, merge_outcome>>
      BY <1>3 DEF TakeQueryType
    <2>3. DefinitionsAreRead' /\ IdsAreRecorded'
      BY <2>1, <2>2, ReadWithoutAppend DEF ReadingInv
    <2>4. RootFieldsAreRead'
      BY <1>3, RootFieldsRead DEF ReadingInv
    <2> QED
      BY <2>2, <2>3, <2>4 DEF ReadingInv
  <1>4. ASSUME Reading, definition_index' = definition_index + 1,
               UNCHANGED <<federation, schema_index, new_query_type_fields, query_type_fields,
                           definitions, edge_index, type_name_to_schema_id, merge_outcome>>,
               CurrentDefinition.kind \in {"directive", "scalar"},
               CurrentDefinition.kind = "scalar" => CurrentDefinition.name \in scalars
        PROVE  ReadingInv'
    <2>1. CurrentDefinition = DefinitionAt(schema_index, definition_index)
      BY <1>0, <1>4, CurrentPosition
    <2>2. ReadsCurrent /\ ~IsOwnType(schema_index, definition_index)
      BY <1>4, <2>1 DEF ReadsCurrent, IsOwnType
    <2>3. DefinitionsAreRead' /\ IdsAreRecorded'
      BY <1>4, <2>2, ReadWithoutAppend DEF ReadingInv
    <2>4. ~IsQueryTypeAt(schema_index, definition_index)
      <3>1. schema_index \in DOMAIN federation.schemas
        BY <1>0, <1>4, CurrentPosition
      <3>2. IsQueryTypeAt(schema_index, definition_index) =>
                DefinitionAt(schema_index, definition_index).kind = "object"
        BY <1>0, <3>1, QueryTypeFacts DEF IndexesOK
      <3> QED
        BY <1>4, <2>1, <3>2
    <2>5. RootFieldsAreRead'
      BY <1>4, <2>2, <2>4, RootFieldsNotRead DEF ReadingInv
    <2> QED
      BY <1>4, <2>3, <2>5 DEF ReadingInv
  <1>5. CASE MergeDirective
    BY <1>1, <1>4, <1>5 DEF MergeDirective, Skip
  <1>6. ASSUME Reading, AppendCurrent,
               IsOwnType(schema_index, definition_index)
                   \/ IsOfKind(schema_index, definition_index, "scalar"),
               CurrentDefinition.name \notin scalars \cup DOMAIN type_name_to_schema_id,
               type_name_to_schema_id' =
                   IF CurrentDefinition.kind = "scalar" THEN type_name_to_schema_id
                   ELSE With(type_name_to_schema_id, CurrentDefinition.name, CurrentSchema.id)
        PROVE  ReadingInv'
    <2>1. /\ ReadsCurrent /\ edge_index' = edge_index /\ merge_outcome' = merge_outcome
          /\ UNCHANGED <<new_query_type_fields, query_type_fields>>
          /\ definitions' = Append(definitions, CurrentDefinition)
      BY <1>6 DEF AppendCurrent, ReadsCurrent
    <2>2. DefinitionsAreRead' /\ IdsAreRecorded'
      BY <1>6, <2>1, ReadWithAppend DEF ReadingInv
    <2>3. ~IsQueryTypeAt(schema_index, definition_index)
      <3>1. schema_index \in DOMAIN federation.schemas
        BY <1>0, <1>6, CurrentPosition
      <3>2. IsQueryTypeAt(schema_index, definition_index) =>
                DefinitionAt(schema_index, definition_index).kind = "object"
        BY <1>0, <3>1, QueryTypeFacts DEF IndexesOK
      <3> QED
        BY <1>6, <3>2 DEF IsQueryTypeAt, QueryTypeIn, IsOwnType, IsOfKind
    <2>4. RootFieldsAreRead'
      BY <2>1, <2>3, RootFieldsNotRead DEF ReadingInv
    <2> QED
      BY <2>1, <2>2, <2>4 DEF ReadingInv
  <1>7. CASE MergeScalar
    <2> DEFINE n == CurrentDefinition.name
    <2>1. Reading /\ CurrentDefinition.kind = "scalar"
          /\ CurrentDefinition = DefinitionAt(schema_index, definition_index)
      BY <1>0, <1>7, CurrentPosition DEF MergeScalar
    <2>2. CASE n \in scalars /\ Skip
      BY <1>4, <2>1, <2>2 DEF Skip
    <2>3. CASE RaiseInMerge("SchemaMergeNameConflictError")
      BY <1>1, <2>3
    <2>4. CASE n \notin scalars /\ ~ScalarClashes(n) /\ AppendCurrent
               /\ UNCHANGED type_name_to_schema_id
      BY <1>6, <2>1, <2>4 DEF ScalarClashes, IsOfKind
    <2> QED
      BY <1>7, <2>2, <2>3, <2>4 DEF MergeScalar
  <1>8. CASE MergeType
    <2> DEFINE n == CurrentDefinition.name
    <2>1. Reading /\ CurrentDefinition.kind # "scalar" /\ IsOwnType(schema_index, definition_index)
      BY <1>8 DEF MergeType, IsOwnType, CurrentDefinition, CurrentSchema, DefinitionAt
    <2>2. CASE RaiseInMerge("SchemaMergeNameConflictError")
      BY <1>1, <2>2
    <2>3. CASE ~TypeClashes(n) /\ AppendCurrent
               /\ type_name_to_schema_id' = With(type_name_to_schema_id, n, CurrentSchema.id)
      BY <1>6, <2>1, <2>3 DEF TypeClashes
    <2> QED
      BY <1>8, <2>2, <2>3 DEF MergeType
  <1>9. CASE FinishSchema
    <2>1. \A i \in DOMAIN federation.schemas : ReadOf(i)' = ReadOf(i)
      BY <1>0, <1>9, ReadOn
    <2>2. UNCHANGED <<federation, definitions, type_name_to_schema_id, edge_index, merge_outcome>>
      BY <1>9 DEF FinishSchema
    <2>3. \A i, k : /\ DefinitionAt(i, k)' = DefinitionAt(i, k)
                    /\ IsOwnType(i, k)' <=> IsOwnType(i, k)
                    /\ \A kind : IsOfKind(i, k, kind)' <=> IsOfKind(i, k, kind)
                    /\ \A d : IsFrom(d, i, k)' <=> IsFrom(d, i, k)
      BY <2>2 DEF DefinitionAt, IsOwnType, IsOfKind, IsFrom
    <2>4. DefinitionsAreRead'
      BY <2>1, <2>2, <2>3 DEF ReadingInv, DefinitionsAreRead, IsASequence, NamesOf
    <2>5. IdsAreRecorded'
      BY <2>1, <2>2, <2>3 DEF ReadingInv, IdsAreRecorded
    <2>6. RootFieldsAreRead'
      BY <1>9, RootFieldsFinished DEF ReadingInv
    <2> QED
      BY <2>2, <2>4, <2>5, <2>6 DEF ReadingInv
  <1>10. CASE StartEdges \/ BuildMergedSchema
    BY <1>10, BuildingSteps, NothingMerged, Zenon
  <1>11. CASE AddCrossSchemaEdge
    <2>1. CASE EdgeIsAdded
      <3>0. edge_index < Len(federation.edges) /\ merge_outcome = "adding edges"
        BY <1>11, Zenon DEF AddCrossSchemaEdge
      <3>1. edge_index \in Nat /\ edge_index + 1 \in DOMAIN federation.edges
        BY <3>0, EdgeIndexes, Zenon
      <3>6. IsAdded(federation.edges[edge_index + 1], definitions')
        BY <2>1, Zenon DEF EdgeIsAdded
      <3>7. edge_index' = edge_index + 1
        BY <2>1, Zenon DEF EdgeIsAdded
      <3>8. UNCHANGED <<federation, schema_index, definition_index, new_query_type_fields,
                        query_type_fields, type_name_to_schema_id, merge_outcome>>
        BY <2>1, Zenon DEF EdgeIsAdded
      <3>2. PICK new, x : new = definitions' /\ x = edge_index + 1
        OBVIOUS
      <3>3. IsExtended(new) /\ new = [n \in DOMAIN new |-> new[n]]
        BY <3>1, <3>2, <3>6, EdgesExtend DEF ReadingInv
      <3>4. DefinitionsAreRead'
        BY <3>1, <3>2, <3>3, <3>7, <3>8, Extending DEF ReadingInv
      <3>5. IdsAreRecorded' /\ RootFieldsAreRead'
        BY <3>8 DEF ReadingInv, IdsAreRecorded, RootFieldsAreRead, ReadOf, IsOwnType, IsQueryTypeAt,
           DefinitionAt, IsTypeAt, IsOfKind, QueryTypeIn
      <3> QED
        <4>1. edge_index' \in Nat
          BY <3>1, <3>7
        <4>2. merge_outcome' # "accumulating"
          <5>1. merge_outcome' = merge_outcome
            BY <3>8, Zenon
          <5> QED
            BY <3>0, <5>1, Zenon
        <4> QED
          BY <3>4, <3>5, <4>1, <4>2, Zenon DEF ReadingInv
    <2> QED
      BY <1>1, <1>11, <2>1, EdgeSteps
  <1> QED
    BY <1>2, <1>3, <1>5, <1>7, <1>8, <1>9, <1>10, <1>11 DEF MergeNext

EdgesStand == Good(definitions) /\ Walked(definitions, edge_index)

EdgeInv ==
    /\ merge_outcome \in {"adding edges", "merged", "TypeError"} =>
          Len(federation.schemas) > 1 /\ (~QueryTypeIsReferredTo => EdgesStand)
    /\ merge_outcome = "merged" => BuildsWithDirectives /\ edge_index = Len(federation.edges)

LEMMA EdgesStandStill ==
    ASSUME EdgesStand, UNCHANGED <<federation, definitions, scalars, edge_index>> PROVE EdgesStand'
  <1>1. \A t : SubclassSet(t)' = SubclassSet(t)
    BY DEF SubclassSet
  <1>2. Good(definitions)'
    <2>1. PICK new : new = definitions
      OBVIOUS
    <2> QED
      BY <1>1, <2>1, GoodStays DEF EdgesStand
  <1>3. Walked(definitions, edge_index)'
    <2>1. \A source, sink : Stitches(source, sink)' <=> Stitches(source, sink)
      BY <1>1, ClassesStay
    <2>2. \A c : FieldNames(c)' = FieldNames(c)
      BY DEF FieldNames
    <2> QED
      BY <1>1, <2>1, <2>2 DEF EdgesStand, Walked
  <1> QED
    BY <1>2, <1>3 DEF EdgesStand

LEMMA EdgesStandOn ==
    ASSUME MergeInv, ReadingInv, Accumulated, ~QueryTypeIsReferredTo, EdgesStand,
           edge_index < Len(federation.edges), EdgeIsAdded
    PROVE  EdgesStand'
  <1>1. edge_index \in Nat /\ edge_index + 1 \in DOMAIN federation.edges
    BY EdgeIndexes, Zenon
  <1>2. IsAdded(federation.edges[edge_index + 1], definitions')
    BY Zenon DEF EdgeIsAdded
  <1>3. edge_index' = edge_index + 1
    BY Zenon DEF EdgeIsAdded
  <1>4. UNCHANGED <<federation, schema_index, definition_index, scalars>>
    BY Zenon DEF EdgeIsAdded
  <1>5. PICK new, x : new = definitions' /\ x = edge_index + 1
    OBVIOUS
  <1>6. IsExtended(new) /\ new = [n \in DOMAIN new |-> new[n]]
    BY <1>1, <1>2, <1>5, EdgesExtend DEF ReadingInv
  <1>7. \A t : SubclassSet(t)' = SubclassSet(t)
    BY <1>1, <1>3, <1>4, <1>5, <1>6, Extending DEF ReadingInv
  <1>8. /\ x \in DOMAIN federation.edges /\ IsAdded(federation.edges[x], new)
        /\ definitions' = new /\ x = edge_index + 1
    BY <1>1, <1>2, <1>5
  <1>9. /\ Good(new)
        /\ Stitches(federation.edges[x].outbound, federation.edges[x].inbound)
        /\ \A n \in DOMAIN definitions :
              /\ FieldNames(definitions[n]) \subseteq FieldNames(new[n])
              /\ definitions[n].name \in SubclassSet(federation.edges[x].outbound.type) =>
                     "out_" \o federation.edges[x].name \in FieldNames(new[n])
              /\ definitions[n].name \in SubclassSet(federation.edges[x].inbound.type) =>
                     \/ federation.edges[x].out_edge_only
                     \/ "in_" \o federation.edges[x].name \in FieldNames(new[n])
    <2>1. DefinitionsAreRead /\ IdsAreRecorded /\ Good(definitions)
      BY DEF ReadingInv, EdgesStand
    <2> QED
      BY <1>8, <2>1, EdgeAdded, Zenon
  <1>10. Good(definitions)'
    BY <1>4, <1>5, <1>7, <1>9, GoodStays
  <1>11. DOMAIN new = DOMAIN definitions /\ \A n \in DOMAIN definitions : new[n].name = definitions[n].name
    BY <1>6 DEF IsExtended
  <1>12. PICK e : e = federation.edges[x]
    OBVIOUS
  <1>13. /\ Stitches(e.outbound, e.inbound)
         /\ \A n \in DOMAIN definitions :
               /\ new[n].name = definitions[n].name
               /\ FieldNames(definitions[n]) \subseteq FieldNames(new[n])
         /\ \A n \in DOMAIN definitions :
               /\ definitions[n].name \in SubclassSet(e.outbound.type) =>
                      "out_" \o e.name \in FieldNames(new[n])
               /\ definitions[n].name \in SubclassSet(e.inbound.type) =>
                      e.out_edge_only \/ "in_" \o e.name \in FieldNames(new[n])
    BY <1>9, <1>11, <1>12, Zenon
  <1>14. e = federation.edges[edge_index + 1] /\ federation' = federation /\ scalars' = scalars
    BY <1>4, <1>8, <1>12
  <1>15. DefinitionsAreRead /\ Walked(definitions, edge_index)
    BY DEF ReadingInv, EdgesStand
  <1>16. Walked(definitions, edge_index)'
    BY <1>1, <1>3, <1>5, <1>7, <1>11, <1>13, <1>14, <1>15, WalkedStays, Zenon
  <1> QED
    BY <1>10, <1>16 DEF EdgesStand

LEMMA EdgeInvNext ==
    ASSUME MergeInv, ReadingInv, EdgeInv, MergeNext PROVE EdgeInv'
  <1>1. ASSUME merge_outcome' \notin {"adding edges", "merged", "TypeError"} PROVE EdgeInv'
    <2>1. merge_outcome' # "merged"
      BY <1>1, Zenon
    <2> QED
      BY <1>1, <2>1, Zenon DEF EdgeInv
  <1>2. CASE RejectSingleSchema \/ TakeQueryType \/ MergeDirective \/ MergeScalar \/ MergeType
             \/ FinishSchema
    <2>1. merge_outcome' \in {merge_outcome, "ValueError", "SchemaMergeNameConflictError"}
          /\ merge_outcome = "accumulating"
      BY <1>2, Zenon DEF RejectSingleSchema, TakeQueryType, MergeDirective, MergeScalar, MergeType,
         FinishSchema, RaiseInMerge, Skip, AppendCurrent, Reading
    <2>2. merge_outcome' \notin {"adding edges", "merged", "TypeError"}
      BY <2>1, Zenon
    <2> QED
      BY <1>1, <2>2, Zenon
  <1>3. QueryTypeIsReferredTo' <=> QueryTypeIsReferredTo
    <2>1. federation' = federation
      BY Zenon DEF MergeNext, RejectSingleSchema, TakeQueryType, MergeDirective, MergeScalar, MergeType,
         FinishSchema, StartEdges, AddCrossSchemaEdge, BuildMergedSchema, RaiseInMerge, Skip, AppendCurrent
    <2> QED
      BY <2>1 DEF QueryTypeIsReferredTo
  <1>4. CASE StartEdges
    <2>1. /\ merge_outcome = "accumulating" /\ Len(federation.schemas) > 1 /\ Accumulated
      BY <1>4, Zenon DEF StartEdges, Accumulated
    <2>2. edge_index = 0 /\ DefinitionsAreRead
      BY <2>1 DEF ReadingInv
    <2>3. ASSUME ~QueryTypeIsReferredTo PROVE EdgesStand
      <3>1. Good(definitions)
        BY <2>1, <2>2, <2>3, GoodAtFirst
      <3>2. Walked(definitions, edge_index)
        BY <2>2 DEF Walked
      <3> QED
        BY <3>1, <3>2 DEF EdgesStand
    <2>4. /\ UNCHANGED <<federation, definitions, scalars, edge_index>>
          /\ merge_outcome' # "merged"
      BY <1>4, Zenon DEF StartEdges
    <2>5. ~QueryTypeIsReferredTo => EdgesStand'
      BY <2>3, <2>4, EdgesStandStill, Zenon
    <2>6. Len(federation.schemas)' > 1
      BY <2>1, <2>4
    <2> QED
      BY <1>3, <2>4, <2>5, <2>6, Zenon DEF EdgeInv
  <1>5. CASE AddCrossSchemaEdge
    <2>1. merge_outcome = "adding edges" /\ edge_index < Len(federation.edges)
      BY <1>5, Zenon DEF AddCrossSchemaEdge
    <2>2. CASE RaiseInMerge("InvalidCrossSchemaEdgeError")
               \/ RaiseInMerge("SchemaMergeNameConflictError")
      BY <1>1, <2>2, Zenon DEF RaiseInMerge
    <2>3. CASE EdgeIsAdded
      <3>1. Len(federation.schemas) > 1 /\ (~QueryTypeIsReferredTo => EdgesStand) /\ Accumulated
        BY <2>1, Zenon DEF EdgeInv, MergeInv, IndexesOK
      <3>2. ~QueryTypeIsReferredTo => EdgesStand'
        BY <2>1, <2>3, <3>1, EdgesStandOn, Zenon
      <3>3. federation' = federation
        BY <2>3, Zenon DEF EdgeIsAdded
      <3>4. merge_outcome' = merge_outcome
        BY <2>3, Zenon DEF EdgeIsAdded
      <3>5. merge_outcome' # "merged"
        BY <2>1, <3>4, Zenon
      <3>6. Len(federation.schemas)' > 1
        BY <3>1, <3>3
      <3> QED
        BY <1>3, <3>2, <3>5, <3>6, Zenon DEF EdgeInv
    <2> QED
      BY <1>5, <2>2, <2>3, EdgeSteps, Zenon
  <1>6. CASE BuildMergedSchema
    <2>1. /\ UNCHANGED <<federation, schema_index, definition_index, new_query_type_fields,
                          definitions, query_type_fields, type_name_to_schema_id, scalars,
                          directives, edge_index>>
          /\ merge_outcome' = "merged" => BuildsWithDirectives /\ edge_index = Len(federation.edges)
      BY <1>6, BuildingSteps, Zenon
    <2>2. merge_outcome = "adding edges"
      BY <1>6, Zenon DEF BuildMergedSchema
    <2>3. Len(federation.schemas) > 1 /\ (~QueryTypeIsReferredTo => EdgesStand)
      BY <2>2, Zenon DEF EdgeInv
    <2>4. ~QueryTypeIsReferredTo => EdgesStand'
      BY <2>1, <2>3, EdgesStandStill, Zenon
    <2>5. BuildsWithDirectives' <=> BuildsWithDirectives
      <3>1. definitions' = definitions /\ query_type_fields' = query_type_fields /\ directives' = directives
        BY <2>1, Zenon
      <3> QED
        BY <3>1 DEF BuildsWithDirectives, MergedTypes, QueryTypeOf
    <2>6. /\ Len(federation.schemas)' > 1
          /\ (edge_index = Len(federation.edges))' <=> (edge_index = Len(federation.edges))
      <3>1. federation' = federation /\ edge_index' = edge_index
        BY <2>1, Zenon
      <3> QED
        BY <2>3, <3>1
    <2> QED
      BY <1>3, <2>1, <2>4, <2>5, <2>6, Zenon DEF EdgeInv
  <1> QED
    BY <1>2, <1>4, <1>5, <1>6 DEF MergeNext

-----------------------------------------------------------------------------
(* The invariant of the merging                                               *)

FederationInv == MergeInv /\ ReadingInv /\ EdgeInv

LEMMA FederationInvInit == MergeInit => FederationInv
  <1> SUFFICES ASSUME MergeInit PROVE FederationInv
    OBVIOUS
  <1>1. MergeInv
    BY MergeInvInit
  <1>2. ReadingInv
    <2>1. \A i \in DOMAIN federation.schemas : ReadOf(i) = {}
      BY <1>1, NothingIsReadAtFirst
    <2>2. definitions = <<>> /\ query_type_fields = {} /\ schema_index = 1 /\ edge_index = 0
      BY DEF MergeInit
    <2>3. DOMAIN definitions = {}
      BY <2>2
    <2>4. IsASequence
      <3>1. definitions \in Seq({})
        BY <2>2
      <3> QED
        BY <3>1 DEF IsASequence
    <2>5. DefinitionsAreRead
      BY <2>1, <2>3, <2>4 DEF DefinitionsAreRead
    <2>6. IdsAreRecorded /\ RootFieldsAreRead
      BY <2>1, <2>2 DEF IdsAreRecorded, RootFieldsAreRead
    <2> QED
      BY <2>2, <2>5, <2>6 DEF ReadingInv
  <1>3. EdgeInv
    <2>1. merge_outcome = "accumulating"
      BY DEF MergeInit
    <2> QED
      BY <2>1, Zenon DEF EdgeInv
  <1> QED
    BY <1>1, <1>2, <1>3 DEF FederationInv

LEMMA FederationInvStutters ==
    ASSUME FederationInv, UNCHANGED merge_vars PROVE FederationInv'
  <1>1. MergeInv'
    BY MergeInvStutters DEF FederationInv
  <1>2. UNCHANGED <<federation, schema_index, definition_index, new_query_type_fields, definitions,
                    query_type_fields, type_name_to_schema_id, scalars, directives, edge_index,
                    merge_outcome>>
    BY DEF merge_vars
  <1>3. ReadingInv'
    BY <1>2, NothingMerged DEF FederationInv
  <1>4. EdgeInv'
    <2>1. BuildsWithDirectives' <=> BuildsWithDirectives
      BY <1>2 DEF BuildsWithDirectives, MergedTypes, QueryTypeOf
    <2>2. QueryTypeIsReferredTo' <=> QueryTypeIsReferredTo
      BY <1>2 DEF QueryTypeIsReferredTo
    <2>3. EdgesStand => EdgesStand'
      BY <1>2, EdgesStandStill
    <2>4. merge_outcome' = merge_outcome
      BY <1>2
    <2>5. federation' = federation /\ edge_index' = edge_index
      BY <1>2
    <2> QED
      BY <2>1, <2>2, <2>3, <2>4, <2>5, Zenon DEF FederationInv, EdgeInv
  <1> QED
    BY <1>1, <1>3, <1>4 DEF FederationInv

LEMMA FederationInvariant == Spec => []FederationInv
  <1>1. Init => FederationInv
    BY FederationInvInit DEF Init
  <1>2. FederationInv /\ [Next]_vars => FederationInv'
    <2> SUFFICES ASSUME FederationInv, [Next]_vars PROVE FederationInv'
      OBVIOUS
    <2>1. CASE MergeNext
      BY <2>1, MergeInvNext, ReadingInvNext, EdgeInvNext DEF FederationInv
    <2>2. CASE UNCHANGED merge_vars
      BY <2>2, FederationInvStutters
    <2> QED
      BY <2>1, <2>2, SplitLeavesMerge DEF vars
  <1> QED
    BY <1>1, <1>2, PTL DEF Spec

-----------------------------------------------------------------------------
(* What is merged                                                             *)

(* The type of an edge's field is that of the classes on its other side.      *)
LEMMA TypeOfAnEdge ==
    ASSUME MergeInv, Accumulated, NEW j \in DOMAIN federation.schemas, NEW l, IsClassAt(j, l),
           NEW t, t = DefinitionAt(j, l).name
    PROVE  \E g : /\ IsTypeAt(j, g) /\ IsOwnType(j, g)
                  /\ DefinitionAt(j, g).name = Lookup(federation.hints, t, t)
                  /\ IF t \in DOMAIN federation.hints THEN DefinitionAt(j, g).kind = "union"
                     ELSE g = l
  <1>1. CASE t \notin DOMAIN federation.hints
    BY <1>1 DEF Lookup, IsClassAt
  <1>2. CASE t \in DOMAIN federation.hints
    <2>1. PICK i \in DOMAIN federation.schemas :
              IsEquivalent(federation.schemas[i], t, federation.hints[t])
      BY <1>2, FederationsAssumption DEF MergeInv, IndexesOK
    <2> DEFINE defs == federation.schemas[i].definitions
    <2>2. PICK h, u \in DOMAIN defs :
              /\ defs[h].name = t /\ defs[h].kind \in {"object", "interface"}
              /\ t # federation.schemas[i].query_type
              /\ defs[u].name = federation.hints[t] /\ defs[u].kind = "union"
      BY <2>1 DEF IsEquivalent
    <2>3. /\ IsTypeAt(i, h) /\ IsOwnType(i, h) /\ DefinitionAt(i, h).name = t
          /\ IsTypeAt(i, u) /\ DefinitionAt(i, u).name = federation.hints[t]
          /\ DefinitionAt(i, u).kind = "union"
      BY <2>2 DEF IsTypeAt, IsOwnType, IsOfKind, DefinitionAt
    <2>4. IsOwnType(i, u)
      BY <2>3, QueryTypeFacts DEF IsOwnType, IsQueryTypeAt, QueryTypeIn, MergeInv, IndexesOK
    <2>5. i = j
      BY <2>3, SameOwner DEF IsClassAt
    <2> QED
      BY <1>2, <2>3, <2>4, <2>5 DEF Lookup
  <1> QED
    BY <1>1, <1>2

(* Root fields lead to types that are merged.                                 *)
LEMMA RootFieldsLead ==
    ASSUME MergeInv, ReadingInv, NEW f \in query_type_fields
    PROVE  \E i \in DOMAIN federation.schemas : \E k, l :
              /\ IsQueryTypeAt(i, k) /\ f \in DefinitionAt(i, k).fields /\ f.name = f.type
              /\ IsTypeAt(i, l) /\ IsOwnType(i, l) /\ DefinitionAt(i, l).name = f.type
  <1>1. PICK i \in DOMAIN federation.schemas : \E k :
            IsQueryTypeAt(i, k) /\ f \in DefinitionAt(i, k).fields
    BY DEF ReadingInv, RootFieldsAreRead
  <1>2. PICK k : IsQueryTypeAt(i, k) /\ f \in DefinitionAt(i, k).fields
    BY <1>1
  <1>3. f.name = f.type /\ \E l : IsTypeAt(i, l) /\ IsOwnType(i, l) /\ DefinitionAt(i, l).name = f.type
    BY <1>2, QueryTypeFacts DEF MergeInv, IndexesOK
  <1> QED
    BY <1>2, <1>3

LEMMA RootFieldsAreApart ==
    ASSUME MergeInv, ReadingInv, Accumulated,
           NEW f \in query_type_fields, NEW g \in query_type_fields, f.name = g.name
    PROVE  f = g
  <1>1. PICK i \in DOMAIN federation.schemas : \E k, l :
            /\ IsQueryTypeAt(i, k) /\ f \in DefinitionAt(i, k).fields /\ f.name = f.type
            /\ IsTypeAt(i, l) /\ IsOwnType(i, l) /\ DefinitionAt(i, l).name = f.type
    BY RootFieldsLead
  <1>2. PICK j \in DOMAIN federation.schemas : \E k, l :
            /\ IsQueryTypeAt(j, k) /\ g \in DefinitionAt(j, k).fields /\ g.name = g.type
            /\ IsTypeAt(j, l) /\ IsOwnType(j, l) /\ DefinitionAt(j, l).name = g.type
    BY RootFieldsLead
  <1>3. i = j
    BY <1>1, <1>2, SameOwner
  <1>4. PICK k : IsQueryTypeAt(i, k) /\ f \in DefinitionAt(i, k).fields
    BY <1>1
  <1>5. PICK h : IsQueryTypeAt(i, h) /\ g \in DefinitionAt(i, h).fields
    BY <1>2, <1>3
  <1>6. k = h
    BY <1>4, <1>5, SchemaFacts DEF IsQueryTypeAt, MergeInv, IndexesOK
  <1> QED
    BY <1>4, <1>5, <1>6, SchemaFacts DEF IsQueryTypeAt, MergeInv, IndexesOK

(* The definitions of the merged schema, its query type with the index 0.     *)
LEMMA MergedTypesAre ==
    ASSUME IsASequence
    PROVE  /\ DOMAIN MergedTypes = {0} \cup DOMAIN definitions /\ 0 \notin DOMAIN definitions
           /\ MergedTypes[0] = QueryTypeOf(query_type_fields)
           /\ \A n \in DOMAIN definitions : MergedTypes[n] = definitions[n]
           /\ NamesOf(MergedTypes) = {MergedQueryType} \cup NamesOf(definitions)
  <1>1. Len(definitions) \in Nat /\ DOMAIN definitions = 1..Len(definitions)
    BY Indexes
  <1>2. DOMAIN MergedTypes = {0} \cup DOMAIN definitions /\ 0 \notin DOMAIN definitions
    BY <1>1 DEF MergedTypes
  <1>3. MergedTypes[0] = QueryTypeOf(query_type_fields)
    BY <1>1 DEF MergedTypes
  <1>4. \A n \in DOMAIN definitions : MergedTypes[n] = definitions[n]
    BY <1>1 DEF MergedTypes
  <1>5. QueryTypeOf(query_type_fields).name = MergedQueryType
    BY DEF QueryTypeOf
  <1> QED
    BY <1>2, <1>3, <1>4, <1>5 DEF NamesOf

LEMMA EdgesLead ==
    ASSUME MergeInv, DefinitionsAreRead, Accumulated, EdgesStand,
           NEW n \in DOMAIN definitions, NEW f \in definitions[n].fields, f.stitch # NULL
    PROVE  f.type \in NamesOf(definitions)
  <1>1. PICK x \in DOMAIN federation.edges :
            /\ IsOfEdge(definitions[n].name, f, federation.edges[x])
            /\ Stitches(federation.edges[x].outbound, federation.edges[x].inbound)
    BY DEF EdgesStand, Good, StitchesAreEdges
  <1>2. PICK source, sink : Stitches(source, sink) /\ f.type = Lookup(federation.hints, sink.type, sink.type)
    BY <1>1, StitchesBack DEF IsOfEdge, EdgeTo
  <1>3. PICK j, l : /\ j \in DOMAIN federation.schemas
                    /\ IsClassAt(j, l) /\ DefinitionAt(j, l).name = sink.type
    BY <1>2 DEF Stitches
  <1>4. PICK g : /\ IsTypeAt(j, g) /\ IsOwnType(j, g)
                 /\ DefinitionAt(j, g).name = Lookup(federation.hints, sink.type, sink.type)
    BY <1>3, TypeOfAnEdge
  <1> QED
    BY <1>2, <1>3, <1>4, DefinitionOf DEF NamesOf

(* The merged AST builds, but for what is not foreseen.                       *)
LEMMA BuildsAtLast ==
    ASSUME MergeInv, ReadingInv, Accumulated, EdgesStand, ~QueryTypeIsReferredTo, ~UnforeseenInMerge
    PROVE  BuildsWithDirectives
  <1>0. DefinitionsAreRead /\ IsASequence
    BY DEF ReadingInv, DefinitionsAreRead
  <1>1. /\ DOMAIN MergedTypes = {0} \cup DOMAIN definitions /\ 0 \notin DOMAIN definitions
        /\ MergedTypes[0] = QueryTypeOf(query_type_fields)
        /\ \A n \in DOMAIN definitions : MergedTypes[n] = definitions[n]
        /\ NamesOf(MergedTypes) = {MergedQueryType} \cup NamesOf(definitions)
    BY <1>0, MergedTypesAre
  <1>2. /\ QueryTypeOf(query_type_fields).name = MergedQueryType
        /\ QueryTypeOf(query_type_fields).fields = query_type_fields
        /\ QueryTypeOf(query_type_fields).refs = {}
    BY DEF QueryTypeOf
  <1>3. \A n \in DOMAIN definitions : definitions[n].name # MergedQueryType
    <2> SUFFICES ASSUME NEW n \in DOMAIN definitions, definitions[n].name = MergedQueryType
                 PROVE  FALSE
      OBVIOUS
    <2>1. PICK i, k : i \in DOMAIN federation.schemas /\ IsTypeAt(i, k) /\ IsFrom(definitions[n], i, k)
      BY <1>0, Origin
    <2>2. /\ DefinitionAt(i, k).name = MergedQueryType
          /\ IsOwnType(i, k) \/ IsOfKind(i, k, "scalar")
      BY <2>1 DEF IsFrom
    <2>3. MergedQueryType \in OwnTypes(i) \cup {y.name : y \in OfKind(i, "scalar")}
      BY <2>1, <2>2, DefinedTypes DEF IsTypeAt
    <2> QED
      BY <2>1, <2>3 DEF UnforeseenInMerge
  <1>4. \A m, n \in DOMAIN MergedTypes : MergedTypes[m].name = MergedTypes[n].name => m = n
    BY <1>0, <1>1, <1>2, <1>3 DEF DefinitionsAreRead
  <1>5. ASSUME NEW n \in DOMAIN definitions, NEW r \in References(definitions[n])
        PROVE  r \in NamesOf(definitions) \cup BuiltinScalars
    <2>1. PICK i, k : i \in DOMAIN federation.schemas /\ IsTypeAt(i, k) /\ IsFrom(definitions[n], i, k)
      BY <1>0, Origin
    <2>2. CASE r \in References(DefinitionAt(i, k)) /\ r \notin BuiltinScalars
      <3>1. PICK l : /\ IsTypeAt(i, l) /\ DefinitionAt(i, l).name = r
                     /\ IsOwnType(i, l) \/ IsOfKind(i, l, "scalar")
        BY <2>1, <2>2, ReferencesStay
      <3>2. l \in ReadOf(i)
        BY <2>1, <3>1, AllIsRead
      <3> QED
        BY <1>0, <2>1, <3>1, <3>2 DEF DefinitionsAreRead
    <2>3. CASE \E f \in definitions[n].fields : r = f.type /\ f.stitch # NULL
      BY <1>0, <2>3, EdgesLead
    <2>4. r \in References(DefinitionAt(i, k)) \/ \E f \in definitions[n].fields : r = f.type /\ f.stitch # NULL
      BY <2>1 DEF References, IsFrom
    <2> QED
      BY <2>2, <2>3, <2>4
  <1>6. \A r \in References(QueryTypeOf(query_type_fields)) : r \in NamesOf(definitions)
    <2> SUFFICES ASSUME NEW f \in query_type_fields PROVE f.type \in NamesOf(definitions)
      BY <1>2 DEF References
    <2>1. PICK i \in DOMAIN federation.schemas : \E k, l :
              /\ IsQueryTypeAt(i, k) /\ f \in DefinitionAt(i, k).fields /\ f.name = f.type
              /\ IsTypeAt(i, l) /\ IsOwnType(i, l) /\ DefinitionAt(i, l).name = f.type
      BY RootFieldsLead
    <2> QED
      BY <1>0, <2>1, DefinitionOf DEF NamesOf
  <1>7. \A n \in DOMAIN MergedTypes :
           References(MergedTypes[n]) \subseteq NamesOf(MergedTypes) \cup BuiltinScalars
    BY <1>1, <1>5, <1>6
  <1>8. \A n \in DOMAIN MergedTypes : \A f, g \in MergedTypes[n].fields : f.name = g.name => f = g
    <2>1. \A f, g \in query_type_fields : f.name = g.name => f = g
      BY RootFieldsAreApart
    <2>2. \A n \in DOMAIN definitions : \A f, g \in definitions[n].fields : f.name = g.name => f = g
      BY DEF EdgesStand, Good, FieldsAreApart
    <2> QED
      BY <1>1, <1>2, <2>1, <2>2
  <1>9. "stitch" \in DOMAIN directives
    <2>1. PICK i \in DOMAIN federation.schemas : "stitch" \in {y.name : y \in OfKind(i, "directive")}
      BY DEF UnforeseenInMerge
    <2>2. PICK k \in DOMAIN federation.schemas[i].definitions :
              IsOfKind(i, k, "directive") /\ DefinitionAt(i, k).name = "stitch"
      BY <2>1 DEF OfKind, ToSet, IsOfKind, DefinitionAt
    <2>3. k \in ReadOf(i)
      BY <2>2, AllRead DEF MergeInv
    <2> QED
      BY <2>2, <2>3 DEF MergeInv, DirectivesAreRecorded
  <1> QED
    BY <1>4, <1>7, <1>8, <1>9 DEF BuildsWithDirectives, Builds

(* What builds is a valid schema.                                             *)
LEMMA ValidAtLast ==
    ASSUME MergeInv, ReadingInv, Accumulated, EdgesStand, ~QueryTypeIsReferredTo,
           BuildsWithDirectives, Len(federation.schemas) > 1
    PROVE  IsValidSchema(MergedTypes, MergedQueryType)
  <1>0. DefinitionsAreRead /\ IsASequence
    BY DEF ReadingInv, DefinitionsAreRead
  <1>1. /\ DOMAIN MergedTypes = {0} \cup DOMAIN definitions /\ 0 \notin DOMAIN definitions
        /\ MergedTypes[0] = QueryTypeOf(query_type_fields)
        /\ \A n \in DOMAIN definitions : MergedTypes[n] = definitions[n]
        /\ NamesOf(MergedTypes) = {MergedQueryType} \cup NamesOf(definitions)
    BY <1>0, MergedTypesAre
  <1>2. /\ MergedTypes[0].name = MergedQueryType /\ MergedTypes[0].kind = "object"
        /\ MergedTypes[0].fields = query_type_fields /\ MergedTypes[0].refs = {}
    BY <1>1 DEF QueryTypeOf
  <1>3. Builds(MergedTypes)
    BY DEF BuildsWithDirectives
  <1>4. \A m, n \in DOMAIN MergedTypes : MergedTypes[m].name = MergedTypes[n].name => m = n
    BY <1>3 DEF Builds
  <1>5. query_type_fields # {} /\ \A f \in query_type_fields : f.name = f.type
    <2>1. query_type_fields # {}
      <3>1. Len(federation.schemas) \in Nat /\ schema_index \in Nat
        BY Federation DEF MergeInv, IndexesOK
      <3>2. schema_index > 1
        BY <3>1 DEF Accumulated
      <3> QED
        BY <3>2 DEF ReadingInv, RootFieldsAreRead
    <2> QED
      BY <2>1, RootFieldsLead
  <1> DEFINE IsWhole(node) ==
                /\ node.kind \in {"object", "interface"} => node.fields # {}
                /\ node.kind = "union" => node.refs # {}
                /\ \A r \in node.refs : \A target \in DefinitionsNamed(MergedTypes, r) :
                      IF node.kind = "union" THEN target.kind = "object"
                      ELSE target.kind = "interface" /\ target.fields \subseteq node.fields
  <1>6. ASSUME NEW n \in DOMAIN definitions PROVE IsWhole(definitions[n])
    <2>1. PICK i, k : i \in DOMAIN federation.schemas /\ IsTypeAt(i, k) /\ IsFrom(definitions[n], i, k)
      BY <1>0, Origin
    <2>2. /\ definitions[n].kind = DefinitionAt(i, k).kind /\ definitions[n].refs = DefinitionAt(i, k).refs
          /\ DefinitionAt(i, k).fields \subseteq definitions[n].fields
      BY <2>1 DEF IsFrom
    <2>3. /\ DefinitionAt(i, k).kind \in {"object", "interface"} => DefinitionAt(i, k).fields # {}
          /\ DefinitionAt(i, k).kind = "union" => DefinitionAt(i, k).refs # {}
      BY <2>1, SchemaFacts DEF MergeInv, IndexesOK
    <2>4. ASSUME NEW r \in definitions[n].refs, NEW target \in DefinitionsNamed(MergedTypes, r)
          PROVE  IF definitions[n].kind = "union" THEN target.kind = "object"
                 ELSE target.kind = "interface" /\ target.fields \subseteq definitions[n].fields
      <3>1. DefinitionAt(i, k).kind \in {"object", "union"}
        <4>1. IsNode(DefinitionAt(i, k)) /\ DefinitionAt(i, k).kind # "directive"
          BY <2>1, SchemaFacts DEF IsTypeAt, IsOfKind, MergeInv, IndexesOK
        <4> QED
          BY <2>2, <4>1 DEF IsNode
      <3>2. PICK l : /\ IsTypeAt(i, l) /\ IsOwnType(i, l) /\ DefinitionAt(i, l).name = r
                     /\ DefinitionAt(i, k).kind = "union" => DefinitionAt(i, l).kind = "object"
                     /\ DefinitionAt(i, k).kind = "object" =>
                           /\ DefinitionAt(i, l).kind = "interface"
                           /\ DefinitionAt(i, l).fields \subseteq DefinitionAt(i, k).fields
        BY <2>1, <2>2, <3>1, RefsStay
      <3>3. PICK m \in DOMAIN MergedTypes : target = MergedTypes[m] /\ MergedTypes[m].name = r
        BY DEF DefinitionsNamed
      <3>4. PICK o \in DOMAIN definitions : definitions[o].name = r
        BY <1>0, <2>1, <3>2, DefinitionOf
      <3>5. m = o
        BY <1>1, <1>4, <3>3, <3>4
      <3>6. target = definitions[o] /\ IsFrom(definitions[o], i, l)
        BY <1>0, <1>1, <2>1, <3>2, <3>3, <3>4, <3>5, DefinitionOf
      <3>7. target.kind = DefinitionAt(i, l).kind
        BY <3>6 DEF IsFrom
      <3>8. definitions[n].kind = "object" => definitions[o].fields \subseteq definitions[n].fields
        BY <3>4 DEF EdgesStand, Good, ImplementersFollow
      <3> QED
        BY <2>2, <3>1, <3>2, <3>6, <3>7, <3>8
    <2> QED
      BY <2>2, <2>3, <2>4
  <1>7. \A n \in DOMAIN MergedTypes : IsWhole(MergedTypes[n])
    BY <1>1, <1>2, <1>5, <1>6
  <1>8. NamesOf(MergedTypes) \subseteq ValidNames /\ NamesOf(MergedTypes) \cap BuiltinScalars = {}
    <2>1. MergedQueryType \in ValidNames \ BuiltinScalars
      BY FederationsAssumption
    <2>2. ASSUME NEW n \in DOMAIN definitions PROVE definitions[n].name \in ValidNames \ BuiltinScalars
      <3>1. PICK i, k : i \in DOMAIN federation.schemas /\ IsTypeAt(i, k) /\ IsFrom(definitions[n], i, k)
        BY <1>0, Origin
      <3>2. definitions[n].name = DefinitionAt(i, k).name
        BY <3>1 DEF IsFrom
      <3> QED
        BY <3>1, <3>2, SchemaFacts DEF MergeInv, IndexesOK
    <2>3. \A c \in NamesOf(definitions) : c \in ValidNames \ BuiltinScalars
      BY <2>2 DEF NamesOf
    <2> QED
      BY <1>1, <2>1, <2>3
  <1>9. \A node \in DefinitionsNamed(MergedTypes, MergedQueryType) :
           node.kind = "object" /\ \A f \in node.fields : f.name = f.type
    BY <1>1, <1>2, <1>4, <1>5 DEF DefinitionsNamed
  <1> QED
    BY <1>1, <1>3, <1>7, <1>8, <1>9 DEF IsValidSchema

(* A merged schema, cross-schema edges included, is a schema that could be    *)
(* renamed or merged again; and where merging ends in a TypeError, a type has *)
(* the name of the merged query type, a schema refers to its own query type,  *)
(* or there are edges and no @stitch.                                         *)
THEOREM MergedSchemasAreValid == Spec => []MergedSchemaIsValid
<1>1. FederationInv => MergedSchemaIsValid
  <2> SUFFICES ASSUME FederationInv, ~QueryTypeIsReferredTo,
                      merge_outcome = "merged" \/ (merge_outcome = "TypeError" /\ ~UnforeseenInMerge)
               PROVE  IsValidSchema(MergedTypes, MergedQueryType)
    BY DEF MergedSchemaIsValid
  <2>1. MergeInv /\ ReadingInv /\ EdgeInv
    BY DEF FederationInv
  <2>2. merge_outcome \in {"adding edges", "merged", "TypeError"}
    BY Zenon
  <2>3. Accumulated /\ EdgesStand /\ Len(federation.schemas) > 1
    BY <2>1, <2>2, Zenon DEF EdgeInv, MergeInv, IndexesOK
  <2>4. BuildsWithDirectives
    BY <2>1, <2>3, BuildsAtLast, Zenon DEF EdgeInv
  <2> QED
    BY <2>1, <2>3, <2>4, ValidAtLast
<1> QED
  BY <1>1, FederationInvariant, PTL

-----------------------------------------------------------------------------
(* Where an edge leads                                                        *)

(* The classes that the field of an edge leads to are below its sink.         *)
LEMMA ClassesBelowTheSink ==
    ASSUME MergeInv, DefinitionsAreRead, Accumulated,
           NEW j \in DOMAIN federation.schemas, NEW l, IsClassAt(j, l),
           NEW s, s = DefinitionAt(j, l).name,
           NEW t \in ClassesOf(Lookup(federation.hints, s, s))
    PROVE  t \in SubclassSet(s)
  <1> DEFINE u == Lookup(federation.hints, s, s)
  <1>1. PICK g : /\ IsTypeAt(j, g) /\ IsOwnType(j, g) /\ DefinitionAt(j, g).name = u
                 /\ IF s \in DOMAIN federation.hints THEN DefinitionAt(j, g).kind = "union" ELSE g = l
    BY TypeOfAnEdge
  <1>2. PICK d \in DefinitionsNamed(definitions, u) :
            t \in IF d.kind = "union" THEN d.refs ELSE SubclassSet(u)
    BY DEF ClassesOf
  <1>3. PICK n \in DOMAIN definitions : d = definitions[n] /\ definitions[n].name = u
    BY DEF DefinitionsNamed
  <1>4. IsFrom(definitions[n], j, g)
    BY <1>1, <1>3, DefinitionOf
  <1>5. d.kind = DefinitionAt(j, g).kind
    BY <1>3, <1>4 DEF IsFrom
  <1>6. CASE s \in DOMAIN federation.hints
    <2>1. d.kind = "union" /\ d.name = Lookup(federation.hints, s, NULL)
      BY <1>1, <1>3, <1>5, <1>6 DEF Lookup
    <2>2. t \in d.refs
      BY <1>2, <2>1
    <2>3. d \in ToSet(definitions)
      BY <1>3 DEF ToSet
    <2> QED
      BY <2>1, <2>2, <2>3 DEF SubclassSet
  <1>7. CASE s \notin DOMAIN federation.hints
    <2>1. u = s
      BY <1>7 DEF Lookup
    <2>2. d.kind \in {"object", "interface"}
      BY <1>1, <1>5, <1>7 DEF IsClassAt
    <2> QED
      BY <1>2, <2>1, <2>2
  <1> QED
    BY <1>6, <1>7

(* A class below an end of an edge, as a definition of the merged schema.     *)
LEMMA ClassIsMerged ==
    ASSUME MergeInv, ReadingInv, Accumulated, ~QueryTypeIsReferredTo,
           NEW i \in DOMAIN federation.schemas, NEW k, IsClassAt(i, k),
           NEW t \in SubclassSet(DefinitionAt(i, k).name)
    PROVE  /\ \E n \in DOMAIN definitions : definitions[n].name = t
           /\ type_name_to_schema_id[t] = federation.schemas[i].id
           /\ \A x \in DefinitionAt(i, k).fields : x \in FieldsNamed(t, x.name)
  <1>0. DefinitionsAreRead
    BY DEF ReadingInv
  <1>1. \E l : /\ IsClassAt(i, l) /\ DefinitionAt(i, l).name = t
               /\ l = k \/ DefinitionAt(i, l).kind = "object"
               /\ DefinitionAt(i, k).fields \subseteq DefinitionAt(i, l).fields
    BY <1>0, Subclasses
  <1>2. PICK l : /\ IsClassAt(i, l) /\ DefinitionAt(i, l).name = t
                 /\ DefinitionAt(i, k).fields \subseteq DefinitionAt(i, l).fields
    BY <1>1
  <1>3. PICK n \in DOMAIN definitions : definitions[n].name = t
    BY <1>0, <1>2, DefinitionOf DEF IsClassAt
  <1>4. IsFrom(definitions[n], i, l)
    BY <1>0, <1>2, <1>3, DefinitionOf DEF IsClassAt
  <1>5. DefinitionAt(i, l).fields \subseteq definitions[n].fields
    BY <1>4 DEF IsFrom
  <1>6. l \in ReadOf(i)
    BY <1>2, AllIsRead DEF IsClassAt
  <1>7. type_name_to_schema_id[t] = federation.schemas[i].id
    BY <1>2, <1>6 DEF ReadingInv, IdsAreRecorded, IsClassAt
  <1>8. ASSUME NEW x \in DefinitionAt(i, k).fields PROVE x \in FieldsNamed(t, x.name)
    <2>1. x \in definitions[n].fields
      BY <1>2, <1>5
    <2>2. definitions[n] \in DefinitionsNamed(definitions, t)
      BY <1>3 DEF DefinitionsNamed
    <2> QED
      BY <2>1, <2>2 DEF FieldsNamed
  <1> QED
    BY <1>3, <1>7, <1>8

(* The field of an edge, in one direction, can be walked.                     *)
LEMMA FieldCanBeWalked ==
    ASSUME MergeInv, ReadingInv, Accumulated, ~QueryTypeIsReferredTo,
           NEW name, NEW source, NEW sink, Stitches(source, sink),
           NEW c \in SubclassSet(source.type), NEW f, f = EdgeTo(name, source, sink),
           NEW t \in ClassesOf(f.type)
    PROVE  /\ type_name_to_schema_id[c] # type_name_to_schema_id[t]
           /\ \E x \in FieldsNamed(c, f.stitch[1]) : \E y \in FieldsNamed(t, f.stitch[2]) :
                 ~x.list /\ ~y.list /\ {x.type, y.type} \subseteq scalars /\ ScalarsMatch(x.type, y.type)
  <1>0. DefinitionsAreRead
    BY DEF ReadingInv
  <1>1. /\ f.type = Lookup(federation.hints, sink.type, sink.type)
        /\ f.stitch[1] = source.field /\ f.stitch[2] = sink.field
    BY DEF EdgeTo
  <1>2. PICK i \in DOMAIN federation.schemas, j \in DOMAIN federation.schemas : \E k, l :
            /\ IsClassAt(i, k) /\ DefinitionAt(i, k).name = source.type
            /\ IsClassAt(j, l) /\ DefinitionAt(j, l).name = sink.type
            /\ federation.schemas[i].id # federation.schemas[j].id
            /\ \E x \in DefinitionAt(i, k).fields : \E y \in DefinitionAt(j, l).fields :
                  /\ x.name = source.field /\ y.name = sink.field
                  /\ ~x.list /\ ~y.list /\ {x.type, y.type} \subseteq scalars /\ ScalarsMatch(x.type, y.type)
    BY DEF Stitches
  <1>3. PICK k, l, x, y :
            /\ IsClassAt(i, k) /\ DefinitionAt(i, k).name = source.type
            /\ IsClassAt(j, l) /\ DefinitionAt(j, l).name = sink.type
            /\ federation.schemas[i].id # federation.schemas[j].id
            /\ x \in DefinitionAt(i, k).fields /\ y \in DefinitionAt(j, l).fields
            /\ x.name = source.field /\ y.name = sink.field
            /\ ~x.list /\ ~y.list /\ {x.type, y.type} \subseteq scalars /\ ScalarsMatch(x.type, y.type)
    BY <1>2
  <1>4. t \in SubclassSet(sink.type)
    BY <1>0, <1>1, <1>3, ClassesBelowTheSink
  <1>5. /\ type_name_to_schema_id[c] = federation.schemas[i].id
        /\ x \in FieldsNamed(c, x.name)
    <2>1. c \in SubclassSet(DefinitionAt(i, k).name)
      BY <1>3
    <2> QED
      BY <1>3, <2>1, ClassIsMerged
  <1>6. /\ type_name_to_schema_id[t] = federation.schemas[j].id
        /\ y \in FieldsNamed(t, y.name)
    <2>1. t \in SubclassSet(DefinitionAt(j, l).name)
      BY <1>3, <1>4
    <2> QED
      BY <1>3, <2>1, ClassIsMerged
  <1> QED
    BY <1>1, <1>3, <1>5, <1>6

(* Every class below an end of an edge is in the merged schema.               *)
LEMMA EndsAreMerged ==
    ASSUME MergeInv, ReadingInv, Accumulated, ~QueryTypeIsReferredTo,
           NEW source, NEW sink, Stitches(source, sink),
           NEW t \in SubclassSet(source.type) \cup SubclassSet(sink.type)
    PROVE  \E n \in DOMAIN definitions : definitions[n].name = t
  <1>1. PICK i, j, k, l :
            /\ i \in DOMAIN federation.schemas /\ j \in DOMAIN federation.schemas
            /\ IsClassAt(i, k) /\ DefinitionAt(i, k).name = source.type
            /\ IsClassAt(j, l) /\ DefinitionAt(j, l).name = sink.type
    BY DEF Stitches
  <1>2. CASE t \in SubclassSet(source.type)
    <2>1. t \in SubclassSet(DefinitionAt(i, k).name)
      BY <1>1, <1>2
    <2> QED
      BY <1>1, <2>1, ClassIsMerged
  <1>3. CASE t \in SubclassSet(sink.type)
    <2>1. t \in SubclassSet(DefinitionAt(j, l).name)
      BY <1>1, <1>3
    <2> QED
      BY <1>1, <2>1, ClassIsMerged
  <1> QED
    BY <1>2, <1>3

(* An edge that was added is there on every class below its ends.             *)
LEMMA WalkedMeans ==
    ASSUME MergeInv, ReadingInv, Accumulated, ~QueryTypeIsReferredTo, EdgesStand,
           NEW x \in 1..edge_index
    PROVE  LET e == federation.edges[x]
           IN  /\ \A t \in SubclassSet(e.outbound.type) : FieldsNamed(t, "out_" \o e.name) # {}
               /\ e.out_edge_only
                  \/ \A t \in SubclassSet(e.inbound.type) : FieldsNamed(t, "in_" \o e.name) # {}
  <1> DEFINE e == federation.edges[x]
             out_name == "out_" \o e.name
             in_name == "in_" \o e.name
  <1>1. /\ Stitches(e.outbound, e.inbound)
        /\ \A n \in DOMAIN definitions :
              /\ definitions[n].name \in SubclassSet(e.outbound.type) =>
                     out_name \in FieldNames(definitions[n])
              /\ definitions[n].name \in SubclassSet(e.inbound.type) =>
                     e.out_edge_only \/ in_name \in FieldNames(definitions[n])
    BY DEF EdgesStand, Walked
  <1> HIDE DEF out_name, in_name
  <1>2. ASSUME NEW n \in DOMAIN definitions, NEW name, name \in FieldNames(definitions[n])
        PROVE  FieldsNamed(definitions[n].name, name) # {}
    <2>1. definitions[n] \in DefinitionsNamed(definitions, definitions[n].name)
      BY DEF DefinitionsNamed
    <2>2. \E f \in definitions[n].fields : f.name = name
      BY <1>2 DEF FieldNames
    <2> QED
      BY <2>1, <2>2 DEF FieldsNamed
  <1> HIDE DEF e
  <1>3. ASSUME NEW t \in SubclassSet(e.outbound.type) PROVE FieldsNamed(t, out_name) # {}
    <2>1. PICK n \in DOMAIN definitions : definitions[n].name = t
      BY <1>1, EndsAreMerged
    <2> QED
      BY <1>1, <1>2, <2>1
  <1>4. ASSUME ~e.out_edge_only, NEW t \in SubclassSet(e.inbound.type)
        PROVE  FieldsNamed(t, in_name) # {}
    <2>1. PICK n \in DOMAIN definitions : definitions[n].name = t
      BY <1>1, EndsAreMerged
    <2> QED
      BY <1>1, <1>2, <1>4, <2>1
  <1> QED
    BY <1>3, <1>4 DEF e, out_name, in_name

(* A field with @stitch is one direction of an edge, and can be walked.       *)
LEMMA StitchMeans ==
    ASSUME MergeInv, ReadingInv, Accumulated, ~QueryTypeIsReferredTo, EdgesStand,
           NEW d \in ToSet(definitions), NEW f \in d.fields, f.stitch # NULL
    PROVE  /\ \E i \in DOMAIN federation.edges : LET e == federation.edges[i] IN
                  \/ d.name \in SubclassSet(e.outbound.type) /\ f.name = "out_" \o e.name
                  \/ /\ ~e.out_edge_only
                     /\ d.name \in SubclassSet(e.inbound.type) /\ f.name = "in_" \o e.name
           /\ \A t \in ClassesOf(f.type) :
                  /\ type_name_to_schema_id[d.name] # type_name_to_schema_id[t]
                  /\ \E x \in FieldsNamed(d.name, f.stitch[1]) :
                         \E y \in FieldsNamed(t, f.stitch[2]) :
                             ~x.list /\ ~y.list /\ {x.type, y.type} \subseteq scalars /\ ScalarsMatch(x.type, y.type)
  <1>1. PICK n \in DOMAIN definitions : d = definitions[n]
    BY DEF ToSet
  <1>2. PICK i \in DOMAIN federation.edges :
            /\ IsOfEdge(d.name, f, federation.edges[i])
            /\ Stitches(federation.edges[i].outbound, federation.edges[i].inbound)
    BY <1>1 DEF EdgesStand, Good, StitchesAreEdges
  <1> DEFINE e == federation.edges[i]
             out_name == "out_" \o e.name
             in_name == "in_" \o e.name
  <1>3. \/ d.name \in SubclassSet(e.outbound.type) /\ f = EdgeTo(out_name, e.outbound, e.inbound)
        \/ /\ ~e.out_edge_only
           /\ d.name \in SubclassSet(e.inbound.type) /\ f = EdgeTo(in_name, e.inbound, e.outbound)
    BY <1>2 DEF IsOfEdge
  <1>4. \/ d.name \in SubclassSet(e.outbound.type) /\ f.name = out_name
        \/ ~e.out_edge_only /\ d.name \in SubclassSet(e.inbound.type) /\ f.name = in_name
    <2> HIDE DEF out_name, in_name
    <2>1. \A name, source, sink : EdgeTo(name, source, sink).name = name
      BY DEF EdgeTo
    <2> QED
      BY <1>3, <2>1
  <1>5. PICK name, source, sink :
            /\ Stitches(source, sink) /\ d.name \in SubclassSet(source.type)
            /\ f = EdgeTo(name, source, sink)
    <2>1. Stitches(e.outbound, e.inbound) /\ Stitches(e.inbound, e.outbound)
      BY <1>2, StitchesBack
    <2> HIDE DEF out_name, in_name, e
    <2> QED
      BY <1>3, <2>1
  <1>6. \A t \in ClassesOf(f.type) :
            /\ type_name_to_schema_id[d.name] # type_name_to_schema_id[t]
            /\ \E x \in FieldsNamed(d.name, f.stitch[1]) : \E y \in FieldsNamed(t, f.stitch[2]) :
                   ~x.list /\ ~y.list /\ {x.type, y.type} \subseteq scalars /\ ScalarsMatch(x.type, y.type)
    BY <1>5, FieldCanBeWalked
  <1> QED
    BY <1>4, <1>6

(* Where merging goes through, every class below an end of an edge has the    *)
(* edge in its directions and in no other, and the fields it stitches hold    *)
(* single values of matching scalars on both sides, in two schemas: what      *)
(* _add_cross_schema_edges checks of an edge, before the edges after it and   *)
(* on the classes it names, is true of the whole schema in the end.           *)
THEOREM MergedEdgesCanBeWalked == Spec => []EdgesCanBeWalked
<1>1. FederationInv => EdgesCanBeWalked
  <2> SUFFICES ASSUME FederationInv, merge_outcome = "merged", ~QueryTypeIsReferredTo
               PROVE  EdgesCanBeWalked
    BY DEF EdgesCanBeWalked
  <2>1. MergeInv /\ ReadingInv /\ EdgeInv
    BY DEF FederationInv
  <2>2. merge_outcome \in {"adding edges", "merged", "TypeError"}
    BY Zenon
  <2>3. Accumulated /\ EdgesStand /\ edge_index = Len(federation.edges)
    BY <2>1, <2>2, Zenon DEF EdgeInv, MergeInv, IndexesOK
  <2>4. DOMAIN federation.edges = 1..edge_index
    BY <2>1, <2>3, FederationsAssumption DEF MergeInv, IndexesOK
  <2>5. ASSUME NEW x \in DOMAIN federation.edges
        PROVE  LET e == federation.edges[x]
               IN  /\ \A t \in SubclassSet(e.outbound.type) : FieldsNamed(t, "out_" \o e.name) # {}
                   /\ e.out_edge_only
                      \/ \A t \in SubclassSet(e.inbound.type) : FieldsNamed(t, "in_" \o e.name) # {}
    <3>1. x \in 1..edge_index
      BY <2>4
    <3> QED
      BY <2>1, <2>3, <3>1, WalkedMeans, Zenon
  <2> QED
    BY <2>1, <2>3, <2>5, StitchMeans, Zenon DEF EdgesCanBeWalked
<1> QED
  BY <1>1, FederationInvariant, PTL

=============================================================================
