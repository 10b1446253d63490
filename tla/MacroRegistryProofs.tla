------------------------- MODULE MacroRegistryProofs -------------------------
(* Proofs about the registry of macro edges.                                  *)
EXTENDS MacroRegistryImplements, TLAPS

(* What holds of the registry besides its type.                               *)
Consistent ==
    /\ TypeOK
    /\ FoundWhereInherited
    /\ \A d \in Registered : ValidInIsolation(d)
    /\ \A d, e \in Registered : d # e => Compatible(d, e)
    /\ \A i, j \in DOMAIN macro_edges : macro_edges[i] = macro_edges[j] => i = j


(* A class is a subclass of itself, and an interface of nothing else.         *)
LEMMA Subclasses ==
    ASSUME NEW c \in Classes
    PROVE  /\ c \in SubclassSets[c]
           /\ SubclassSets[c] \subseteq Classes
           /\ SubclassSets[c] \cap Interfaces \subseteq {c}
  BY RegistryAssumption DEF SubclassSets, Classes

LEMMA RegisteredAreDefinitions ==
    ASSUME TypeOK
    PROVE  /\ Registered \subseteq Definitions
           /\ \A d \in Registered : d.base_class_name \in Classes
                                    /\ d.target_class_name \in Classes
  BY RegistryAssumption DEF TypeOK, Registered

(* The loops over subclasses find the macro edges of that name that share a   *)
(* subclass with the class asked for.                                         *)
LEMMA FoundAtClass ==
    ASSUME TypeOK, FoundWhereInherited, NEW c \in Classes, NEW n
    PROVE  FoundAt(c, n) = {e \in Registered : e.macro_edge_name = n
                                               /\ ShareSubclass(c, e.base_class_name)}
<1>1. ASSUME NEW s \in SubclassSets[c], n \in DOMAIN macro_edges_at_class[s],
             NEW e, e = macro_edges_at_class[s][n]
      PROVE  /\ e \in Registered
             /\ e.macro_edge_name = n
             /\ ShareSubclass(c, e.base_class_name)
  <2>1. s \in Classes
    BY <1>1, Subclasses
  <2>2. e \in Registered /\ e.macro_edge_name = n
    BY <1>1, <2>1 DEF TypeOK, IndexOK
  <2>3. s \in SubclassSets[e.base_class_name]
    BY <1>1, <2>1, <2>2, RegisteredAreDefinitions DEF FoundWhereInherited
  <2> QED
    BY <1>1, <2>2, <2>3 DEF ShareSubclass
<1>2. ASSUME NEW e \in Registered, e.macro_edge_name = n, ShareSubclass(c, e.base_class_name)
      PROVE  e \in FoundAt(c, n)
  <2>1. PICK s \in SubclassSets[c] : s \in SubclassSets[e.base_class_name]
    BY <1>2 DEF ShareSubclass
  <2>2. s \in Classes
    BY Subclasses
  <2>3. n \in DOMAIN macro_edges_at_class[s] /\ macro_edges_at_class[s][n] = e
    BY <1>2, <2>1, <2>2, RegisteredAreDefinitions DEF FoundWhereInherited
  <2> QED
    BY <2>1, <2>3 DEF FoundAt, FoundIn
<1> QED
  BY <1>1, <1>2 DEF FoundAt, FoundIn

LEMMA FoundToClass ==
    ASSUME TypeOK, FoundWhereInherited, NEW c \in Classes, NEW n
    PROVE  FoundTo(c, n) = {e \in Registered : e.macro_edge_name = n
                                               /\ ShareSubclass(c, e.target_class_name)}
<1>1. ASSUME NEW s \in SubclassSets[c], n \in DOMAIN macro_edges_to_class[s],
             NEW e, e = macro_edges_to_class[s][n]
      PROVE  /\ e \in Registered
             /\ e.macro_edge_name = n
             /\ ShareSubclass(c, e.target_class_name)
  <2>1. s \in Classes
    BY <1>1, Subclasses
  <2>2. e \in Registered /\ e.macro_edge_name = n
    BY <1>1, <2>1 DEF TypeOK, IndexOK
  <2>3. s \in SubclassSets[e.target_class_name]
    BY <1>1, <2>1, <2>2, RegisteredAreDefinitions DEF FoundWhereInherited
  <2> QED
    BY <1>1, <2>2, <2>3 DEF ShareSubclass
<1>2. ASSUME NEW e \in Registered, e.macro_edge_name = n, ShareSubclass(c, e.target_class_name)
      PROVE  e \in FoundTo(c, n)
  <2>1. PICK s \in SubclassSets[c] : s \in SubclassSets[e.target_class_name]
    BY <1>2 DEF ShareSubclass
  <2>2. s \in Classes
    BY Subclasses
  <2>3. n \in DOMAIN macro_edges_to_class[s] /\ macro_edges_to_class[s][n] = e
    BY <1>2, <2>1, <2>2, RegisteredAreDefinitions DEF FoundWhereInherited
  <2> QED
    BY <2>1, <2>3 DEF FoundTo, FoundIn
<1> QED
  BY <1>1, <1>2 DEF FoundTo, FoundIn


(* Two macro edges that clash do so whichever comes first.                    *)
LEMMA ReverseTwice ==
    ASSUME NEW d \in Definitions, IsVertexFieldName(d.macro_edge_name)
    PROVE  /\ Reverse(Reverse(d.macro_edge_name)) = d.macro_edge_name
           /\ Reverse(d.macro_edge_name) # d.macro_edge_name
           /\ IsVertexFieldName(Reverse(d.macro_edge_name))
           /\ Reversed(Reversed(d)) = d
<1> DEFINE name == d.macro_edge_name
<1>1. name = <<name[1], name[2]>> /\ name[1] \in {"in_", "out_"}
  BY RegistryAssumption DEF IsVertexFieldName, VertexFieldPrefixes
<1>2. /\ Reverse(name)[1] = (IF name[1] = "in_" THEN "out_" ELSE "in_")
      /\ Reverse(name)[2] = name[2]
  BY DEF Reverse
<1>3. Reverse(Reverse(name)) = <<name[1], name[2]>>
  <2>1. CASE name[1] = "in_"
    BY <1>2, <2>1 DEF Reverse
  <2>2. CASE name[1] = "out_"
    BY <1>2, <2>2 DEF Reverse
  <2> QED
    BY <1>1, <2>1, <2>2
<1>4. Reverse(name)[1] # name[1] /\ Reverse(name)[1] \in VertexFieldPrefixes
  BY <1>1, <1>2 DEF VertexFieldPrefixes
<1>5. Reversed(Reversed(d)) = d
  <2>1. d = [base_class_name |-> d.base_class_name, target_class_name |-> d.target_class_name,
             macro_edge_name |-> name, expansion_ast |-> d.expansion_ast]
    BY RegistryAssumption
  <2> QED
    BY <2>1, <1>1, <1>3 DEF Reversed
<1> QED
  BY <1>1, <1>3, <1>4, <1>5 DEF IsVertexFieldName

LEMMA ReversedFields ==
    ASSUME NEW d \in Definitions
    PROVE  /\ Reversed(d).base_class_name = d.target_class_name
           /\ Reversed(d).target_class_name = d.base_class_name
           /\ Reversed(d).macro_edge_name = Reverse(d.macro_edge_name)
           /\ Reversed(d).expansion_ast = d.expansion_ast
  BY DEF Reversed

LEMMA CompatibleIsSymmetric ==
    ASSUME NEW d \in Definitions, NEW e \in Definitions,
           ValidInIsolation(d), ValidInIsolation(e), Compatible(d, e)
    PROVE  Compatible(e, d)
<1>1. ~Rivals(e, d)
  BY DEF Compatible, Rivals, ShareSubclass
<1>2. ASSUME Rivals(Reversed(e), d) PROVE Rivals(Reversed(d), e)
  <2>1. Reverse(d.macro_edge_name) = e.macro_edge_name
    BY <1>2, ReverseTwice, ReversedFields DEF Rivals, ValidInIsolation
  <2> QED
    BY <1>2, <2>1, ReversedFields DEF Rivals, ShareSubclass
<1> QED
  BY <1>1, <1>2 DEF Compatible, ClashReversed, ReversalMatches

(* The two checks of register_macro_edge, in terms of the macro edges that    *)
(* are registered.                                                            *)
LEMMA DefinitionCheck ==
    ASSUME TypeOK, FoundWhereInherited, NEW d,
           d.base_class_name \in Classes, d.target_class_name \in Classes
    PROVE  DefinitionErrors(d) = {} <=> \A e \in Registered : ~Rivals(d, e)
<1> DEFINE at == FoundAt(d.base_class_name, d.macro_edge_name)
           to == FoundTo(d.target_class_name, d.macro_edge_name)
<1>1. DefinitionErrors(d) = {} <=> at = {} /\ to = {}
  BY DEF DefinitionErrors
<1>2. at = {e \in Registered : e.macro_edge_name = d.macro_edge_name
                               /\ ShareSubclass(d.base_class_name, e.base_class_name)}
  BY FoundAtClass
<1>3. to = {e \in Registered : e.macro_edge_name = d.macro_edge_name
                               /\ ShareSubclass(d.target_class_name, e.target_class_name)}
  BY FoundToClass
<1> HIDE DEF at, to
<1> QED
  BY <1>1, <1>2, <1>3 DEF Rivals

LEMMA ReversalCheck ==
    ASSUME TypeOK, FoundWhereInherited, NEW d,
           d.base_class_name \in Classes, d.target_class_name \in Classes
    PROVE  MayFailReversal(d) <=>
               \E e \in Registered :
                   /\ Reverse(d.macro_edge_name) = e.macro_edge_name
                   /\ \/ ShareSubclass(d.target_class_name, e.base_class_name)
                      \/ ShareSubclass(d.base_class_name, e.target_class_name)
                   /\ ~ReversalMatches(d, e)
<1> DEFINE reverse == Reverse(d.macro_edge_name)
<1>1. FoundAt(d.target_class_name, reverse) =
          {e \in Registered : e.macro_edge_name = reverse
                              /\ ShareSubclass(d.target_class_name, e.base_class_name)}
  BY FoundAtClass
<1>2. FoundTo(d.base_class_name, reverse) =
          {e \in Registered : e.macro_edge_name = reverse
                              /\ ShareSubclass(d.base_class_name, e.target_class_name)}
  BY FoundToClass
<1> QED
  BY <1>1, <1>2 DEF MayFailReversal, FoundReversals

(* The searches cannot find both a match and a conflict: a match is inherited *)
(* by all the classes that are searched, and leaves no room for a conflict.   *)
LEMMA PassOrFail ==
    ASSUME Consistent, NEW d \in Definitions
    PROVE  MayPassReversal(d) <=> ~MayFailReversal(d)
<1> DEFINE reverse == Reverse(d.macro_edge_name)
           at == FoundAt(d.target_class_name, reverse)
           to == FoundTo(d.base_class_name, reverse)
<1>1. TypeOK /\ FoundWhereInherited /\ d.base_class_name \in Classes
      /\ d.target_class_name \in Classes
  BY RegistryAssumption DEF Consistent
<1>2. at = {e \in Registered : e.macro_edge_name = reverse
                               /\ ShareSubclass(d.target_class_name, e.base_class_name)}
  BY <1>1, FoundAtClass
<1>3. to = {e \in Registered : e.macro_edge_name = reverse
                               /\ ShareSubclass(d.base_class_name, e.target_class_name)}
  BY <1>1, FoundToClass
<1>4. MayPassReversal(d) <=> /\ at = {} \/ \E e \in at : ReversalMatches(d, e)
                             /\ to = {} \/ \E e \in to : ReversalMatches(d, e)
  BY DEF MayPassReversal
<1>5. MayFailReversal(d) <=> \E e \in at \cup to : ~ReversalMatches(d, e)
  BY DEF MayFailReversal, FoundReversals
<1> HIDE DEF at, to, reverse
<1>6. ASSUME NEW m \in at \cup to, ReversalMatches(d, m),
             NEW e \in at \cup to, ~ReversalMatches(d, e)
      PROVE  FALSE
  <2>1. m \in Registered /\ e \in Registered /\ m # e /\ m.macro_edge_name = e.macro_edge_name
    BY <1>2, <1>3, <1>6
  <2>2. ShareSubclass(m.base_class_name, e.base_class_name)
        \/ ShareSubclass(m.target_class_name, e.target_class_name)
    BY <1>2, <1>3, <1>6 DEF ReversalMatches
  <2> QED
    BY <2>1, <2>2 DEF Consistent, Compatible, Rivals
<1> QED
  BY <1>4, <1>5, <1>6

(* register_macro_edge takes a macro edge exactly when it is compatible with  *)
(* all of those it holds.                                                     *)
LEMMA Accepts ==
    ASSUME Consistent, NEW d \in Definitions
    PROVE  DefinitionErrors(d) = {} /\ ~MayFailReversal(d)
               <=> \A e \in Registered : Compatible(d, e)
<1>1. TypeOK /\ FoundWhereInherited /\ d.base_class_name \in Classes
      /\ d.target_class_name \in Classes
  BY RegistryAssumption DEF Consistent
<1>2. DefinitionErrors(d) = {} <=> \A e \in Registered : ~Rivals(d, e)
  BY <1>1, DefinitionCheck
<1>3. MayFailReversal(d) <=> \E e \in Registered : ClashReversed(d, e)
  BY <1>1, ReversalCheck, ReversedFields DEF ClashReversed, Rivals
<1> QED
  BY <1>2, <1>3 DEF Compatible

-----------------------------------------------------------------------------
(* The invariant *)

LEMMA ConsistentInit == Init => Consistent
  BY DEF Init, Consistent, TypeOK, IndexOK, FoundWhereInherited, Registered

LEMMA RegisteredAfter ==
    ASSUME TypeOK, NEW d \in Definitions, RegisterMacroEdge(d)
    PROVE  /\ Registered' = Registered \cup {d}
           /\ macro_edges' \in Seq(Definitions)
           /\ d \notin Registered /\ (\A i, j \in DOMAIN macro_edges :
                                         macro_edges[i] = macro_edges[j] => i = j)
                => \A i, j \in DOMAIN macro_edges' : macro_edges'[i] = macro_edges'[j] => i = j
<1>1. macro_edges \in Seq(Definitions) /\ macro_edges' = Append(macro_edges, d)
  BY DEF TypeOK, RegisterMacroEdge
<1>2. /\ macro_edges' \in Seq(Definitions)
      /\ DOMAIN macro_edges = 1..Len(macro_edges)
      /\ DOMAIN macro_edges' = 1..(Len(macro_edges) + 1)
      /\ \A i \in DOMAIN macro_edges : macro_edges'[i] = macro_edges[i]
      /\ macro_edges'[Len(macro_edges) + 1] = d
      /\ Len(macro_edges) \in Nat
  BY <1>1
<1> QED
  BY <1>2 DEF Registered

(* An index after a registration.                                             *)
LEMMA IndexedEntries ==
    ASSUME NEW index, NEW classes, NEW d, NEW c \in Classes, NEW n
    PROVE  LET new == Indexed(index, classes, d)
           IN  /\ n \in DOMAIN new[c]
                    <=> n \in DOMAIN index[c] \/ (c \in classes /\ n = d.macro_edge_name)
               /\ n \in DOMAIN new[c] =>
                    new[c][n] = IF c \in classes /\ n = d.macro_edge_name
                                THEN d ELSE index[c][n]
  BY DEF Indexed

LEMMA ConsistentNext == Consistent /\ [Next]_vars => Consistent'
<1> SUFFICES ASSUME Consistent, [Next]_vars PROVE Consistent'
  OBVIOUS
<1>1. CASE UNCHANGED registry /\ outcome' \in {"created", "registered",
                                              "GraphQLInvalidMacroError", "AssertionError"}
  BY <1>1 DEF Consistent, TypeOK, IndexOK, FoundWhereInherited, Registered, registry
<1>2. ASSUME NEW d \in Definitions, RegisterMacroEdge(d)
      PROVE  Consistent'
  <2> DEFINE at == macro_edges_at_class
             to == macro_edges_to_class
             bases == SubclassSets[d.base_class_name]
             targets == SubclassSets[d.target_class_name]
             name == d.macro_edge_name
  <2>1. /\ ValidInIsolation(d)
        /\ DefinitionErrors(d) = {}
        /\ ~MayFailReversal(d)
        /\ at' = Indexed(at, bases, d)
        /\ to' = Indexed(to, targets, d)
        /\ outcome' = "registered"
    BY <1>2, PassOrFail DEF RegisterMacroEdge
  <2>2. \A e \in Registered : Compatible(d, e) /\ Compatible(e, d)
    <3>1. \A e \in Registered : Compatible(d, e)
      BY <2>1, Accepts
    <3>2. \A e \in Registered : e \in Definitions /\ ValidInIsolation(e)
      BY RegisteredAreDefinitions DEF Consistent
    <3> QED
      BY <2>1, <3>1, <3>2, CompatibleIsSymmetric
  <2>3. Registered' = Registered \cup {d} /\ macro_edges' \in Seq(Definitions)
    BY <1>2, RegisteredAfter DEF Consistent
  <2>4. IndexOK(at)' /\ IndexOK(to)'
    <3>1. DOMAIN at' = Classes /\ DOMAIN to' = Classes
      BY <2>1 DEF Indexed
    <3>2. ASSUME NEW c \in Classes, NEW n \in DOMAIN at'[c]
          PROVE  at'[c][n] \in Registered' /\ at'[c][n].macro_edge_name = n
      BY <2>1, <2>3, IndexedEntries DEF Consistent, TypeOK, IndexOK
    <3>3. ASSUME NEW c \in Classes, NEW n \in DOMAIN to'[c]
          PROVE  to'[c][n] \in Registered' /\ to'[c][n].macro_edge_name = n
      BY <2>1, <2>3, IndexedEntries DEF Consistent, TypeOK, IndexOK
    <3> QED
      BY <3>1, <3>2, <3>3 DEF IndexOK
  <2>5. \A e \in Registered : e.macro_edge_name = name =>
            /\ \A c \in SubclassSets[e.base_class_name] : c \notin bases
            /\ \A c \in SubclassSets[e.target_class_name] : c \notin targets
    BY <2>2 DEF Compatible, Rivals, ShareSubclass
  <2>6. d \notin Registered
    <3>1. d.base_class_name \in bases
      BY RegistryAssumption, Subclasses
    <3> QED
      BY <2>5, <3>1
  <2>7. FoundWhereInherited'
    <3> SUFFICES ASSUME NEW e \in Definitions, NEW c \in Classes
                 PROVE  /\ e.macro_edge_name \in DOMAIN at'[c] /\ at'[c][e.macro_edge_name] = e
                             <=> e \in Registered' /\ c \in SubclassSets[e.base_class_name]
                        /\ e.macro_edge_name \in DOMAIN to'[c] /\ to'[c][e.macro_edge_name] = e
                             <=> e \in Registered' /\ c \in SubclassSets[e.target_class_name]
      BY DEF FoundWhereInherited
    <3>1. /\ e.macro_edge_name \in DOMAIN at[c] /\ at[c][e.macro_edge_name] = e
               <=> e \in Registered /\ c \in SubclassSets[e.base_class_name]
          /\ e.macro_edge_name \in DOMAIN to[c] /\ to[c][e.macro_edge_name] = e
               <=> e \in Registered /\ c \in SubclassSets[e.target_class_name]
      BY DEF Consistent, FoundWhereInherited
    <3>2. LET n == e.macro_edge_name
          IN  /\ n \in DOMAIN at'[c] <=> n \in DOMAIN at[c] \/ (c \in bases /\ n = name)
              /\ n \in DOMAIN at'[c] =>
                     at'[c][n] = IF c \in bases /\ n = name THEN d ELSE at[c][n]
              /\ n \in DOMAIN to'[c] <=> n \in DOMAIN to[c] \/ (c \in targets /\ n = name)
              /\ n \in DOMAIN to'[c] =>
                     to'[c][n] = IF c \in targets /\ n = name THEN d ELSE to[c][n]
      BY <2>1, IndexedEntries
    <3>3. CASE e = d
      BY <2>3, <2>6, <3>1, <3>2, <3>3
    <3>4. CASE e # d
      <4> HIDE DEF at, to, bases, targets, name
      <4> QED
        BY <2>3, <2>5, <3>1, <3>2, <3>4
    <3> QED
      BY <3>3, <3>4
  <2>8. \A e \in Registered' : ValidInIsolation(e)
    BY <2>1, <2>3 DEF Consistent
  <2>9. \A e, f \in Registered' : e # f => Compatible(e, f)
    BY <2>2, <2>3 DEF Consistent
  <2>10. \A i, j \in DOMAIN macro_edges' : macro_edges'[i] = macro_edges'[j] => i = j
    BY <1>2, <2>6, RegisteredAfter DEF Consistent
  <2> QED
    <3>1. TypeOK'
      BY <2>1, <2>3, <2>4 DEF TypeOK
    <3> QED
      BY <2>7, <2>8, <2>9, <2>10, <3>1 DEF Consistent, ValidInIsolation, Compatible, Rivals,
         ClashReversed, ReversalMatches, ShareSubclass
<1>3. ASSUME NEW d \in Definitions, RejectDefinition(d)
      PROVE  Consistent'
  BY <1>1, <1>3 DEF RejectDefinition, DefinitionErrors, DefinitionError
<1>4. ASSUME NEW d \in Definitions, RejectInvalid(d) \/ RejectReversal(d)
      PROVE  Consistent'
  BY <1>1, <1>4 DEF RejectInvalid, RejectReversal
<1>5. CASE UNCHANGED vars
  BY <1>1, <1>5 DEF Consistent, TypeOK, vars, registry
<1> QED
  BY <1>2, <1>3, <1>4, <1>5 DEF Next

-----------------------------------------------------------------------------
(* Theorems *)

THEOREM RegistryIsConsistent == Spec => []Consistent
  BY ConsistentInit, ConsistentNext, PTL DEF Spec

(* Type correctness of the registry.                                          *)
THEOREM RegistryTypeCorrect == Spec => []TypeOK
<1>1. Consistent => TypeOK
  BY DEF Consistent
<1> QED
  BY <1>1, RegistryIsConsistent, PTL

(* No class inherits two macro edges of one name or is the target of two,     *)
(* whatever register_macro_edge was asked to register.                        *)
THEOREM OneMacroEdgePerClass == Spec => []OnePerClass
<1>1. Consistent => OnePerClass
  <2> SUFFICES ASSUME Consistent, NEW i \in DOMAIN macro_edges, NEW j \in DOMAIN macro_edges,
                      i # j
               PROVE  ~Rivals(macro_edges[i], macro_edges[j])
    BY DEF OnePerClass
  <2>1. macro_edges[i] # macro_edges[j]
    BY DEF Consistent
  <2>2. macro_edges[i] \in Registered /\ macro_edges[j] \in Registered
    BY DEF Registered
  <2> QED
    BY <2>1, <2>2 DEF Consistent, Compatible
<1> QED
  BY <1>1, RegistryIsConsistent, PTL

(* The two indexes of the registry agree with the list of macro edges.        *)
THEOREM IndexesAgree == Spec => []FoundWhereInherited
<1>1. Consistent => FoundWhereInherited
  BY DEF Consistent
<1> QED
  BY <1>1, RegistryIsConsistent, PTL

(* The reverse of each registered macro edge is there or can still be added.  *)
THEOREM MacroEdgesAreReversible == Spec => []Reversible
<1>1. Consistent => Reversible
  <2> SUFFICES ASSUME Consistent, NEW d \in Registered,
                      ~ \E e \in Registered :
                            e.macro_edge_name = Reversed(d).macro_edge_name
                            /\ ReversalMatches(d, e)
               PROVE  /\ ValidInIsolation(Reversed(d))
                      /\ DefinitionErrors(Reversed(d)) = {}
                      /\ ~MayFailReversal(Reversed(d))
    BY DEF Reversible
  <2> DEFINE r == Reversed(d)
  <2>1. /\ TypeOK /\ FoundWhereInherited
        /\ d \in Definitions
        /\ \A e \in Registered : e \in Definitions
        /\ d.base_class_name \in Classes /\ d.target_class_name \in Classes
        /\ ValidInIsolation(d)
    BY RegisteredAreDefinitions DEF Consistent
  <2>2. /\ r.base_class_name = d.target_class_name
        /\ r.target_class_name = d.base_class_name
        /\ r.macro_edge_name = Reverse(d.macro_edge_name)
        /\ r.expansion_ast = d.expansion_ast
    BY <2>1, ReversedFields
  <2>3. /\ Reverse(r.macro_edge_name) = d.macro_edge_name
        /\ r.macro_edge_name # d.macro_edge_name
        /\ IsVertexFieldName(r.macro_edge_name)
        /\ Reversed(r) = d
    BY <2>1, <2>2, ReverseTwice DEF ValidInIsolation
  <2> HIDE DEF r
  <2>4. ValidInIsolation(r)
    BY <2>1, <2>2, <2>3 DEF ValidInIsolation
  <2>5. \A e \in Registered : ~Rivals(r, e)
    <3> SUFFICES ASSUME NEW e \in Registered, Rivals(r, e) PROVE FALSE
      OBVIOUS
    <3>1. e # d
      BY <2>3 DEF Rivals
    <3>2. ~ClashReversed(d, e)
      BY <3>1 DEF Consistent, Compatible
    <3> QED
      BY <3>2 DEF ClashReversed, r, Rivals
  <2>6. DefinitionErrors(r) = {}
    BY <2>1, <2>2, <2>5, DefinitionCheck
  <2>7. ~MayFailReversal(r)
    <3> SUFFICES ASSUME NEW e \in Registered, Reverse(r.macro_edge_name) = e.macro_edge_name,
                        \/ ShareSubclass(r.target_class_name, e.base_class_name)
                        \/ ShareSubclass(r.base_class_name, e.target_class_name),
                        ~ReversalMatches(r, e)
                 PROVE  FALSE
      BY <2>1, <2>2, ReversalCheck
    <3>1. e # d
      BY <2>2 DEF ReversalMatches
    <3>2. Rivals(d, e)
      BY <2>2, <2>3 DEF Rivals
    <3> QED
      BY <3>1, <3>2 DEF Consistent, Compatible
  <2> QED
    BY <2>4, <2>6, <2>7 DEF r
<1> QED
  BY <1>1, RegistryIsConsistent, PTL

(* The iteration order of a set of class names decides nothing.               *)
THEOREM VerdictDoesNotDependOnIteration == Spec => []VerdictIsDeterministic
<1>1. Consistent => VerdictIsDeterministic
  BY PassOrFail DEF VerdictIsDeterministic
<1> QED
  BY <1>1, RegistryIsConsistent, PTL

(* The schema with macros has no field twice, and its interfaces are          *)
(* implemented.                                                               *)
THEOREM SchemaWithMacrosCanBeBuilt == Spec => []SchemaWithMacrosIsValid
<1>1. Consistent => SchemaWithMacrosIsValid
  <2> SUFFICES ASSUME Consistent PROVE SchemaWithMacrosIsValid
    OBVIOUS
  <2>1. ASSUME NEW c \in Classes, NEW n \in DOMAIN macro_edges_at_class[c]
        PROVE  LET d == macro_edges_at_class[c][n]
               IN  /\ d \in Registered
                   /\ d \in Definitions
                   /\ d.macro_edge_name = n
                   /\ d.base_class_name \in Classes
                   /\ c \in SubclassSets[d.base_class_name]
                   /\ ValidInIsolation(d)
    <3> DEFINE d == macro_edges_at_class[c][n]
    <3>1. d \in Registered /\ d.macro_edge_name = n
      BY DEF Consistent, TypeOK, IndexOK
    <3>2. d \in Definitions /\ d.base_class_name \in Classes /\ ValidInIsolation(d)
      BY <3>1, RegisteredAreDefinitions DEF Consistent
    <3>3. c \in SubclassSets[d.base_class_name]
      BY <3>1, <3>2 DEF Consistent, FoundWhereInherited
    <3> QED
      BY <3>1, <3>2, <3>3
  <2>2. \A c \in Classes : DOMAIN macro_edges_at_class[c] \cap FieldNames[c] = {}
    BY <2>1 DEF ValidInIsolation
  <2>3. ASSUME NEW o \in ObjectTypes, NEW c \in Implements[o], NEW n \in DOMAIN macro_edges_at_class[c]
        PROVE  n \in DOMAIN macro_edges_at_class[o]
               /\ macro_edges_at_class[o][n] = macro_edges_at_class[c][n]
    <3> DEFINE d == macro_edges_at_class[c][n]
    <3>1. c \in Interfaces /\ c \in Classes /\ o \in Classes
      BY RegistryAssumption DEF Classes
    <3>2. c = d.base_class_name
      BY <2>1, <3>1, Subclasses
    <3>3. o \in SubclassSets[c]
      BY <3>1 DEF SubclassSets
    <3> QED
      BY <2>1, <3>1, <3>2, <3>3 DEF Consistent, FoundWhereInherited
  <2> QED
    BY <2>2, <2>3 DEF SchemaWithMacrosIsValid, MacroFields
<1> QED
  BY <1>1, RegistryIsConsistent, PTL

-----------------------------------------------------------------------------
(* Refinement *)

LEMMA FitsWhenCompatible ==
    ASSUME Consistent, NEW d \in Definitions
    PROVE  Edges!Fits(d) <=> ValidInIsolation(d) /\ \A e \in Registered : Compatible(d, e)
<1>1. \A e \in Registered : e \in Acceptable
  BY RegisteredAreDefinitions DEF Consistent, Acceptable
<1>2. ASSUME NEW e \in Registered, d \in Acceptable
      PROVE  {d, e} \in CompatiblePairs <=> Compatible(d, e)
  <2>1. ASSUME Compatible(d, e) PROVE {d, e} \in CompatiblePairs
    <3>1. <<d, e>> \in {q \in Acceptable \X Acceptable : Compatible(q[1], q[2])}
      BY <1>1, <1>2, <2>1
    <3> QED
      BY <3>1 DEF CompatiblePairs
  <2>2. ASSUME {d, e} \in CompatiblePairs PROVE Compatible(d, e)
    <3>1. PICK p \in Acceptable \X Acceptable : Compatible(p[1], p[2]) /\ {d, e} = {p[1], p[2]}
      BY <2>2 DEF CompatiblePairs
    <3>2. Compatible(d, e) \/ Compatible(e, d)
      <4>1. (p[1] = d /\ p[2] = e) \/ (p[1] = e /\ p[2] = d)
        BY <3>1
      <4> QED
        BY <3>1, <4>1
    <3> QED
      BY <1>1, <1>2, <3>2, CompatibleIsSymmetric DEF Acceptable
  <2> QED
    BY <2>1, <2>2
<1> QED
  BY <1>1, <1>2 DEF Edges!Fits, Acceptable

LEMMA EdgesInit == Init => Edges!Init
  BY DEF Init, Edges!Init, Registered

LEMMA EdgesNext ==
    Consistent /\ [Next]_vars => [Edges!Next]_<<Registered,
        CASE outcome = "created" -> "none" [] outcome = "registered" -> "accepted"
          [] OTHER -> "rejected">>
<1> SUFFICES ASSUME Consistent, Next PROVE Edges!Next
  BY DEF vars, registry, Registered
<1>1. PICK d \in Definitions :
          RejectInvalid(d) \/ RejectDefinition(d) \/ RejectReversal(d) \/ RegisterMacroEdge(d)
  BY DEF Next
<1>2. Edges!Fits(d) <=> /\ ValidInIsolation(d)
                        /\ DefinitionErrors(d) = {}
                        /\ ~MayFailReversal(d)
  BY FitsWhenCompatible, Accepts
<1>3. ASSUME ~Edges!Fits(d), UNCHANGED registry,
             outcome' \in {"GraphQLInvalidMacroError", "AssertionError"}
      PROVE  Edges!Next
  BY <1>3 DEF Edges!Next, Edges!Reject, registry, Registered
<1>4. CASE RejectInvalid(d)
  BY <1>2, <1>3, <1>4 DEF RejectInvalid
<1>5. CASE RejectDefinition(d)
  BY <1>2, <1>3, <1>5 DEF RejectDefinition, DefinitionErrors, DefinitionError
<1>6. CASE RejectReversal(d)
  BY <1>2, <1>3, <1>6 DEF RejectReversal
<1>7. CASE RegisterMacroEdge(d)
  <2>1. Edges!Fits(d)
    BY <1>2, <1>7, PassOrFail DEF RegisterMacroEdge
  <2>2. Registered' = Registered \cup {d}
    BY <1>7, RegisteredAfter DEF Consistent
  <2>3. outcome' = "registered"
    BY <1>7 DEF RegisterMacroEdge
  <2> QED
    BY <2>1, <2>2, <2>3 DEF Edges!Next, Edges!Accept
<1> QED
  BY <1>1, <1>4, <1>5, <1>6, <1>7

(* register_macro_edge accepts exactly what is compatible with each macro     *)
(* edge it accepted before: the order of registration decides nothing.        *)
THEOREM RegistryImplementsMacroEdgeSet == Spec => AcceptsCompatible
<1>1. Spec => []Consistent
  BY RegistryIsConsistent
<1> QED
  BY <1>1, EdgesInit, EdgesNext, PTL DEF Spec, AcceptsCompatible, Edges!Spec
=============================================================================
