----------------------------- MODULE SplitProofs ------------------------------
(* Proofs about the splitting of queries: on the way from the query to its    *)
(* plan nothing that it asks for is dropped, and its pieces stay within the   *)
(* schemas.                                                                   *)
EXTENDS FederatedQuery, MergeProofs, FiniteSetTheorems, WellFoundedInduction

-----------------------------------------------------------------------------
(* How far the splitting of a query is.                                       *)

(* Properties of a vertex only grow: a property keeps its place, its out name *)
(* and the filters it has.                                                    *)
Begins(a, b) == Len(a) <= Len(b) /\ \A n \in 1..Len(a) : b[n] = a[n]
GrownProperty(p, q) ==
    /\ q.field = p.field
    /\ p.out # NULL => q.out = p.out
    /\ Begins(p.filters, q.filters)
    /\ p.optional => q.optional
Grown(v, w) ==
    \A k \in DOMAIN v.properties :
        k \in DOMAIN w.properties /\ GrownProperty(v.properties[k], w.properties[k])

(* A vertex has a property that asks what an edge does.                       *)
AsksFor(p, f, edge) ==
    /\ p.field = f
    /\ ToSet(edge.filters) \subseteq ToSet(p.filters)
    /\ "optional" \in edge.directives => p.optional
Asks(v, f, edge) == \E k \in DOMAIN v.properties : AsksFor(v.properties[k], f, edge)

Stitch1(t, f) == (CHOOSE s \in StitchOf(t, f) : TRUE)[1]
StitchedField(i) == Stitch1(TypesOf(query)[query[i].parent], query[i].edge)

(* A vertex is as in the query, or the root of a piece.                       *)
IsUncut(v, q) ==
    /\ v.parent = q.parent /\ v.edge = q.edge /\ v.coerced_to = q.coerced_to
    /\ v.filters = q.filters /\ v.directives = q.directives
IsRoot(v, t) == v.parent = 0 /\ v.edge = t /\ v.coerced_to = NULL
IsCut(i) ==
    /\ IsRoot(vertices[i], TypesOf(query)[i])
    /\ IsCrossSchema(query, i)
    /\ Asks(vertices[query[i].parent], StitchedField(i), query[i])

VerticesInv ==
    /\ IsTree(query)
    /\ IsList(vertices) /\ Len(vertices) = Len(query)
    /\ \A i \in DOMAIN query :
          /\ IsVertex(vertices[i])
          /\ Grown(query[i], vertices[i])
          /\ IsUncut(vertices[i], query[i]) \/ IsCut(i)

NodesInv ==
    /\ IsList(nodes)
    /\ \A n \in DOMAIN nodes :
          /\ nodes[n] = [root |-> nodes[n].root, schema_id |-> nodes[n].schema_id,
                         parent_query_connection |-> nodes[n].parent_query_connection,
                         child_query_connections |-> nodes[n].child_query_connections]
          /\ nodes[n].root \in DOMAIN query
          /\ IsList(nodes[n].child_query_connections)
          /\ \A k \in DOMAIN nodes[n].child_query_connections :
                nodes[n].child_query_connections[k].sink_query_node \in DOMAIN nodes
QueueInv ==
    Splitting =>
        /\ IsList(query_nodes_to_split) /\ query_nodes_to_split # <<>>
        /\ ToSet(query_nodes_to_split) \subseteq DOMAIN nodes
        /\ selections \subseteq DOMAIN query

SinksOf(node) ==
    {node.child_query_connections[k].sink_query_node : k \in DOMAIN node.child_query_connections}
RootsOf(N) == {nodes[n].root : n \in N}
(* What is to be split, besides what is below it.                             *)
Due ==
    IF Splitting
    THEN selections \cup RootsOf(ToSet(Front(query_nodes_to_split))) \cup RootsOf(SinksOf(nodes[CurrentNode]))
    ELSE {}

(* H are the vertices whose selections have been split.                       *)
HaveBeenSplit(H) ==
    /\ H \subseteq DOMAIN query
    /\ \A i \in DOMAIN query : IsCrossSchema(query, i) /\ query[i].parent \in H => vertices[i].parent = 0
    /\ \A i \in H : ~HasRepeatedProperty(vertices[i])
    /\ \A i \in DOMAIN query \ H :
          i \in Due \/ (vertices[i].parent # 0 /\ vertices[i].parent \notin H)
    /\ Splitting => nodes[CurrentNode].root \in H \cup selections

SplitInv ==
    split_outcome \in {"splitting", "split", "planned"} =>
        /\ merge_outcome = "merged"
        /\ VerticesInv /\ NodesInv /\ QueueInv
        /\ \E H \in SUBSET DOMAIN query : HaveBeenSplit(H)

-----------------------------------------------------------------------------
(* Lists and sets of numbers                                                  *)

(* A non-empty set of naturals has a least element.                           *)
LEMMA MinIs ==
    ASSUME NEW S \in SUBSET Nat, S # {}
    PROVE  Min(S) \in S /\ \A m \in S : Min(S) <= m
<1>1. PICK n \in S : \A m \in S : ~ (<<m, n>> \in OpToRel(<, Nat))
  BY NatLessThanWellFounded, WFMin
<1>2. ASSUME NEW m \in S, m < n PROVE FALSE
  <2>1. m \in Nat /\ n \in Nat
    OBVIOUS
  <2>2. <<m, n>> \in OpToRel(<, Nat)
    BY <2>1, <1>2, Zenon DEF OpToRel
  <2> QED BY <1>1, <2>2
<1>3. \A m \in S : n <= m
  BY <1>2
<1> QED BY <1>3 DEF Min

LEMMA ListIs ==
    ASSUME NEW q, NEW n \in Nat, q = [i \in 1..n |-> q[i]]
    PROVE  IsList(q) /\ Len(q) = n
<1> DEFINE S == {q[i] : i \in 1..n}
<1>1. \A i \in 1..n : q[i] \in S
  OBVIOUS
<1> HIDE DEF S
<1>2. q \in [1..n -> S]
  BY <1>1
<1>3. q \in Seq(S)
  BY <1>2, SeqDef
<1>4. DOMAIN q = 1..n /\ DOMAIN q = 1..Len(q) /\ Len(q) \in Nat
  BY <1>2, <1>3, LenProperties
<1>5. Len(q) = n
  <2>1. n \in 1..n <=> n \in 1..Len(q)
    BY <1>4
  <2>2. Len(q) \in 1..n <=> Len(q) \in 1..Len(q)
    BY <1>4
  <2> QED BY <1>4, <2>1, <2>2
<1> QED BY <1>4, <1>5 DEF IsList

LEMMA EmptyList == IsList(<<>>)
<1> DEFINE e == << >>
<1>1. e = [i \in 1..0 |-> e[i]]
  BY EmptySeq, LenProperties
<1> HIDE DEF e
<1>2. IsList(e)
  BY <1>1, ListIs
<1> QED BY <1>2 DEF e

LEMMA ListParts ==
    ASSUME NEW q, IsList(q)
    PROVE  /\ Len(q) \in Nat /\ DOMAIN q = 1..Len(q) /\ q = [i \in 1..Len(q) |-> q[i]]
           /\ q \in Seq({q[i] : i \in 1..Len(q)})
           /\ q = <<>> <=> Len(q) = 0
<1> DEFINE S == {q[i] : i \in 1..Len(q)}
           n == Len(q)
<1>1. n \in Nat /\ q = [i \in 1..n |-> q[i]] /\ \A i \in 1..n : q[i] \in S
  BY DEF IsList
<1> HIDE DEF S, n
<1>2. q \in [1..n -> S]
  BY <1>1
<1>3. q \in Seq(S)
  BY <1>1, <1>2, SeqDef
<1>4. q = <<>> <=> n = 0
  BY <1>3, EmptySeq DEF n
<1> QED BY <1>1, <1>2, <1>3, <1>4 DEF n, S

LEMMA ListAppend ==
    ASSUME NEW q, IsList(q), NEW e
    PROVE  /\ IsList(Append(q, e)) /\ Len(Append(q, e)) = Len(q) + 1
           /\ DOMAIN Append(q, e) = 1..(Len(q) + 1)
           /\ \A i \in 1..Len(q) : Append(q, e)[i] = q[i]
           /\ Append(q, e)[Len(q) + 1] = e
<1>1. PICK S : q \in Seq(S)
  BY ListParts
<1>2. q \in Seq(S \cup {e}) /\ e \in S \cup {e}
  BY <1>1
<1>3. /\ Append(q, e) \in Seq(S \cup {e}) /\ Len(Append(q, e)) = Len(q) + 1
      /\ \A i \in 1..Len(q) : Append(q, e)[i] = q[i]
      /\ Append(q, e)[Len(q) + 1] = e
  BY <1>2, AppendProperties
<1>4. /\ Append(q, e) = [i \in 1..(Len(q) + 1) |-> Append(q, e)[i]] /\ Len(q) \in Nat
      /\ DOMAIN Append(q, e) = 1..(Len(q) + 1)
  BY <1>1, <1>3, LenProperties
<1>5. IsList(Append(q, e))
  <2> DEFINE p == Append(q, e)
             n == Len(q) + 1
  <2>1. n \in Nat /\ p = [i \in 1..n |-> p[i]]
    BY <1>4
  <2> HIDE DEF p, n
  <2>2. IsList(p)
    BY <2>1, ListIs
  <2> QED BY <2>2 DEF p
<1> QED BY <1>3, <1>4, <1>5

LEMMA ListConcat ==
    ASSUME NEW p, IsList(p), NEW q, IsList(q)
    PROVE  /\ IsList(p \o q) /\ Len(p \o q) = Len(p) + Len(q)
           /\ \A i \in 1..Len(p) : (p \o q)[i] = p[i]
           /\ \A i \in 1..Len(q) : (p \o q)[Len(p) + i] = q[i]
<1>1. PICK S, T : p \in Seq(S) /\ q \in Seq(T)
  BY ListParts
<1>2. p \in Seq(S \cup T) /\ q \in Seq(S \cup T)
  BY <1>1
<1>3. /\ p \o q \in Seq(S \cup T) /\ Len(p \o q) = Len(p) + Len(q)
      /\ \A i \in 1..(Len(p) + Len(q)) :
            (p \o q)[i] = IF i <= Len(p) THEN p[i] ELSE q[i - Len(p)]
  BY <1>2, ConcatProperties
<1>4. p \o q = [i \in 1..(Len(p) + Len(q)) |-> (p \o q)[i]] /\ Len(p) \in Nat /\ Len(q) \in Nat
  BY <1>1, <1>3, LenProperties
<1>5. \A i \in 1..Len(p) : (p \o q)[i] = p[i]
  BY <1>3, <1>4
<1>6. ASSUME NEW i \in 1..Len(q) PROVE (p \o q)[Len(p) + i] = q[i]
  <2>1. Len(p) + i \in 1..(Len(p) + Len(q)) /\ ~(Len(p) + i <= Len(p)) /\ (Len(p) + i) - Len(p) = i
    BY <1>4
  <2> QED BY <2>1, <1>3
<1>7. IsList(p \o q)
  BY <1>4, ListIs
<1> QED BY <1>3, <1>5, <1>6, <1>7

LEMMA ListFront ==
    ASSUME NEW q, IsList(q), q # <<>>
    PROVE  /\ Len(q) \in Nat \ {0} /\ IsList(Front(q)) /\ Len(Front(q)) = Len(q) - 1
           /\ \A i \in 1..(Len(q) - 1) : Front(q)[i] = q[i]
<1>1. Len(q) \in Nat \ {0}
  BY ListParts
<1>2. PICK S : q \in Seq(S)
  BY ListParts
<1>3. /\ Front(q) \in Seq(S) /\ Len(Front(q)) = Len(q) - 1
      /\ \A i \in 1..(Len(q) - 1) : Front(q)[i] = q[i]
  <2> DEFINE m == Len(q) - 1
  <2>1. m \in Nat /\ \A k \in 1..m : q[k] \in S /\ q[1 + k - 1] = q[k]
    BY <1>1, <1>2, ElementOfSeq
  <2>2. Front(q) = SubSeq(q, 1, m)
    BY DEF Front
  <2> HIDE DEF m
  <2>3. /\ SubSeq(q, 1, m) \in Seq(S)
        /\ Len(SubSeq(q, 1, m)) = IF 1 <= m THEN m - 1 + 1 ELSE 0
        /\ \A k \in 1..(m - 1 + 1) : SubSeq(q, 1, m)[k] = q[1 + k - 1]
    BY <2>1, SubSeqProperties
  <2>4. Len(SubSeq(q, 1, m)) = m /\ \A k \in 1..m : SubSeq(q, 1, m)[k] = q[k]
    BY <2>1, <2>3
  <2> QED BY <2>2, <2>3, <2>4 DEF m
<1>4. Front(q) = [i \in 1..(Len(q) - 1) |-> Front(q)[i]]
  BY <1>3, LenProperties
<1>5. IsList(Front(q))
  <2> DEFINE p == Front(q)
             n == Len(q) - 1
  <2>1. n \in Nat /\ p = [i \in 1..n |-> p[i]]
    BY <1>1, <1>4
  <2> HIDE DEF p, n
  <2>2. IsList(p)
    BY <2>1, ListIs
  <2> QED BY <2>2 DEF p
<1> QED BY <1>1, <1>3, <1>5

(* What begins with what.                                                     *)
LEMMA BeginsSame ==
    ASSUME NEW a, IsList(a)
    PROVE  Begins(a, a)
  BY ListParts DEF Begins

LEMMA BeginsTransitive ==
    ASSUME NEW a, IsList(a), NEW b, IsList(b), NEW c, IsList(c), Begins(a, b), Begins(b, c)
    PROVE  Begins(a, c)
<1>1. Len(a) \in Nat /\ Len(b) \in Nat /\ Len(c) \in Nat
  BY ListParts
<1> QED BY <1>1 DEF Begins

LEMMA BeginsConcat ==
    ASSUME NEW a, IsList(a), NEW b, IsList(b)
    PROVE  Begins(a, a \o b) /\ ToSet(b) \subseteq ToSet(a \o b)
<1>1. Len(a) \in Nat /\ Len(b) \in Nat /\ DOMAIN b = 1..Len(b)
  BY ListParts
<1>2. /\ IsList(a \o b) /\ Len(a \o b) = Len(a) + Len(b)
      /\ \A i \in 1..Len(a) : (a \o b)[i] = a[i]
      /\ \A i \in 1..Len(b) : (a \o b)[Len(a) + i] = b[i]
  BY ListConcat
<1>3. DOMAIN (a \o b) = 1..(Len(a) + Len(b))
  BY <1>2, ListParts
<1>4. Begins(a, a \o b)
  BY <1>1, <1>2 DEF Begins
<1>5. ASSUME NEW i \in DOMAIN b PROVE \E j \in DOMAIN (a \o b) : (a \o b)[j] = b[i]
  <2>1. Len(a) + i \in DOMAIN (a \o b) /\ i \in 1..Len(b)
    BY <1>1, <1>3
  <2> QED BY <2>1, <1>2
<1> QED BY <1>4, <1>5 DEF ToSet

LEMMA BeginsIsPrefix ==
    ASSUME NEW a, IsList(a), NEW b, IsList(b), Begins(a, b)
    PROVE  IsPrefix(a, b) /\ ToSet(a) \subseteq ToSet(b)
<1>1. Len(a) \in Nat /\ DOMAIN a = 1..Len(a) /\ Len(b) \in Nat /\ DOMAIN b = 1..Len(b)
  BY ListParts
<1> DEFINE n == Len(a)
           S == {b[i] : i \in 1..Len(b)}
<1>2. n <= Len(b) /\ \A i \in 1..n : b[i] = a[i]
  BY DEF Begins
<1>3. n \in Int /\ \A i \in 1..n : a[i] \in S /\ b[i] \in S
  BY <1>1, <1>2
<1> HIDE DEF S
<1>4. /\ SubSeq(a, 1, n) \in Seq(S)
      /\ Len(SubSeq(a, 1, n)) = IF 1 <= n THEN n - 1 + 1 ELSE 0
      /\ \A i \in 1..(n - 1 + 1) : SubSeq(a, 1, n)[i] = a[1 + i - 1]
  BY <1>3, SubSeqProperties
<1>5. /\ SubSeq(b, 1, n) \in Seq(S)
      /\ Len(SubSeq(b, 1, n)) = IF 1 <= n THEN n - 1 + 1 ELSE 0
      /\ \A i \in 1..(n - 1 + 1) : SubSeq(b, 1, n)[i] = b[1 + i - 1]
  BY <1>3, SubSeqProperties
<1> DEFINE p == SubSeq(a, 1, n)
           q == SubSeq(b, 1, n)
<1>6. p \in Seq(S) /\ q \in Seq(S) /\ Len(p) = Len(q) /\ \A i \in 1..Len(p) : p[i] = q[i]
  <2>1. Len(p) = n /\ Len(q) = n /\ n - 1 + 1 = n /\ \A i \in 1..n : 1 + i - 1 = i
    BY <1>1, <1>4, <1>5
  <2> QED BY <2>1, <1>2, <1>4, <1>5
<1> HIDE DEF p, q
<1>7. p = q
  BY <1>6, SeqEqual
<1>8. ToSet(a) \subseteq ToSet(b)
  BY <1>1, <1>2 DEF ToSet
<1> QED BY <1>2, <1>7, <1>8 DEF IsPrefix, p, q

-----------------------------------------------------------------------------
(* Types of vertices *)

IsForest(vs) == IsList(vs) /\ \A i \in DOMAIN vs : vs[i].parent \in 0..(i - 1)

(* What the type of a field is, if types are the declared types.              *)
Declared(vs, types, i) ==
    IF vs[i].parent = 0 THEN vs[i].edge
    ELSE FieldType(CoercedType(vs[vs[i].parent], types[vs[i].parent]), vs[i].edge)

(* Types can be declared from the root down.                                  *)
LEMMA TypesCanBeDeclared ==
    ASSUME NEW vs, IsForest(vs)
    PROVE  \E D : D = [i \in DOMAIN vs |-> Declared(vs, D, i)]
<1> DEFINE Can(n) == \E D : D = [i \in 1..n |-> Declared(vs, D, i)]
           Not == {n \in 0..Len(vs) : ~Can(n)}
<1>1. Len(vs) \in Nat /\ DOMAIN vs = 1..Len(vs)
  BY ListParts DEF IsForest
<1>2. Can(0)
  <2> DEFINE D == [i \in 1..0 |-> 0]
  <2>1. D = [i \in 1..0 |-> Declared(vs, D, i)]
    <3>1. 1..0 = {}
      OBVIOUS
    <3> QED BY <3>1
  <2> QED BY <2>1
<1>3. ASSUME NEW n \in 1..Len(vs), Can(n - 1) PROVE Can(n)
  <2>1. PICK D : D = [i \in 1..(n - 1) |-> Declared(vs, D, i)]
    BY <1>3
  <2> DEFINE E == [i \in 1..n |-> Declared(vs, D, i)]
  <2>2. ASSUME NEW i \in 1..n PROVE Declared(vs, D, i) = Declared(vs, E, i)
    <3>1. CASE vs[i].parent = 0
      BY <3>1 DEF Declared
    <3>2. CASE vs[i].parent # 0
      <4> DEFINE p == vs[i].parent
      <4>1. i \in DOMAIN vs /\ p \in 0..(i - 1)
        BY <1>1 DEF IsForest
      <4>2. p \in 1..(n - 1) /\ p \in 1..n
        BY <3>2, <4>1, <1>1
      <4> HIDE DEF p
      <4>3. D[p] = Declared(vs, D, p) /\ E[p] = Declared(vs, D, p)
        <5> HIDE DEF Declared
        <5>1. D[p] = Declared(vs, D, p)
          BY <2>1, <4>2, Zenon
        <5> QED BY <5>1, <4>2
      <4> QED BY <3>2, <4>3 DEF Declared, p
    <3> QED BY <3>1, <3>2
  <2>3. E = [i \in 1..n |-> Declared(vs, E, i)]
    <3> HIDE DEF Declared
    <3> QED BY <2>2
  <2> HIDE DEF E
  <2> QED BY <2>3
<1> HIDE DEF Can
<1>4. Not = {}
  <2> SUFFICES ASSUME Not # {} PROVE FALSE
    OBVIOUS
  <2>1. Not \in SUBSET Nat
    BY <1>1
  <2> DEFINE n == Min(Not)
  <2>2. n \in Not /\ \A m \in Not : n <= m
    BY <2>1, MinIs
  <2> HIDE DEF n
  <2>3. n \in 0..Len(vs) /\ ~Can(n)
    BY <2>2
  <2>4. n \in 1..Len(vs) /\ n - 1 \in 0..Len(vs)
    BY <1>1, <1>2, <2>3
  <2>5. Can(n - 1)
    BY <1>1, <2>2, <2>4
  <2> QED BY <1>3, <2>3, <2>4, <2>5
<1>5. Can(Len(vs))
  BY <1>1, <1>4
<1> QED BY <1>1, <1>5 DEF Can

LEMMA DeclaredTypesAre ==
    ASSUME NEW vs, IsForest(vs)
    PROVE  DeclaredTypes(vs) = [i \in DOMAIN vs |-> Declared(vs, DeclaredTypes(vs), i)]
<1>1. DeclaredTypes(vs) = CHOOSE D : D = [i \in DOMAIN vs |-> Declared(vs, D, i)]
  BY Zenon DEF DeclaredTypes, Declared
<1> HIDE DEF DeclaredTypes, Declared
<1> QED BY <1>1, TypesCanBeDeclared

(* The type of a vertex by that of its parent.                                *)
TypeBy(v, types) ==
    CoercedType(v, IF v.parent = 0 THEN v.edge ELSE FieldType(types[v.parent], v.edge))

LEMMA TypesAre ==
    ASSUME NEW vs, IsForest(vs)
    PROVE  TypesOf(vs) = [i \in DOMAIN vs |-> TypeBy(vs[i], TypesOf(vs))]
<1> DEFINE D == DeclaredTypes(vs)
           T == TypesOf(vs)
<1>1. D = [i \in DOMAIN vs |-> Declared(vs, D, i)]
  BY DeclaredTypesAre
<1>2. T = [i \in DOMAIN vs |-> CoercedType(vs[i], D[i])]
  BY DEF TypesOf
<1> HIDE DEF D, T
<1>3. ASSUME NEW i \in DOMAIN vs PROVE CoercedType(vs[i], D[i]) = TypeBy(vs[i], T)
  <2>1. D[i] = Declared(vs, D, i)
    BY <1>1, Zenon
  <2>2. CASE vs[i].parent = 0
    BY <2>1, <2>2 DEF Declared, TypeBy
  <2>3. CASE vs[i].parent # 0
    <3> DEFINE p == vs[i].parent
    <3>1. p \in DOMAIN vs
      <4>1. i \in Nat /\ i \in 1..Len(vs) /\ Len(vs) \in Nat /\ DOMAIN vs = 1..Len(vs)
        BY ListParts DEF IsForest
      <4>2. p \in 0..(i - 1)
        BY DEF IsForest
      <4> QED BY <4>1, <4>2, <2>3
    <3> HIDE DEF p
    <3>2. T[p] = CoercedType(vs[p], D[p])
      BY <1>2, <3>1, Zenon
    <3>3. D[i] = FieldType(T[p], vs[i].edge)
      BY <2>1, <2>3, <3>2 DEF Declared, p
    <3> QED BY <2>3, <3>3 DEF TypeBy, p
  <2> QED BY <2>2, <2>3
<1> HIDE DEF TypeBy, CoercedType
<1>4. T = [i \in DOMAIN vs |-> TypeBy(vs[i], T)]
  BY <1>2, <1>3
<1> QED BY <1>4 DEF T

(* A branch that is cut off keeps its types.                                  *)
LEMMA CuttingKeepsTypes ==
    ASSUME NEW vs, IsForest(vs), NEW ws, IsList(ws), Len(ws) = Len(vs),
           \A i \in DOMAIN vs :
              \/ ws[i].parent = vs[i].parent /\ ws[i].edge = vs[i].edge
                    /\ ws[i].coerced_to = vs[i].coerced_to
              \/ IsRoot(ws[i], TypesOf(vs)[i])
    PROVE  IsForest(ws) /\ TypesOf(ws) = TypesOf(vs)
<1> DEFINE T == TypesOf(vs)
           U == TypesOf(ws)
           n == Len(vs)
<1>1. n \in Nat /\ DOMAIN vs = 1..n /\ DOMAIN ws = 1..n
  BY ListParts DEF IsForest
<1>2. \A i \in 1..n : vs[i].parent \in 0..(i - 1)
  BY <1>1 DEF IsForest
<1>3. IsForest(ws)
  <2>1. \A i \in 1..n : ws[i].parent = 0 \/ ws[i].parent = vs[i].parent
    BY <1>1 DEF IsRoot
  <2>2. \A i \in 1..n : ws[i].parent \in 0..(i - 1)
    BY <1>1, <1>2, <2>1
  <2> QED BY <2>2, <1>1 DEF IsForest
<1>4. T = [i \in 1..n |-> TypeBy(vs[i], T)] /\ U = [i \in 1..n |-> TypeBy(ws[i], U)]
  BY <1>1, <1>3, TypesAre
<1> DEFINE Differ == {i \in 1..n : T[i] # U[i]}
<1> HIDE DEF T, U, n
<1>5. Differ = {}
  <2> SUFFICES ASSUME Differ # {} PROVE FALSE
    OBVIOUS
  <2>1. Differ \in SUBSET Nat
    BY <1>1
  <2> DEFINE i == Min(Differ)
  <2>2. i \in Differ /\ \A m \in Differ : i <= m
    BY <2>1, MinIs
  <2> HIDE DEF i
  <2>3. i \in 1..n /\ T[i] # U[i]
    BY <2>2
  <2>4. T[i] = TypeBy(vs[i], T) /\ U[i] = TypeBy(ws[i], U)
    <3> HIDE DEF TypeBy
    <3> QED BY <1>4, <2>3
  <2>5. CASE IsRoot(ws[i], T[i])
    BY <2>3, <2>4, <2>5 DEF IsRoot, TypeBy, CoercedType
  <2>6. CASE ws[i].parent = vs[i].parent /\ ws[i].edge = vs[i].edge
                    /\ ws[i].coerced_to = vs[i].coerced_to
    <3> DEFINE p == vs[i].parent
    <3>1. p = 0 \/ T[p] = U[p]
      <4>1. p \in 0..(i - 1)
        BY <1>2, <2>3
      <4> HIDE DEF p
      <4>2. p # 0 => p \in 1..n /\ ~(i <= p)
        BY <1>1, <2>3, <4>1
      <4> QED BY <2>2, <4>2
    <3>2. TypeBy(vs[i], T) = TypeBy(ws[i], U)
      BY <2>6, <3>1 DEF TypeBy, CoercedType
    <3> QED BY <2>3, <2>4, <3>2
  <2> QED BY <1>1, <2>3, <2>5, <2>6 DEF T
<1>6. T = U
  <2> HIDE DEF TypeBy
  <2>1. T = [i \in 1..n |-> T[i]] /\ U = [i \in 1..n |-> U[i]]
    BY <1>4
  <2>2. \A i \in 1..n : T[i] = U[i]
    BY <1>5
  <2> QED BY <2>1, <2>2, Zenon
<1> QED BY <1>3, <1>6 DEF T, U

-----------------------------------------------------------------------------
(* Properties of a vertex *)

LEMMA PropertyGrows ==
    ASSUME NEW p, IsProperty(p), NEW q, IsProperty(q), NEW r, IsProperty(r)
    PROVE  /\ GrownProperty(p, p)
           /\ GrownProperty(p, q) /\ GrownProperty(q, r) => GrownProperty(p, r)
<1>1. IsList(p.filters) /\ IsList(q.filters) /\ IsList(r.filters)
  BY DEF IsProperty
<1>2. Begins(p.filters, p.filters)
  BY <1>1, BeginsSame
<1>3. Begins(p.filters, q.filters) /\ Begins(q.filters, r.filters) => Begins(p.filters, r.filters)
  BY <1>1, BeginsTransitive
<1> QED BY <1>2, <1>3 DEF GrownProperty

LEMMA VertexGrows ==
    ASSUME NEW u, IsVertex(u), NEW v, IsVertex(v), NEW w, IsVertex(w)
    PROVE  /\ Grown(u, u)
           /\ Grown(u, v) /\ Grown(v, w) => Grown(u, w)
<1>1. /\ \A k \in DOMAIN u.properties : IsProperty(u.properties[k])
      /\ \A k \in DOMAIN v.properties : IsProperty(v.properties[k])
      /\ \A k \in DOMAIN w.properties : IsProperty(w.properties[k])
  BY DEF IsVertex
<1>2. Grown(u, u)
  BY <1>1, PropertyGrows DEF Grown
<1>3. ASSUME Grown(u, v), Grown(v, w), NEW k \in DOMAIN u.properties
      PROVE  k \in DOMAIN w.properties /\ GrownProperty(u.properties[k], w.properties[k])
  <2>1. k \in DOMAIN v.properties /\ GrownProperty(u.properties[k], v.properties[k])
    BY <1>3 DEF Grown
  <2>2. k \in DOMAIN w.properties /\ GrownProperty(v.properties[k], w.properties[k])
    BY <1>3, <2>1 DEF Grown
  <2> QED BY <1>1, <2>1, <2>2, PropertyGrows
<1> QED BY <1>2, <1>3 DEF Grown

LEMMA AskedStays ==
    ASSUME NEW v, IsVertex(v), NEW w, IsVertex(w), Grown(v, w), NEW f, NEW edge, Asks(v, f, edge)
    PROVE  Asks(w, f, edge)
<1>1. PICK k \in DOMAIN v.properties : AsksFor(v.properties[k], f, edge)
  BY DEF Asks
<1> DEFINE p == v.properties[k]
           q == w.properties[k]
<1>2. k \in DOMAIN w.properties /\ GrownProperty(p, q)
  BY DEF Grown
<1>3. IsList(p.filters) /\ IsList(q.filters)
  BY <1>2 DEF IsVertex, IsProperty
<1>4. ToSet(p.filters) \subseteq ToSet(q.filters)
  BY <1>2, <1>3, BeginsIsPrefix DEF GrownProperty
<1>5. AsksFor(p, f, edge)
  BY <1>1
<1> HIDE DEF p, q
<1>6. AsksFor(q, f, edge)
  BY <1>2, <1>4, <1>5 DEF AsksFor, GrownProperty
<1> QED BY <1>2, <1>6 DEF Asks, q

LEMMA ThePropertyIs ==
    ASSUME NEW v, ~HasRepeatedProperty(v), NEW k \in DOMAIN v.properties
    PROVE  LET f == v.properties[k].field IN Has(v, f) /\ PropertyOf(v, f) = v.properties[k]
<1> DEFINE f == v.properties[k].field
<1>1. Has(v, f)
  BY DEF Has
<1>2. \A l \in DOMAIN v.properties : v.properties[l].field = f <=> l = k
  BY DEF HasRepeatedProperty
<1>3. (CHOOSE l \in DOMAIN v.properties : v.properties[l].field = f) = k
  BY <1>2
<1> QED BY <1>1, <1>3 DEF PropertyOf

LEMMA AbsentProperty ==
    ASSUME NEW v, NEW f, ~Has(v, f)
    PROVE  PropertyOf(v, f) = NewProperty(f)
  BY DEF PropertyOf

Regardless(v, w) ==
    /\ w.parent = v.parent /\ w.edge = v.edge /\ w.coerced_to = v.coerced_to
    /\ w.filters = v.filters /\ w.directives = v.directives

LEMMA PropertiesReplaced ==
    ASSUME NEW v, IsVertex(v), NEW ps
    PROVE  LET w == [v EXCEPT !.properties = ps]
           IN  /\ w = [parent |-> w.parent, edge |-> w.edge, coerced_to |-> w.coerced_to,
                       directives |-> w.directives, filters |-> w.filters,
                       properties |-> w.properties]
               /\ w.properties = ps /\ Regardless(v, w)
<1> DEFINE w == [v EXCEPT !.properties = ps]
<1>1. v = [parent |-> v.parent, edge |-> v.edge, coerced_to |-> v.coerced_to,
           directives |-> v.directives, filters |-> v.filters, properties |-> v.properties]
  BY DEF IsVertex
<1>2. w = [parent |-> v.parent, edge |-> v.edge, coerced_to |-> v.coerced_to,
           directives |-> v.directives, filters |-> v.filters, properties |-> ps]
  BY <1>1
<1> QED BY <1>2 DEF Regardless

FieldsOf(v) == {v.properties[k].field : k \in DOMAIN v.properties}

LEMMA WithPropertyIs ==
    ASSUME NEW v, IsVertex(v), ~HasRepeatedProperty(v), NEW p, IsProperty(p),
           Has(v, p.field) => GrownProperty(PropertyOf(v, p.field), p)
    PROVE  LET w == WithProperty(v, p)
           IN  /\ IsVertex(w) /\ Grown(v, w) /\ ~HasRepeatedProperty(w) /\ Regardless(v, w)
               /\ FieldsOf(w) \subseteq FieldsOf(v) \cup {p.field}
               /\ \E k \in DOMAIN w.properties : w.properties[k] = p
<1> DEFINE old == v.properties
           new == IF Has(v, p.field) THEN [k \in DOMAIN old |-> IF old[k].field = p.field THEN p ELSE old[k]]
                  ELSE Append(old, p)
           w == [v EXCEPT !.properties = new]
<1>1. WithProperty(v, p) = w
  BY DEF WithProperty
<1>2. /\ w = [parent |-> w.parent, edge |-> w.edge, coerced_to |-> w.coerced_to,
              directives |-> w.directives, filters |-> w.filters, properties |-> w.properties]
      /\ w.properties = new /\ Regardless(v, w)
  <2> HIDE DEF new
  <2> QED BY PropertiesReplaced
<1>3. IsList(old) /\ \A k \in DOMAIN old : IsProperty(old[k])
  BY DEF IsVertex
<1>4. DOMAIN old = 1..Len(old) /\ Len(old) \in Nat
  BY <1>3, ListParts
<1>5. \A k, l \in DOMAIN old : k # l => old[k].field # old[l].field
  BY DEF HasRepeatedProperty
<1> DEFINE Fits(n) ==
             /\ IsList(n) /\ \A k \in DOMAIN n : IsProperty(n[k])
             /\ \A k \in DOMAIN old : k \in DOMAIN n /\ GrownProperty(old[k], n[k])
             /\ \A k, l \in DOMAIN n : k # l => n[k].field # n[l].field
             /\ \A k \in DOMAIN n :
                   n[k].field = p.field \/ \E l \in DOMAIN old : n[k].field = old[l].field
             /\ \E k \in DOMAIN n : n[k] = p
<1>6. ASSUME Has(v, p.field) PROVE Fits(new)
  <2>1. PICK h \in DOMAIN old : old[h].field = p.field
    BY <1>6 DEF Has
  <2>2. PropertyOf(v, p.field) = old[h]
    BY <2>1, ThePropertyIs
  <2>3. GrownProperty(old[h], p)
    BY <1>6, <2>2
  <2>4. new = [k \in 1..Len(old) |-> IF k = h THEN p ELSE old[k]]
    <3>1. \A k \in DOMAIN old : old[k].field = p.field <=> k = h
      BY <1>5, <2>1
    <3> QED BY <1>4, <1>6, <3>1
  <2> HIDE DEF new, w, old
  <2>5. DOMAIN new = 1..Len(old) /\ \A k \in 1..Len(old) : new[k] = IF k = h THEN p ELSE old[k]
    BY <2>4
  <2>6. IsList(new)
    <3>1. new = [k \in 1..Len(old) |-> new[k]]
      BY <2>4
    <3> QED BY <3>1, <1>4, ListIs
  <2>7. \A k \in DOMAIN new : IsProperty(new[k])
    BY <1>3, <1>4, <2>5
  <2>8. ASSUME NEW k \in DOMAIN old PROVE k \in DOMAIN new /\ GrownProperty(old[k], new[k])
    <3>1. GrownProperty(old[k], old[k])
      BY <1>3, PropertyGrows
    <3> QED BY <1>4, <2>3, <2>5, <3>1
  <2>9. \A k \in DOMAIN new : new[k].field = old[k].field
    BY <1>4, <2>1, <2>5
  <2>10. \A k, l \in DOMAIN new : k # l => new[k].field # new[l].field
    BY <1>4, <1>5, <2>5, <2>9
  <2>11. h \in DOMAIN new /\ new[h] = p
    BY <1>4, <2>1, <2>5
  <2>12. \A k \in DOMAIN new : \E l \in DOMAIN old : new[k].field = old[l].field
    BY <1>4, <2>5, <2>9
  <2> QED BY <2>6, <2>7, <2>8, <2>10, <2>11, <2>12
<1>7. ASSUME ~Has(v, p.field) PROVE Fits(new)
  <2>1. new = Append(old, p)
    BY <1>7
  <2>2. \A k \in DOMAIN old : old[k].field # p.field
    BY <1>7 DEF Has
  <2> HIDE DEF new, w, old
  <2>3. /\ IsList(new) /\ DOMAIN new = 1..(Len(old) + 1)
        /\ \A k \in 1..Len(old) : new[k] = old[k]
        /\ new[Len(old) + 1] = p
    BY <1>3, <2>1, ListAppend
  <2>4. \A k \in DOMAIN new : k \in DOMAIN old \/ k = Len(old) + 1
    BY <1>4, <2>3
  <2>5. \A k \in DOMAIN new : IsProperty(new[k])
    BY <1>3, <1>4, <2>3, <2>4
  <2>6. ASSUME NEW k \in DOMAIN old PROVE k \in DOMAIN new /\ GrownProperty(old[k], new[k])
    <3>1. GrownProperty(old[k], old[k])
      BY <1>3, PropertyGrows
    <3> QED BY <1>4, <2>3, <3>1
  <2>7. \A k, l \in DOMAIN new : k # l => new[k].field # new[l].field
    BY <1>4, <1>5, <2>2, <2>3, <2>4
  <2>8. Len(old) + 1 \in DOMAIN new
    BY <1>4, <2>3
  <2>9. \A k \in DOMAIN new : new[k].field = p.field \/ \E l \in DOMAIN old : new[k].field = old[l].field
    BY <1>4, <2>3, <2>4
  <2> QED BY <2>3, <2>5, <2>6, <2>7, <2>8, <2>9
<1> HIDE DEF new, w, old
<1>8. Fits(new)
  BY <1>6, <1>7
<1>9. IsVertex(w)
  BY <1>2, <1>8 DEF IsVertex, Regardless
<1>10. Grown(v, w)
  BY <1>2, <1>8 DEF Grown, old
<1>11. ~HasRepeatedProperty(w)
  BY <1>2, <1>8 DEF HasRepeatedProperty
<1>12. \E k \in DOMAIN w.properties : w.properties[k] = p
  BY <1>2, <1>8
<1>13. FieldsOf(w) \subseteq FieldsOf(v) \cup {p.field}
  BY <1>2, <1>8 DEF FieldsOf, old
<1> QED BY <1>1, <1>2, <1>9, <1>10, <1>11, <1>12, <1>13

(* The property of a vertex on either side of an edge that is cut.            *)
LEMMA PropertyAsked ==
    ASSUME NEW v, IsVertex(v), ~HasRepeatedProperty(v), NEW f, NEW edge, IsList(edge.filters),
           NEW count
    PROVE  LET p == WithOutput(PropertyField(v, f, edge), count)
           IN  /\ IsProperty(p) /\ p.field = f
               /\ Has(v, f) => GrownProperty(PropertyOf(v, f), p)
               /\ AsksFor(p, f, edge)
<1> DEFINE o == PropertyOf(v, f)
           r == PropertyField(v, f, edge)
           p == WithOutput(r, count)
<1>1. IsProperty(o) /\ o.field = f
  <2>1. CASE Has(v, f)
    <3>1. PICK k \in DOMAIN v.properties : v.properties[k].field = f
      BY <2>1 DEF Has
    <3>2. o = v.properties[k]
      BY <3>1, ThePropertyIs
    <3> QED BY <3>1, <3>2 DEF IsVertex
  <2>2. CASE ~Has(v, f)
    <3>1. o = [field |-> f, out |-> NULL, filters |-> <<>>, optional |-> FALSE]
      BY <2>2, AbsentProperty DEF NewProperty
    <3>2. IsList(<<>>)
      BY EmptyList
    <3> HIDE DEF o
    <3> QED BY <3>1, <3>2 DEF IsProperty
  <2> QED BY <2>1, <2>2
<1>2. r = [field |-> o.field, out |-> o.out, filters |-> o.filters \o edge.filters,
           optional |-> o.optional \/ "optional" \in edge.directives]
  <2>1. o = [field |-> o.field, out |-> o.out, filters |-> o.filters, optional |-> o.optional]
    BY <1>1 DEF IsProperty
  <2>2. r = [o EXCEPT !.filters = @ \o edge.filters, !.optional = @ \/ "optional" \in edge.directives]
    BY DEF PropertyField
  <2> HIDE DEF r, o
  <2> QED BY <2>1, <2>2
<1> HIDE DEF r
<1>3. p = [field |-> o.field, out |-> IF r.out = NULL THEN AssignOutName(count) ELSE o.out,
           filters |-> o.filters \o edge.filters,
           optional |-> o.optional \/ "optional" \in edge.directives]
  <2> HIDE DEF o
  <2> QED BY <1>2 DEF WithOutput
<1> HIDE DEF o, p
<1>4. r.out = o.out
  BY <1>2
<1>5. IsList(o.filters)
  BY <1>1 DEF IsProperty
<1>6. /\ IsList(o.filters \o edge.filters)
      /\ Begins(o.filters, o.filters \o edge.filters)
      /\ ToSet(edge.filters) \subseteq ToSet(o.filters \o edge.filters)
  BY <1>5, ListConcat, BeginsConcat
<1>7. /\ p.field = o.field /\ p.filters = o.filters \o edge.filters
      /\ p.out = (IF r.out = NULL THEN AssignOutName(count) ELSE o.out)
      /\ p.optional = (o.optional \/ "optional" \in edge.directives)
  BY <1>3
<1>8. IsProperty(p)
  <2>1. p.optional \in BOOLEAN
    BY <1>7, Zenon
  <2> QED BY <1>3, <1>6, <1>7, <2>1 DEF IsProperty
<1>9. GrownProperty(o, p)
  BY <1>4, <1>6, <1>7 DEF GrownProperty
<1>10. AsksFor(p, f, edge)
  BY <1>1, <1>6, <1>7 DEF AsksFor
<1> QED BY <1>1, <1>7, <1>8, <1>9, <1>10 DEF o, p, r

LEMMA WithFilterIs ==
    ASSUME NEW v, IsVertex(v), NEW out, NEW parameter
    PROVE  LET w == WithFilterAtOutput(v, out, parameter)
           IN  IsVertex(w) /\ Grown(v, w) /\ Regardless(v, w) /\ FieldsOf(w) = FieldsOf(v)
                  /\ (HasRepeatedProperty(w) => HasRepeatedProperty(v))
<1> DEFINE old == v.properties
           More(p) == IF p.out = out THEN WithFilter(p, InCollection(parameter)) ELSE p
           new == [k \in DOMAIN old |-> More(old[k])]
           w == [v EXCEPT !.properties = new]
<1>1. WithFilterAtOutput(v, out, parameter) = w
  BY DEF WithFilterAtOutput
<1>2. /\ w = [parent |-> w.parent, edge |-> w.edge, coerced_to |-> w.coerced_to,
              directives |-> w.directives, filters |-> w.filters, properties |-> w.properties]
      /\ w.properties = new /\ Regardless(v, w)
  <2> HIDE DEF new
  <2> QED BY PropertiesReplaced
<1>3. ASSUME NEW p, IsProperty(p) PROVE IsProperty(More(p)) /\ GrownProperty(p, More(p))
  <2> DEFINE e == InCollection(parameter)
             q == WithFilter(p, e)
  <2>1. /\ p = [field |-> p.field, out |-> p.out, filters |-> p.filters, optional |-> p.optional]
        /\ IsList(p.filters) /\ p.optional \in BOOLEAN
    BY <1>3 DEF IsProperty
  <2> HIDE DEF e
  <2>2. q = [field |-> p.field, out |-> p.out, filters |-> Append(p.filters, e), optional |-> p.optional]
    <3>1. p = [field |-> p.field, out |-> p.out, filters |-> p.filters, optional |-> p.optional]
      BY <2>1
    <3> DEFINE x == Append(p.filters, e)
    <3>2. q = [p EXCEPT !.filters = x]
      BY DEF WithFilter
    <3> HIDE DEF q, x
    <3>3. q = [field |-> p.field, out |-> p.out, filters |-> x, optional |-> p.optional]
      BY <3>1, <3>2
    <3> QED BY <3>3 DEF x
  <2>3. IsList(Append(p.filters, e)) /\ Begins(p.filters, Append(p.filters, e))
    <3>1. /\ IsList(Append(p.filters, e)) /\ Len(Append(p.filters, e)) = Len(p.filters) + 1
          /\ \A i \in 1..Len(p.filters) : Append(p.filters, e)[i] = p.filters[i]
      BY <2>1, ListAppend
    <3>2. Len(p.filters) \in Nat
      BY <2>1, ListParts
    <3> QED BY <3>1, <3>2 DEF Begins
  <2> HIDE DEF q
  <2>4. IsProperty(q) /\ GrownProperty(p, q)
    BY <2>1, <2>2, <2>3 DEF IsProperty, GrownProperty
  <2>5. GrownProperty(p, p)
    BY <1>3, PropertyGrows
  <2>6. More(p) = q \/ More(p) = p
    BY DEF q, e
  <2> QED BY <1>3, <2>4, <2>5, <2>6
<1>4. IsList(old) /\ \A k \in DOMAIN old : IsProperty(old[k])
  BY DEF IsVertex
<1>5. DOMAIN old = 1..Len(old) /\ Len(old) \in Nat
  BY <1>4, ListParts
<1> HIDE DEF More, w
<1>6. DOMAIN new = DOMAIN old /\ \A k \in DOMAIN old : new[k] = More(old[k])
  OBVIOUS
<1>7. IsList(new)
  <2>1. new = [k \in 1..Len(old) |-> new[k]]
    BY <1>5
  <2> HIDE DEF new
  <2> QED BY <1>5, <2>1, ListIs
<1> HIDE DEF new, old
<1>8. \A k \in DOMAIN new : IsProperty(new[k]) /\ GrownProperty(old[k], new[k])
  BY <1>3, <1>4, <1>6
<1>9. IsVertex(w)
  BY <1>2, <1>7, <1>8 DEF IsVertex, Regardless
<1>10. Grown(v, w)
  BY <1>2, <1>6, <1>8 DEF Grown, old
<1>11. HasRepeatedProperty(w) => HasRepeatedProperty(v)
  <2>1. \A k \in DOMAIN new : new[k].field = old[k].field
    BY <1>8 DEF GrownProperty
  <2>2. w.properties = new /\ v.properties = old
    BY <1>2 DEF old
  <2> QED BY <1>6, <2>1, <2>2 DEF HasRepeatedProperty
<1>12. FieldsOf(w) = FieldsOf(v)
  <2>1. \A k \in DOMAIN new : new[k].field = old[k].field
    BY <1>8 DEF GrownProperty
  <2>2. w.properties = new /\ v.properties = old
    BY <1>2 DEF old
  <2> QED BY <1>6, <2>1, <2>2 DEF FieldsOf
<1> QED BY <1>1, <1>2, <1>9, <1>10, <1>11, <1>12

-----------------------------------------------------------------------------
(* Steps of the splitting *)

LEMMA TypesStay ==
    ASSUME UNCHANGED merge_vars
    PROVE  \A vs, i : /\ TypesOf(vs)' = TypesOf(vs)
                      /\ IsCrossSchema(vs, i)' = IsCrossSchema(vs, i)
<1>1. definitions' = definitions
  BY DEF merge_vars
<1>2. \A t, f : FieldType(t, f)' = FieldType(t, f) /\ StitchOf(t, f)' = StitchOf(t, f)
  BY <1>1 DEF FieldType, StitchOf, FieldsNamed
<1>3. \A vs : DeclaredTypes(vs)' = DeclaredTypes(vs)
  BY <1>2 DEF DeclaredTypes
<1>4. \A vs : TypesOf(vs)' = TypesOf(vs)
  BY <1>3 DEF TypesOf
<1>5. \A vs, i : IsCrossSchema(vs, i)' = IsCrossSchema(vs, i)
  BY <1>2, <1>4 DEF IsCrossSchema
<1> QED BY <1>4, <1>5

LEMMA StitchesStay ==
    ASSUME UNCHANGED <<merge_vars, query>>
    PROVE  \A i : StitchedField(i)' = StitchedField(i)
<1>1. \A t, f : Stitch1(t, f)' = Stitch1(t, f)
  BY DEF Stitch1, StitchOf, FieldsNamed, merge_vars
<1>2. \A vs : TypesOf(vs)' = TypesOf(vs)
  BY TypesStay
<1> QED BY <1>1, <1>2 DEF StitchedField

LEMMA Numbers ==
    ASSUME VerticesInv
    PROVE  /\ Len(query) \in Nat /\ DOMAIN query = 1..Len(query) /\ DOMAIN vertices = DOMAIN query
           /\ DOMAIN query \in SUBSET Nat
           /\ \A i \in DOMAIN query :
                 query[i].parent \in 0..(i - 1) /\ (query[i].parent # 0 => query[i].parent \in DOMAIN query)
<1>1. IsList(query) /\ IsList(vertices) /\ Len(vertices) = Len(query)
  BY DEF VerticesInv, IsTree
<1>2. Len(query) \in Nat /\ DOMAIN query = 1..Len(query) /\ DOMAIN vertices = 1..Len(query)
  BY <1>1, ListParts
<1>3. \A i \in DOMAIN query : query[i].parent \in 0..(i - 1)
  BY DEF VerticesInv, IsTree
<1>4. ASSUME NEW i \in DOMAIN query, query[i].parent # 0 PROVE query[i].parent \in DOMAIN query
  <2> DEFINE p == query[i].parent
  <2>1. p \in 0..(i - 1) /\ p # 0 /\ i \in 1..Len(query)
    BY <1>2, <1>3, <1>4
  <2> HIDE DEF p
  <2>2. p \in 1..Len(query)
    BY <1>2, <2>1
  <2> QED BY <1>2, <2>2 DEF p
<1> QED BY <1>2, <1>3, <1>4

LEMMA TypesOfVertices ==
    ASSUME VerticesInv
    PROVE  IsForest(vertices) /\ TypesOf(vertices) = TypesOf(query)
<1>1. IsForest(query)
  BY DEF VerticesInv, IsTree, IsForest
<1>2. \A i \in DOMAIN query :
         \/ vertices[i].parent = query[i].parent /\ vertices[i].edge = query[i].edge
               /\ vertices[i].coerced_to = query[i].coerced_to
         \/ IsRoot(vertices[i], TypesOf(query)[i])
  BY DEF VerticesInv, IsUncut, IsCut
<1>3. IsList(vertices) /\ Len(vertices) = Len(query)
  BY DEF VerticesInv
<1> QED BY <1>1, <1>2, <1>3, CuttingKeepsTypes

LEMMA CrossesAsInTheQuery ==
    ASSUME VerticesInv, NEW i \in DOMAIN query, vertices[i].parent # 0
    PROVE  /\ IsUncut(vertices[i], query[i])
           /\ IsCrossSchema(vertices, i) <=> IsCrossSchema(query, i)
<1>1. IsUncut(vertices[i], query[i])
  BY DEF VerticesInv, IsCut, IsRoot
<1>2. TypesOf(vertices) = TypesOf(query)
  BY TypesOfVertices
<1> QED BY <1>1, <1>2 DEF IsCrossSchema, IsUncut

(* A step that lets vertices grow, and cuts some of them off.                 *)
LEMMA VerticesGo ==
    ASSUME VerticesInv, UNCHANGED <<merge_vars, query>>,
           IsList(vertices'), Len(vertices') = Len(vertices),
           \A i \in DOMAIN query :
              /\ IsVertex(vertices'[i]) /\ Grown(vertices[i], vertices'[i])
              /\ Regardless(vertices[i], vertices'[i]) \/ IsCut(i)'
    PROVE  VerticesInv'
<1>1. IsTree(query)' /\ IsList(vertices)' /\ (Len(vertices) = Len(query))'
  BY DEF VerticesInv
<1>2. ASSUME NEW i \in DOMAIN query
      PROVE  /\ IsVertex(vertices'[i]) /\ Grown(query[i], vertices'[i])
             /\ IsUncut(vertices'[i], query[i]) \/ IsCut(i)'
  <2>1. IsVertex(query[i]) /\ IsVertex(vertices[i]) /\ IsVertex(vertices'[i])
    BY DEF VerticesInv, IsTree
  <2>2. Grown(query[i], vertices'[i])
    <3>1. Grown(query[i], vertices[i]) /\ Grown(vertices[i], vertices'[i])
      BY DEF VerticesInv
    <3> QED BY <2>1, <3>1, VertexGrows
  <2>3. CASE IsCut(i)'
    BY <2>1, <2>2, <2>3
  <2>4. CASE Regardless(vertices[i], vertices'[i]) /\ IsUncut(vertices[i], query[i])
    BY <2>1, <2>2, <2>4 DEF Regardless, IsUncut
  <2>5. CASE Regardless(vertices[i], vertices'[i]) /\ IsCut(i)
    <3> DEFINE p == query[i].parent
    <3>1. IsCrossSchema(query, i) /\ p \in DOMAIN query
      BY <2>5, Numbers DEF IsCut, IsCrossSchema
    <3>2. IsVertex(vertices[p]) /\ IsVertex(vertices'[p]) /\ Grown(vertices[p], vertices'[p])
      BY <3>1 DEF VerticesInv
    <3>3. Asks(vertices'[p], StitchedField(i), query[i])
      BY <2>5, <3>2, AskedStays DEF IsCut
    <3>4. IsRoot(vertices'[i], TypesOf(query)[i])
      BY <2>5 DEF IsCut, IsRoot, Regardless
    <3>5. TypesOf(query)' = TypesOf(query) /\ IsCrossSchema(query, i)' /\ StitchedField(i)' = StitchedField(i)
      <4>1. query' = query /\ \A vs, j : TypesOf(vs)' = TypesOf(vs)
                                /\ IsCrossSchema(vs, j)' = IsCrossSchema(vs, j)
        BY TypesStay
      <4> QED BY <3>1, <4>1, StitchesStay
    <3>6. IsCut(i)'
      BY <3>1, <3>3, <3>4, <3>5 DEF IsCut
    <3> QED BY <2>1, <2>2, <3>6
  <2>6. (IsUncut(vertices[i], query[i]) \/ IsCut(i)) /\ (Regardless(vertices[i], vertices'[i]) \/ IsCut(i)')
    BY DEF VerticesInv
  <2> QED BY <2>3, <2>4, <2>5, <2>6
<1>3. \A i \in (DOMAIN query)' :
         (/\ IsVertex(vertices[i]) /\ Grown(query[i], vertices[i])
          /\ IsUncut(vertices[i], query[i]) \/ IsCut(i))'
  <2>1. query' = query
    OBVIOUS
  <2> QED BY <1>2, <2>1
<1> QED BY <1>1, <1>3 DEF VerticesInv

LEMMA UnsplitIs ==
    ASSUME VerticesInv, QueueInv, Splitting, selections # {}
    PROVE  Unsplit \in selections /\ Unsplit \in DOMAIN query
<1>1. selections \in SUBSET Nat /\ selections \subseteq DOMAIN query
  BY Numbers DEF QueueInv
<1> QED BY <1>1, MinIs DEF Unsplit

LEMMA RecurseStep ==
    ASSUME VerticesInv, NodesInv, QueueInv, NEW H, HaveBeenSplit(H), RecurseOnIntraSchemaFields
    PROVE  /\ VerticesInv' /\ NodesInv' /\ QueueInv'
           /\ \E G \in SUBSET DOMAIN query : HaveBeenSplit(G)'
<1> PICK s : s = Unsplit
  OBVIOUS
<1>1. /\ Splitting /\ selections # {} /\ ~HasRepeatedProperty(vertices[s]) /\ CrossSchemaFields = {}
      /\ selections' = (selections \ {s}) \cup ChildrenOf(vertices, s)
      /\ UNCHANGED <<merge_vars, query, vertices, nodes, query_nodes_to_split, split_outcome>>
  BY DEF RecurseOnIntraSchemaFields
<1>2. s \in selections /\ s \in DOMAIN query
  BY <1>1, UnsplitIs
<1>3. VerticesInv'
  <2>1. IsList(vertices') /\ Len(vertices') = Len(vertices) /\ \A i \in DOMAIN query : vertices'[i] = vertices[i]
    BY <1>1 DEF VerticesInv
  <2>2. \A i \in DOMAIN query : IsVertex(vertices'[i]) /\ Grown(vertices[i], vertices'[i])
                                  /\ Regardless(vertices[i], vertices'[i])
    BY <2>1, VertexGrows DEF VerticesInv, Regardless
  <2> QED BY <1>1, <2>1, <2>2, VerticesGo
<1>4. NodesInv'
  BY <1>1 DEF NodesInv
<1>5. ChildrenOf(vertices, s) \subseteq DOMAIN query
  BY Numbers DEF ChildrenOf
<1>6. QueueInv'
  BY <1>1, <1>5 DEF QueueInv, Splitting
<1> DEFINE G == H \cup {s}
<1>7. H \subseteq DOMAIN query /\ G \in SUBSET DOMAIN query
  BY <1>2 DEF HaveBeenSplit
<1>8. ASSUME NEW i \in DOMAIN query, IsCrossSchema(query, i), query[i].parent \in G
      PROVE  vertices[i].parent = 0
  <2>1. CASE query[i].parent \in H
    BY <1>8, <2>1 DEF HaveBeenSplit
  <2>2. CASE query[i].parent = s
    <3> SUFFICES ASSUME vertices[i].parent # 0 PROVE FALSE
      OBVIOUS
    <3>1. IsUncut(vertices[i], query[i]) /\ IsCrossSchema(vertices, i)
      BY <1>8, CrossesAsInTheQuery
    <3>2. i \in ChildrenOf(vertices, s)
      BY <2>2, <3>1, Numbers DEF ChildrenOf, IsUncut
    <3>3. i \in CrossSchemaFields
      BY <3>1, <3>2 DEF CrossSchemaFields
    <3> QED BY <1>1, <3>3
  <2> QED BY <1>8, <2>1, <2>2
<1>9. \A i \in G : ~HasRepeatedProperty(vertices[i])
  BY <1>1 DEF HaveBeenSplit
<1>10. Due \ {s} \subseteq Due' /\ ChildrenOf(vertices, s) \subseteq Due'
  <2>1. Splitting' /\ CurrentNode' = CurrentNode
    BY <1>1 DEF Splitting, CurrentNode
  <2> DEFINE rest == RootsOf(ToSet(Front(query_nodes_to_split))) \cup RootsOf(SinksOf(nodes[CurrentNode]))
  <2>2. Due = selections \cup rest /\ Due' = selections' \cup rest'
    BY <1>1, <2>1, Zenon DEF Due
  <2>3. rest' = rest
    BY <1>1, <2>1 DEF RootsOf
  <2> HIDE DEF rest
  <2> QED BY <1>1, <2>2, <2>3
<1>11. ASSUME NEW i \in DOMAIN query \ G
       PROVE  i \in Due' \/ (vertices[i].parent # 0 /\ vertices[i].parent \notin G)
  <2>1. i # s /\ (i \in Due \/ (vertices[i].parent # 0 /\ vertices[i].parent \notin H))
    BY DEF HaveBeenSplit
  <2>2. CASE i \in Due
    BY <1>10, <2>1, <2>2
  <2>3. CASE vertices[i].parent = s
    BY <1>10, <2>3, Numbers DEF ChildrenOf
  <2>4. CASE vertices[i].parent # 0 /\ vertices[i].parent \notin H /\ vertices[i].parent # s
    BY <2>4
  <2> QED BY <2>1, <2>2, <2>3, <2>4
<1>12. HaveBeenSplit(G)'
  <2> HIDE DEF G
  <2>1. query' = query /\ vertices' = vertices
    BY <1>1
  <2>2. \A i : IsCrossSchema(query, i)' = IsCrossSchema(query, i)
    BY <1>1, TypesStay
  <2>3. \A i \in DOMAIN query' : IsCrossSchema(query, i)' /\ query'[i].parent \in G => vertices'[i].parent = 0
    BY <1>8, <2>1, <2>2
  <2>4. \A i \in G : ~HasRepeatedProperty(vertices'[i])
    BY <1>9, <2>1
  <2>5. \A i \in DOMAIN query' \ G :
           i \in Due' \/ (vertices'[i].parent # 0 /\ vertices'[i].parent \notin G)
    BY <1>11, <2>1
  <2>6. nodes'[CurrentNode'].root \in G \cup selections'
    <3>1. nodes'[CurrentNode'].root = nodes[CurrentNode].root
      BY <1>1 DEF CurrentNode
    <3>2. nodes[CurrentNode].root \in H \cup selections
      BY <1>1 DEF HaveBeenSplit
    <3> QED BY <1>1, <3>1, <3>2 DEF G
  <2> QED BY <1>7, <2>1, <2>3, <2>4, <2>5, <2>6 DEF HaveBeenSplit
<1> QED BY <1>3, <1>4, <1>6, <1>7, <1>12

CutOff(w, t) ==
    [w EXCEPT !.parent = 0, !.edge = t, !.coerced_to = NULL, !.filters = <<>>, !.directives = {}]

LEMMA CutOffIs ==
    ASSUME NEW w, IsVertex(w), NEW t
    PROVE  /\ IsVertex(CutOff(w, t)) /\ IsRoot(CutOff(w, t), t)
           /\ CutOff(w, t).properties = w.properties
<1> DEFINE u == CutOff(w, t)
<1>1. w = [parent |-> w.parent, edge |-> w.edge, coerced_to |-> w.coerced_to,
           directives |-> w.directives, filters |-> w.filters, properties |-> w.properties]
  BY DEF IsVertex
<1> DEFINE e == << >>
<1>2. IsList(e)
  BY EmptyList
<1>3. u = [w EXCEPT !.parent = 0, !.edge = t, !.coerced_to = NULL, !.filters = e, !.directives = {}]
  BY DEF CutOff
<1> HIDE DEF u, e
<1>4. u = [parent |-> 0, edge |-> t, coerced_to |-> NULL, directives |-> {}, filters |-> e,
           properties |-> w.properties]
  BY <1>1, <1>3
<1>5. u.properties = w.properties /\ u.filters = e /\ IsRoot(u, t)
  BY <1>4 DEF IsRoot
<1>6. u = [parent |-> u.parent, edge |-> u.edge, coerced_to |-> u.coerced_to,
           directives |-> u.directives, filters |-> u.filters, properties |-> u.properties]
  BY <1>4
<1>7. IsVertex(u)
  BY <1>2, <1>5, <1>6 DEF IsVertex
<1> QED BY <1>5, <1>7 DEF u

IsSubQueryNode(n) ==
    n = [root |-> n.root, schema_id |-> n.schema_id,
         parent_query_connection |-> n.parent_query_connection,
         child_query_connections |-> n.child_query_connections]

(* A node that is added below another.                                        *)
Under(ns, c, j, a, b, x) ==
    Append([ns EXCEPT ![c].child_query_connections = Append(@, Connection(Len(ns) + 1, a, b))],
           [NewNode(j) EXCEPT !.parent_query_connection = x])

LEMMA NodeAdded ==
    ASSUME NodesInv, NEW c \in DOMAIN nodes, NEW j \in DOMAIN query, NEW a, NEW b, NEW x,
           query' = query, nodes' = Under(nodes, c, j, a, b, x)
    PROVE  /\ NodesInv' /\ DOMAIN nodes \subseteq DOMAIN nodes'
           /\ \A n \in DOMAIN nodes : nodes'[n].root = nodes[n].root /\ SinksOf(nodes[n]) \subseteq SinksOf(nodes'[n])
           /\ \E n \in SinksOf(nodes'[c]) : nodes'[n].root = j
           /\ \A n \in DOMAIN nodes : nodes'[n].schema_id = nodes[n].schema_id
           /\ \A n \in DOMAIN nodes' \ DOMAIN nodes : n \in SinksOf(nodes'[c]) /\ nodes'[n].root = j
<1> DEFINE m == Len(nodes)
           old == nodes[c].child_query_connections
           to == Connection(m + 1, a, b)
           more == Append(old, to)
           new == [NewNode(j) EXCEPT !.parent_query_connection = x]
           changed == [nodes[c] EXCEPT !.child_query_connections = more]
           kept == [nodes EXCEPT ![c] = changed]
<1>1. IsList(nodes) /\ m \in Nat /\ DOMAIN nodes = 1..m /\ nodes = [n \in 1..m |-> nodes[n]]
  BY ListParts DEF NodesInv
<1>2. \A n \in DOMAIN nodes :
         /\ IsSubQueryNode(nodes[n]) /\ nodes[n].root \in DOMAIN query
         /\ IsList(nodes[n].child_query_connections)
         /\ \A k \in DOMAIN nodes[n].child_query_connections :
               nodes[n].child_query_connections[k].sink_query_node \in DOMAIN nodes
  BY DEF NodesInv, IsSubQueryNode
<1>3. nodes' = Append(kept, new)
  BY DEF Under
<1>4. new = [root |-> j, schema_id |-> NULL, parent_query_connection |-> x, child_query_connections |-> <<>>]
  BY DEF NewNode
<1>5. to.sink_query_node = m + 1
  BY DEF Connection
<1> HIDE DEF to, new, m, kept
<1>6. /\ IsList(more) /\ DOMAIN old = 1..Len(old) /\ Len(old) \in Nat
      /\ DOMAIN more = 1..(Len(old) + 1) /\ more[Len(old) + 1] = to
      /\ \A k \in 1..Len(old) : more[k] = old[k]
  BY <1>2, ListAppend, ListParts
<1> HIDE DEF more
<1>7. changed = [root |-> nodes[c].root, schema_id |-> nodes[c].schema_id,
                 parent_query_connection |-> nodes[c].parent_query_connection,
                 child_query_connections |-> more]
  <2>1. IsSubQueryNode(nodes[c])
    BY <1>2
  <2> DEFINE o == nodes[c]
  <2> HIDE DEF o
  <2>2. IsSubQueryNode(o) => [o EXCEPT !.child_query_connections = more] =
           [root |-> o.root, schema_id |-> o.schema_id,
            parent_query_connection |-> o.parent_query_connection,
            child_query_connections |-> more]
    BY DEF IsSubQueryNode
  <2> QED BY <2>1, <2>2 DEF o
<1> HIDE DEF changed, old
<1>8. IsList(kept) /\ Len(kept) = m /\ \A n \in 1..m : kept[n] = IF n = c THEN changed ELSE nodes[n]
  <2>1. kept = [n \in 1..m |-> IF n = c THEN changed ELSE nodes[n]]
    BY <1>1 DEF kept
  <2>2. kept = [n \in 1..m |-> kept[n]]
    BY <2>1
  <2>3. IsList(kept) /\ Len(kept) = m
    BY <1>1, <2>2, ListIs
  <2> QED BY <2>1, <2>3
<1>9. /\ IsList(nodes') /\ DOMAIN nodes' = 1..(m + 1) /\ nodes'[m + 1] = new
      /\ \A n \in 1..m : nodes'[n] = IF n = c THEN changed ELSE nodes[n]
  BY <1>3, <1>8, ListAppend
<1>10. \A n \in 1..(m + 1) : n \in 1..m \/ n = m + 1
  BY <1>1
<1>19. DOMAIN nodes \subseteq DOMAIN nodes' /\ m + 1 \in DOMAIN nodes'
  <2>1. 1..m \subseteq 1..(m + 1) /\ m + 1 \in 1..(m + 1)
    BY <1>1
  <2>2. DOMAIN nodes' = 1..(m + 1) /\ DOMAIN nodes = 1..m
    BY <1>1, <1>9
  <2> QED BY <2>1, <2>2, Zenon
<1>11. SinksOf(changed) = SinksOf(nodes[c]) \cup {m + 1}
  <2>1. changed.child_query_connections = more /\ nodes[c].child_query_connections = old
    BY <1>7 DEF old
  <2>2. \A k \in DOMAIN more : k \in DOMAIN old \/ k = Len(old) + 1
    BY <1>6
  <2>3. \A k \in DOMAIN old : k \in DOMAIN more /\ more[k] = old[k]
    BY <1>6
  <2>4. Len(old) + 1 \in DOMAIN more
    BY <1>6
  <2> QED BY <1>5, <1>6, <2>1, <2>2, <2>3, <2>4 DEF SinksOf
<1>12. \A n \in DOMAIN nodes : nodes'[n].root = nodes[n].root /\ SinksOf(nodes[n]) \subseteq SinksOf(nodes'[n])
  <2>1. changed.root = nodes[c].root
    BY <1>7
  <2> QED BY <1>1, <1>9, <1>11, <2>1
<1>13. m + 1 \in SinksOf(nodes'[c]) /\ nodes'[m + 1].root = j
  BY <1>1, <1>4, <1>9, <1>11
<1>14. ASSUME NEW n \in 1..m PROVE IsSubQueryNode(nodes'[n]) /\ IsList(nodes'[n].child_query_connections)
  <2>1. IsSubQueryNode(changed) /\ IsList(changed.child_query_connections)
    BY <1>6, <1>7 DEF IsSubQueryNode
  <2>2. n = c => nodes'[n] = changed
    BY <1>9
  <2>3. n # c => nodes'[n] = nodes[n] /\ n \in DOMAIN nodes
    BY <1>1, <1>9
  <2> QED BY <1>2, <2>1, <2>2, <2>3, Zenon
<1>15. IsSubQueryNode(nodes'[m + 1]) /\ IsList(nodes'[m + 1].child_query_connections)
  BY <1>4, <1>9, EmptyList DEF IsSubQueryNode
<1>16. \A n \in DOMAIN nodes : SinksOf(nodes[n]) \subseteq DOMAIN nodes
  BY <1>2 DEF SinksOf
<1>17. \A n \in DOMAIN nodes' : SinksOf(nodes'[n]) \subseteq DOMAIN nodes'
  <2>1. SinksOf(new) = {}
    <3>1. DOMAIN << >> = {}
      BY EmptyList, ListParts
    <3> QED BY <1>4, <3>1 DEF SinksOf
  <2> QED BY <1>1, <1>9, <1>10, <1>11, <1>16, <1>19, <2>1
<1>18. NodesInv'
  <2>1. ASSUME NEW n \in DOMAIN nodes'
        PROVE  /\ IsSubQueryNode(nodes'[n]) /\ nodes'[n].root \in DOMAIN query'
               /\ IsList(nodes'[n].child_query_connections)
               /\ \A k \in DOMAIN nodes'[n].child_query_connections :
                     nodes'[n].child_query_connections[k].sink_query_node \in DOMAIN nodes'
    <3>1. nodes'[n].root \in DOMAIN query'
      BY <1>1, <1>2, <1>9, <1>10, <1>12, <1>13
    <3>2. IsSubQueryNode(nodes'[n]) /\ IsList(nodes'[n].child_query_connections)
      BY <1>9, <1>10, <1>14, <1>15
    <3> QED BY <1>17, <3>1, <3>2 DEF SinksOf
  <2> QED BY <1>9, <2>1 DEF NodesInv, IsSubQueryNode
<1>20. \A n \in DOMAIN nodes : nodes'[n].schema_id = nodes[n].schema_id
  <2>1. changed.schema_id = nodes[c].schema_id
    BY <1>7
  <2> QED BY <1>1, <1>9, <2>1
<1>21. \A n \in DOMAIN nodes' \ DOMAIN nodes : n \in SinksOf(nodes'[c]) /\ nodes'[n].root = j
  BY <1>1, <1>9, <1>10, <1>13
<1> QED BY <1>12, <1>13, <1>18, <1>19, <1>20, <1>21, Zenon

(* Nodes whose selections have not been split, or are being split.            *)
Pending == IF Splitting THEN ToSet(query_nodes_to_split) \cup SinksOf(nodes[CurrentNode]) ELSE {}

(* The fields that are asked for on both sides of an edge where it is cut.    *)
StitchOn(j) == CHOOSE s \in StitchOf(TypesOf(query)[query[j].parent], query[j].edge) : TRUE
AskedWhereCut(i, j) ==
    (IF i = query[j].parent THEN {StitchOn(j)[1]} ELSE {}) \cup (IF i = j THEN {StitchOn(j)[2]} ELSE {})

(* The branch at j is cut off and becomes the only new node.                  *)
CutsOff(j) ==
    /\ IsCrossSchema(query, j) /\ vertices'[j].parent = 0
    /\ \A i \in DOMAIN query :
          /\ vertices[i].parent = 0 => vertices'[i].parent = 0
          /\ FieldsOf(vertices'[i]) \subseteq FieldsOf(vertices[i]) \cup AskedWhereCut(i, j)
    /\ \A n \in DOMAIN nodes' \ DOMAIN nodes : nodes'[n].root = j /\ n \in Pending'
    /\ \A n \in DOMAIN nodes :
          nodes'[n].root = nodes[n].root /\ nodes'[n].schema_id = nodes[n].schema_id
    /\ Pending \subseteq Pending'

(* What processing a cross-schema field does, as far as it matters here.      *)
LEMMA ProcessMeans ==
    ASSUME ProcessCrossSchemaField
    PROVE  LET s == Unsplit
               j == Min(CrossSchemaFields)
               stitch == CHOOSE x \in StitchOf(TypesOf(vertices)[s], vertices[j].edge) : TRUE
           IN  /\ Splitting /\ selections # {} /\ CrossSchemaFields # {}
               /\ ~HasRepeatedProperty(vertices[s]) /\ ~HasRepeatedProperty(vertices[j])
               /\ UNCHANGED <<merge_vars, query, query_nodes_to_split, selections, split_outcome>>
               /\ \E count, other :
                     vertices' = [vertices EXCEPT
                        ![s] = WithProperty(vertices[s], WithOutput(PropertyField(vertices[s], stitch[1],
                                                                                  vertices[j]), count)),
                        ![j] = CutOff(WithProperty(vertices[j], WithOutput(PropertyField(vertices[j], stitch[2],
                                                                                         NoDirectives), other)),
                                      TypesOf(vertices)[j])]
               /\ \E a, b, x : nodes' = Under(nodes, CurrentNode, j, a, b, x)
  BY Zenon DEF ProcessCrossSchemaField, CutOff, Under, RootOfBranch

LEMMA ProcessStep ==
    ASSUME VerticesInv, NodesInv, QueueInv, NEW H, HaveBeenSplit(H), ProcessCrossSchemaField
    PROVE  /\ VerticesInv' /\ NodesInv' /\ QueueInv'
           /\ \E G \in SUBSET DOMAIN query : HaveBeenSplit(G)'
           /\ \E j \in DOMAIN query : CutsOff(j)
<1> PICK s, j : s = Unsplit /\ j = Min(CrossSchemaFields)
  OBVIOUS
<1> DEFINE stitch == CHOOSE x \in StitchOf(TypesOf(vertices)[s], vertices[j].edge) : TRUE
           edge == vertices[j]
           type == TypesOf(vertices)[j]
<1>1. /\ Splitting /\ selections # {} /\ CrossSchemaFields # {}
      /\ ~HasRepeatedProperty(vertices[s]) /\ ~HasRepeatedProperty(edge)
      /\ UNCHANGED <<merge_vars, query, query_nodes_to_split, selections, split_outcome>>
  BY ProcessMeans, Zenon
<1>2. PICK count, other :
         vertices' = [vertices EXCEPT
            ![s] = WithProperty(vertices[s], WithOutput(PropertyField(vertices[s], stitch[1], edge), count)),
            ![j] = CutOff(WithProperty(edge, WithOutput(PropertyField(edge, stitch[2], NoDirectives), other)),
                          type)]
  BY ProcessMeans, Zenon
<1>3. PICK a, b, x : nodes' = Under(nodes, CurrentNode, j, a, b, x)
  BY ProcessMeans, Zenon
<1> DEFINE sp == WithOutput(PropertyField(vertices[s], stitch[1], edge), count)
           jp == WithOutput(PropertyField(edge, stitch[2], NoDirectives), other)
           source == WithProperty(vertices[s], sp)
           uncut == WithProperty(edge, jp)
           sink == CutOff(uncut, type)
<1>4. s \in selections /\ s \in DOMAIN query
  BY <1>1, UnsplitIs
<1>5. j \in DOMAIN query /\ vertices[j].parent = s /\ IsCrossSchema(vertices, j)
  <2>1. CrossSchemaFields \in SUBSET Nat
    BY Numbers DEF CrossSchemaFields, ChildrenOf
  <2>2. j \in CrossSchemaFields
    BY <1>1, <2>1, MinIs
  <2> QED BY <2>2, Numbers DEF CrossSchemaFields, ChildrenOf
<1>6. /\ IsUncut(vertices[j], query[j]) /\ IsCrossSchema(query, j) /\ query[j].parent = s
      /\ s \in Nat \ {0} /\ s # j
  <2>1. s # 0 /\ s \in Nat /\ j \in Nat
    BY <1>4, <1>5, Numbers
  <2>2. IsUncut(vertices[j], query[j]) /\ IsCrossSchema(query, j)
    BY <1>5, <2>1, CrossesAsInTheQuery
  <2>3. query[j].parent = s /\ query[j].parent \in 0..(j - 1)
    BY <1>5, <2>2, Numbers DEF IsUncut
  <2> QED BY <2>1, <2>2, <2>3
<1>7. TypesOf(vertices) = TypesOf(query)
  BY TypesOfVertices
<1>8. DOMAIN vertices = DOMAIN query /\ IsVertex(vertices[s]) /\ IsVertex(edge)
  BY <1>4, <1>5, Numbers DEF VerticesInv
<1>9. stitch = StitchOn(j) /\ stitch[1] = StitchedField(j)
  BY <1>6, <1>7 DEF StitchOn, StitchedField, Stitch1, IsUncut
<1>10. vertices' = [vertices EXCEPT ![s] = source, ![j] = sink]
  BY <1>2, Zenon
<1> HIDE DEF stitch, type, sp, jp, source, uncut, sink
<1>11. /\ DOMAIN vertices' = DOMAIN query /\ vertices'[s] = source /\ vertices'[j] = sink
       /\ \A i \in DOMAIN query : i # s /\ i # j => vertices'[i] = vertices[i]
  <2> HIDE DEF edge
  <2> QED BY <1>4, <1>5, <1>6, <1>8, <1>10
<1>12. IsList(edge.filters) /\ IsList(NoDirectives.filters)
  BY <1>8, EmptyList DEF IsVertex, NoDirectives
<1>13. /\ IsProperty(sp) /\ (Has(vertices[s], sp.field) => GrownProperty(PropertyOf(vertices[s], sp.field), sp))
       /\ AsksFor(sp, stitch[1], edge) /\ sp.field = stitch[1]
  BY <1>1, <1>8, <1>12, PropertyAsked DEF sp
<1>14. /\ IsProperty(jp) /\ (Has(edge, jp.field) => GrownProperty(PropertyOf(edge, jp.field), jp))
       /\ jp.field = stitch[2]
  BY <1>1, <1>8, <1>12, PropertyAsked DEF jp
<1> HIDE DEF edge
<1>15. /\ IsVertex(source) /\ Grown(vertices[s], source) /\ ~HasRepeatedProperty(source)
       /\ Regardless(vertices[s], source) /\ \E k \in DOMAIN source.properties : source.properties[k] = sp
       /\ FieldsOf(source) \subseteq FieldsOf(vertices[s]) \cup {stitch[1]}
  BY <1>1, <1>8, <1>13, WithPropertyIs DEF source
<1>16. /\ IsVertex(uncut) /\ Grown(edge, uncut) /\ ~HasRepeatedProperty(uncut)
       /\ FieldsOf(uncut) \subseteq FieldsOf(edge) \cup {stitch[2]}
  BY <1>1, <1>8, <1>14, WithPropertyIs DEF uncut
<1>17. IsVertex(sink) /\ IsRoot(sink, type) /\ sink.properties = uncut.properties
  BY <1>16, CutOffIs DEF sink
<1>18. Grown(edge, sink) /\ ~HasRepeatedProperty(sink)
  BY <1>16, <1>17 DEF Grown, HasRepeatedProperty
<1>19. IsCut(j)'
  <2>1. Asks(source, StitchedField(j), query[j])
    <3>1. edge.filters = query[j].filters /\ edge.directives = query[j].directives
      BY <1>6 DEF IsUncut, edge
    <3>2. AsksFor(sp, StitchedField(j), query[j])
      BY <1>9, <1>13, <3>1 DEF AsksFor
    <3> QED BY <1>15, <3>2 DEF Asks
  <2>2. \A vs, i : /\ TypesOf(vs)' = TypesOf(vs) /\ IsCrossSchema(vs, i)' = IsCrossSchema(vs, i)
                   /\ StitchedField(i)' = StitchedField(i)
    BY <1>1, TypesStay, StitchesStay
  <2>3. IsRoot(vertices'[j], TypesOf(query)[j])
    BY <1>7, <1>11, <1>17 DEF type
  <2>4. Asks(vertices'[query[j].parent], StitchedField(j), query[j])
    BY <1>6, <1>11, <2>1
  <2>5. query' = query
    BY <1>1
  <2> QED BY <1>6, <2>2, <2>3, <2>4, <2>5 DEF IsCut
<1>20. VerticesInv'
  <2>1. IsList(vertices') /\ Len(vertices') = Len(vertices)
    <3> DEFINE n == Len(query)
    <3>1. n \in Nat /\ DOMAIN query = 1..n /\ Len(vertices) = n
      BY Numbers DEF VerticesInv
    <3>2. vertices' = [i \in DOMAIN vertices' |-> vertices'[i]]
      BY <1>10
    <3>3. vertices' = [i \in 1..n |-> vertices'[i]]
      BY <1>11, <3>1, <3>2
    <3> HIDE DEF n
    <3>4. IsList(vertices') /\ Len(vertices') = n
      BY <3>1, <3>3, ListIs
    <3> QED BY <3>1, <3>4
  <2>2. ASSUME NEW i \in DOMAIN query
        PROVE  /\ IsVertex(vertices'[i]) /\ Grown(vertices[i], vertices'[i])
               /\ Regardless(vertices[i], vertices'[i]) \/ IsCut(i)'
    <3>1. CASE i = s
      BY <3>1, <1>11, <1>15
    <3>2. CASE i = j
      BY <3>2, <1>11, <1>17, <1>18, <1>19 DEF edge
    <3>3. CASE i # s /\ i # j
      <4>1. IsVertex(vertices[i])
        BY DEF VerticesInv
      <4>2. Grown(vertices[i], vertices[i]) /\ Regardless(vertices[i], vertices[i])
        BY <4>1, VertexGrows DEF Regardless
      <4> QED BY <3>3, <1>11, <4>1, <4>2
    <3> QED BY <3>1, <3>2, <3>3
  <2> QED BY <1>1, <2>1, <2>2, VerticesGo
<1>21. CurrentNode \in DOMAIN nodes
  <2>1. IsList(query_nodes_to_split) /\ query_nodes_to_split # <<>>
        /\ ToSet(query_nodes_to_split) \subseteq DOMAIN nodes
    BY <1>1 DEF QueueInv
  <2>2. Len(query_nodes_to_split) \in DOMAIN query_nodes_to_split
    BY <2>1, ListParts
  <2> QED BY <2>1, <2>2 DEF CurrentNode, Last, ToSet
<1>22. /\ NodesInv' /\ DOMAIN nodes \subseteq DOMAIN nodes'
       /\ \A n \in DOMAIN nodes :
             nodes'[n].root = nodes[n].root /\ SinksOf(nodes[n]) \subseteq SinksOf(nodes'[n])
       /\ \E n \in SinksOf(nodes'[CurrentNode]) : nodes'[n].root = j
       /\ \A n \in DOMAIN nodes : nodes'[n].schema_id = nodes[n].schema_id
       /\ \A n \in DOMAIN nodes' \ DOMAIN nodes :
             n \in SinksOf(nodes'[CurrentNode]) /\ nodes'[n].root = j
  <2> PICK c : c = CurrentNode
    OBVIOUS
  <2>1. nodes' = Under(nodes, c, j, a, b, x) /\ c \in DOMAIN nodes /\ query' = query
    BY <1>1, <1>3, <1>21
  <2> QED BY <1>5, <2>1, NodeAdded
<1>23. QueueInv'
  BY <1>1, <1>22 DEF QueueInv, Splitting
<1>24. Due \subseteq Due' /\ j \in Due'
  <2>1. Splitting' /\ CurrentNode' = CurrentNode
    BY <1>1 DEF Splitting, CurrentNode
  <2> DEFINE q == query_nodes_to_split
  <2>2. /\ Due = selections \cup RootsOf(ToSet(Front(q))) \cup RootsOf(SinksOf(nodes[CurrentNode]))
        /\ Due' = selections' \cup RootsOf(ToSet(Front(q)))' \cup RootsOf(SinksOf(nodes[CurrentNode]))'
    BY <1>1, <2>1, Zenon DEF Due
  <2>3. ToSet(Front(q)) \subseteq DOMAIN nodes
    <3>1. IsList(q) /\ q # <<>> /\ ToSet(q) \subseteq DOMAIN nodes
      BY <1>1 DEF QueueInv
    <3> HIDE DEF q
    <3>2. /\ Len(q) \in Nat /\ DOMAIN q = 1..Len(q) /\ DOMAIN Front(q) = 1..(Len(q) - 1)
          /\ \A i \in 1..(Len(q) - 1) : Front(q)[i] = q[i]
      BY <3>1, ListFront, ListParts
    <3>3. 1..(Len(q) - 1) \subseteq 1..Len(q)
      BY <3>2
    <3> QED BY <3>1, <3>2, <3>3 DEF ToSet
  <2>4. SinksOf(nodes[CurrentNode]) \subseteq DOMAIN nodes
    BY <1>21 DEF NodesInv, SinksOf
  <2>5. RootsOf(ToSet(Front(q))) \subseteq RootsOf(ToSet(Front(q)))'
    BY <1>1, <1>22, <2>3 DEF RootsOf
  <2>6. RootsOf(SinksOf(nodes[CurrentNode])) \subseteq RootsOf(SinksOf(nodes[CurrentNode]))'
    <3>1. SinksOf(nodes[CurrentNode]) \subseteq SinksOf(nodes'[CurrentNode])
      BY <1>21, <1>22
    <3> QED BY <1>22, <2>1, <2>4, <3>1 DEF RootsOf
  <2>7. j \in RootsOf(SinksOf(nodes[CurrentNode]))'
    BY <1>22, <2>1 DEF RootsOf
  <2> QED BY <1>1, <2>2, <2>5, <2>6, <2>7
<1>25. HaveBeenSplit(H)'
  <2>1. query' = query /\ \A i : IsCrossSchema(query, i)' = IsCrossSchema(query, i)
    BY <1>1, TypesStay
  <2>2. H \subseteq DOMAIN query
    BY DEF HaveBeenSplit
  <2>3. ASSUME NEW i \in DOMAIN query, IsCrossSchema(query, i), query[i].parent \in H
        PROVE  vertices'[i].parent = 0
    <3>1. vertices[i].parent = 0
      BY <2>3 DEF HaveBeenSplit
    <3>2. i = j => vertices'[i].parent = 0
      BY <1>11, <1>17 DEF IsRoot
    <3>3. i # j => vertices'[i].parent = vertices[i].parent
      BY <1>11, <1>15 DEF Regardless
    <3> QED BY <3>1, <3>2, <3>3
  <2>4. \A i \in H : ~HasRepeatedProperty(vertices'[i])
    <3>1. \A i \in H : ~HasRepeatedProperty(vertices[i]) /\ i \in DOMAIN query
      BY DEF HaveBeenSplit
    <3> QED BY <3>1, <1>11, <1>15, <1>18
  <2>5. ASSUME NEW i \in DOMAIN query \ H
        PROVE  i \in Due' \/ (vertices'[i].parent # 0 /\ vertices'[i].parent \notin H)
    <3>1. i \in Due \/ (vertices[i].parent # 0 /\ vertices[i].parent \notin H)
      BY DEF HaveBeenSplit
    <3>2. i # j => vertices'[i].parent = vertices[i].parent
      BY <1>11, <1>15 DEF Regardless
    <3> QED BY <1>24, <3>1, <3>2
  <2>6. \A i \in DOMAIN query' : IsCrossSchema(query, i)' /\ query'[i].parent \in H => vertices'[i].parent = 0
    BY <2>1, <2>3
  <2>7. nodes'[CurrentNode'].root \in H \cup selections'
    <3>1. CurrentNode' = CurrentNode /\ selections' = selections
      BY <1>1 DEF CurrentNode
    <3>2. nodes[CurrentNode].root \in H \cup selections
      BY <1>1 DEF HaveBeenSplit
    <3> QED BY <1>21, <1>22, <3>1, <3>2
  <2> QED BY <2>1, <2>2, <2>4, <2>5, <2>6, <2>7 DEF HaveBeenSplit
<1>26. CutsOff(j)
  <2>1. ASSUME NEW i \in DOMAIN query
        PROVE  /\ vertices[i].parent = 0 => vertices'[i].parent = 0
               /\ FieldsOf(vertices'[i]) \subseteq FieldsOf(vertices[i]) \cup AskedWhereCut(i, j)
    <3>1. i = j => vertices'[i].parent = 0
      BY <1>11, <1>17 DEF IsRoot
    <3>2. i # j => vertices'[i].parent = vertices[i].parent
      BY <1>11, <1>15 DEF Regardless
    <3>3. i = s => FieldsOf(vertices'[i]) \subseteq FieldsOf(vertices[i]) \cup AskedWhereCut(i, j)
      BY <1>6, <1>9, <1>11, <1>15 DEF AskedWhereCut
    <3>4. i = j => FieldsOf(vertices'[i]) \subseteq FieldsOf(vertices[i]) \cup AskedWhereCut(i, j)
      <4>1. FieldsOf(sink) = FieldsOf(uncut)
        BY <1>17 DEF FieldsOf
      <4> QED BY <1>9, <1>11, <1>16, <4>1 DEF AskedWhereCut, edge
    <3>5. i # s /\ i # j => FieldsOf(vertices'[i]) = FieldsOf(vertices[i])
      BY <1>11
    <3> QED BY <3>1, <3>2, <3>3, <3>4, <3>5
  <2>2. /\ Splitting' /\ CurrentNode' = CurrentNode
        /\ query_nodes_to_split' = query_nodes_to_split
    BY <1>1 DEF Splitting, CurrentNode
  <2>3. /\ Pending = ToSet(query_nodes_to_split) \cup SinksOf(nodes[CurrentNode])
        /\ Pending' = ToSet(query_nodes_to_split) \cup SinksOf(nodes'[CurrentNode])
    BY <1>1, <2>2, Zenon DEF Pending
  <2>4. Pending \subseteq Pending'
    BY <1>21, <1>22, <2>3
  <2>5. \A n \in DOMAIN nodes' \ DOMAIN nodes : nodes'[n].root = j /\ n \in Pending'
    BY <1>22, <2>3
  <2>6. IsCrossSchema(query, j) /\ vertices'[j].parent = 0
    BY <1>6, <1>11, <1>17 DEF IsRoot
  <2> QED BY <1>22, <2>1, <2>4, <2>5, <2>6 DEF CutsOff
<1> QED BY <1>5, <1>20, <1>22, <1>23, <1>25, <1>26 DEF HaveBeenSplit

LEMMA ElementsOfConcat ==
    ASSUME NEW p, IsList(p), NEW q, IsList(q)
    PROVE  ToSet(p \o q) = ToSet(p) \cup ToSet(q)
<1>1. Len(p) \in Nat /\ Len(q) \in Nat /\ DOMAIN p = 1..Len(p) /\ DOMAIN q = 1..Len(q)
  BY ListParts
<1>2. /\ IsList(p \o q) /\ Len(p \o q) = Len(p) + Len(q)
      /\ \A i \in 1..Len(p) : (p \o q)[i] = p[i]
      /\ \A i \in 1..Len(q) : (p \o q)[Len(p) + i] = q[i]
  BY ListConcat
<1> DEFINE r == p \o q
<1>3. DOMAIN r = 1..(Len(p) + Len(q))
  BY <1>2, ListParts
<1> HIDE DEF r
<1>4. ASSUME NEW i \in DOMAIN r PROVE r[i] \in ToSet(p) \cup ToSet(q)
  <2>1. CASE i <= Len(p)
    <3>1. i \in 1..Len(p)
      BY <1>1, <1>3, <2>1
    <3> QED BY <1>1, <1>2, <3>1 DEF ToSet, r
  <2>2. CASE ~(i <= Len(p))
    <3> DEFINE k == i - Len(p)
    <3>1. k \in 1..Len(q) /\ Len(p) + k = i
      BY <1>1, <1>3, <2>2
    <3> HIDE DEF k
    <3> QED BY <1>1, <1>2, <3>1 DEF ToSet, r
  <2> QED BY <2>1, <2>2
<1>5. ASSUME NEW i \in DOMAIN p PROVE \E j \in DOMAIN r : r[j] = p[i]
  <2>1. i \in DOMAIN r
    BY <1>1, <1>3
  <2> QED BY <1>1, <1>2, <2>1 DEF r
<1>6. ASSUME NEW i \in DOMAIN q PROVE \E j \in DOMAIN r : r[j] = q[i]
  <2>1. Len(p) + i \in DOMAIN r
    BY <1>1, <1>3
  <2> QED BY <1>1, <1>2, <2>1 DEF r
<1>7. ToSet(r) = ToSet(p) \cup ToSet(q)
  BY <1>4, <1>5, <1>6 DEF ToSet
<1> QED BY <1>7 DEF r

LEMMA LastAndFront ==
    ASSUME NEW q, IsList(q), q # <<>>
    PROVE  ToSet(q) = ToSet(Front(q)) \cup {Last(q)}
<1> DEFINE n == Len(q)
           f == Front(q)
<1>1. /\ n \in Nat \ {0} /\ DOMAIN q = 1..n /\ DOMAIN f = 1..(n - 1)
      /\ \A i \in 1..(n - 1) : f[i] = q[i]
  BY ListFront, ListParts
<1>2. Last(q) = q[n]
  BY DEF Last
<1> HIDE DEF n, f
<1>3. 1..n = 1..(n - 1) \cup {n}
  BY <1>1
<1>4. ToSet(q) = ToSet(f) \cup {Last(q)}
  BY <1>1, <1>2, <1>3 DEF ToSet
<1> QED BY <1>4 DEF f

(* What finishing a node does, unless it raises.                              *)
LEMMA FinishMeans ==
    ASSUME FinishNode, split_outcome' \in {"splitting", "split", "planned"}
    PROVE  LET children == nodes[CurrentNode].child_query_connections
               rest == Front(query_nodes_to_split)
                           \o [k \in DOMAIN children |-> children[k].sink_query_node]
           IN  /\ Splitting /\ selections = {}
               /\ nodes' = [nodes EXCEPT ![CurrentNode].schema_id =
                               CHOOSE x \in SchemaIdsIn(Piece(nodes[CurrentNode].root)) : TRUE]
               /\ query_nodes_to_split' = rest
               /\ selections' = IF rest = <<>> THEN {} ELSE {nodes[Last(rest)].root}
               /\ split_outcome' = IF rest = <<>> THEN "split" ELSE "splitting"
               /\ UNCHANGED <<merge_vars, query, vertices>>
<1>1. \A P : ~RaiseInSplit(IF P THEN "SchemaStructureError" ELSE "AssertionError")
  BY DEF RaiseInSplit
<1> HIDE DEF RaiseInSplit
<1> QED BY <1>1, Zenon DEF FinishNode

(* The current node is given the id, and is no longer pending.                *)
Finishes(c, id) ==
    /\ c \in DOMAIN nodes /\ DOMAIN nodes' = DOMAIN nodes
    /\ \A n \in DOMAIN nodes :
          /\ nodes'[n].root = nodes[n].root
          /\ nodes'[n].schema_id = IF n = c THEN id ELSE nodes[n].schema_id
    /\ Pending \subseteq Pending' \cup {c}

LEMMA FinishStep ==
    ASSUME VerticesInv, NodesInv, QueueInv, NEW H, HaveBeenSplit(H), FinishNode,
           split_outcome' \in {"splitting", "split", "planned"}
    PROVE  /\ VerticesInv' /\ NodesInv' /\ QueueInv'
           /\ \E G \in SUBSET DOMAIN query : HaveBeenSplit(G)'
           /\ Finishes(CurrentNode,
                       CHOOSE x \in SchemaIdsIn(Piece(nodes[CurrentNode].root)) : TRUE)
<1> PICK c : c = CurrentNode
  OBVIOUS
<1> DEFINE q == query_nodes_to_split
           children == nodes[c].child_query_connections
           sinks == [k \in DOMAIN children |-> children[k].sink_query_node]
           rest == Front(q) \o sinks
<1>1. /\ Splitting /\ selections = {} /\ q' = rest
      /\ selections' = (IF rest = <<>> THEN {} ELSE {nodes[Last(rest)].root})
      /\ split_outcome' = (IF rest = <<>> THEN "split" ELSE "splitting")
      /\ UNCHANGED <<merge_vars, query, vertices>>
  BY FinishMeans, Zenon
<1> PICK x : x = CHOOSE y \in SchemaIdsIn(Piece(nodes[c].root)) : TRUE
  OBVIOUS
<1>2. nodes' = [nodes EXCEPT ![c].schema_id = x]
  BY FinishMeans, Zenon
<1>3. IsList(q) /\ q # <<>> /\ ToSet(q) \subseteq DOMAIN nodes
  BY <1>1 DEF QueueInv
<1>4. ToSet(q) = ToSet(Front(q)) \cup {c} /\ IsList(Front(q))
  BY <1>3, LastAndFront, ListFront DEF CurrentNode
<1>5. c \in DOMAIN nodes
  BY <1>3, <1>4
<1>6. IsList(children) /\ SinksOf(nodes[c]) \subseteq DOMAIN nodes
  BY <1>5 DEF NodesInv, SinksOf
<1>7. IsList(sinks) /\ ToSet(sinks) = SinksOf(nodes[c])
  <2>1. DOMAIN children = 1..Len(children) /\ Len(children) \in Nat
    BY <1>6, ListParts
  <2>2. sinks = [k \in 1..Len(children) |-> sinks[k]]
    BY <2>1
  <2>3. ToSet(sinks) = SinksOf(nodes[c])
    BY DEF ToSet, SinksOf
  <2> HIDE DEF sinks
  <2> QED BY <2>1, <2>2, <2>3, ListIs
<1> HIDE DEF sinks
<1>8. IsList(rest) /\ ToSet(rest) = ToSet(Front(q)) \cup SinksOf(nodes[c])
  BY <1>4, <1>7, ListConcat, ElementsOfConcat
<1> HIDE DEF rest, children, q
<1>9. ToSet(rest) \subseteq DOMAIN nodes
  BY <1>3, <1>4, <1>6, <1>8
<1>10. rest # <<>> => ToSet(rest) = ToSet(Front(rest)) \cup {Last(rest)}
  BY <1>8, LastAndFront
<1>11. rest = <<>> => ToSet(rest) = {}
  BY <1>8, ListParts DEF ToSet
<1>12. VerticesInv'
  <2>1. IsList(vertices') /\ Len(vertices') = Len(vertices) /\ \A i \in DOMAIN query : vertices'[i] = vertices[i]
    BY <1>1 DEF VerticesInv
  <2>2. \A i \in DOMAIN query : IsVertex(vertices'[i]) /\ Grown(vertices[i], vertices'[i])
                                  /\ Regardless(vertices[i], vertices'[i])
    BY <2>1, VertexGrows DEF VerticesInv, Regardless
  <2> QED BY <1>1, <2>1, <2>2, VerticesGo
<1>13. /\ DOMAIN nodes' = DOMAIN nodes /\ IsList(nodes')
       /\ \A n \in DOMAIN nodes :
             /\ IsSubQueryNode(nodes'[n]) /\ nodes'[n].root = nodes[n].root
             /\ nodes'[n].child_query_connections = nodes[n].child_query_connections
             /\ nodes'[n].schema_id = IF n = c THEN x ELSE nodes[n].schema_id
  <2>1. IsList(nodes) /\ \A n \in DOMAIN nodes : IsSubQueryNode(nodes[n])
    BY DEF NodesInv, IsSubQueryNode
  <2> DEFINE new == [nodes[c] EXCEPT !.schema_id = x]
             o == nodes[c]
  <2>2. nodes' = [nodes EXCEPT ![c] = new]
    BY <1>2
  <2>3. /\ IsSubQueryNode(new) /\ new.root = nodes[c].root /\ new.schema_id = x
        /\ new.child_query_connections = nodes[c].child_query_connections
    <3>1. IsSubQueryNode(o)
      BY <1>5, <2>1
    <3>2. new = [o EXCEPT !.schema_id = x]
      OBVIOUS
    <3> HIDE DEF o, new
    <3>3. new = [root |-> o.root, schema_id |-> x,
                 parent_query_connection |-> o.parent_query_connection,
                 child_query_connections |-> o.child_query_connections]
      BY <3>1, <3>2 DEF IsSubQueryNode
    <3> QED BY <3>3 DEF IsSubQueryNode, o
  <2> HIDE DEF new, o
  <2>4. DOMAIN nodes' = DOMAIN nodes /\ nodes'[c] = new /\ \A n \in DOMAIN nodes : n # c => nodes'[n] = nodes[n]
    BY <1>5, <2>2
  <2>5. IsList(nodes')
    <3>1. Len(nodes) \in Nat /\ DOMAIN nodes = 1..Len(nodes)
      BY <2>1, ListParts
    <3>2. nodes' = [n \in 1..Len(nodes) |-> nodes'[n]]
      BY <2>2, <3>1
    <3> QED BY <3>1, <3>2, ListIs
  <2> QED BY <2>1, <2>3, <2>4, <2>5
<1>14. NodesInv'
  <2>1. query' = query
    BY <1>1
  <2> QED BY <1>13, <2>1 DEF NodesInv, IsSubQueryNode
<1>15. rest # <<>> => Splitting'
  BY <1>1 DEF Splitting
<1>16. rest = <<>> => ~Splitting'
  BY <1>1 DEF Splitting
<1>17. QueueInv'
  <2> SUFFICES ASSUME Splitting'
               PROVE  /\ IsList(q)' /\ (q # <<>>)' /\ (ToSet(q) \subseteq DOMAIN nodes)'
                      /\ (selections \subseteq DOMAIN query)'
    BY DEF QueueInv, q
  <2>1. rest # <<>> /\ q' = rest /\ query' = query
    BY <1>1, <1>16
  <2>2. nodes[Last(rest)].root \in DOMAIN query
    BY <1>9, <1>10, <2>1 DEF NodesInv
  <2>3. selections' \subseteq DOMAIN query
    BY <1>1, <2>1, <2>2
  <2> QED BY <1>8, <1>9, <1>13, <2>1, <2>3
<1>18. Due = RootsOf(ToSet(rest))
  <2>1. Due = selections \cup RootsOf(ToSet(Front(q))) \cup RootsOf(SinksOf(nodes[c]))
    BY <1>1, Zenon DEF Due, q
  <2>2. RootsOf(ToSet(rest)) = RootsOf(ToSet(Front(q))) \cup RootsOf(SinksOf(nodes[c]))
    BY <1>8 DEF RootsOf
  <2> QED BY <1>1, <2>1, <2>2
<1>19. Due \subseteq Due'
  <2>1. CASE rest = <<>>
    BY <1>11, <1>18, <2>1 DEF RootsOf
  <2>2. CASE rest # <<>>
    <3>1. Splitting' /\ selections' = {nodes[Last(rest)].root} /\ q' = rest
      BY <1>1, <1>15, <2>2
    <3>2. selections' \cup RootsOf(ToSet(Front(q)))' \subseteq Due'
      BY <3>1, Zenon DEF Due, q
    <3>3. RootsOf(ToSet(Front(rest))) \subseteq RootsOf(ToSet(Front(q)))'
      BY <1>9, <1>10, <1>13, <2>2, <3>1 DEF RootsOf
    <3>4. RootsOf(ToSet(rest)) = RootsOf(ToSet(Front(rest))) \cup {nodes[Last(rest)].root}
      BY <1>10, <2>2 DEF RootsOf
    <3> QED BY <1>18, <3>1, <3>2, <3>3, <3>4
  <2> QED BY <2>1, <2>2
<1>20. HaveBeenSplit(H)'
  <2>1. query' = query /\ vertices' = vertices /\ \A i : IsCrossSchema(query, i)' = IsCrossSchema(query, i)
    BY <1>1, TypesStay
  <2>2. ASSUME Splitting' PROVE nodes'[CurrentNode'].root \in H \cup selections'
    <3>1. rest # <<>> /\ CurrentNode' = Last(rest) /\ selections' = {nodes[Last(rest)].root}
      BY <1>1, <1>16, <2>2 DEF CurrentNode, q
    <3> QED BY <1>9, <1>10, <1>13, <3>1
  <2> QED BY <1>19, <2>1, <2>2 DEF HaveBeenSplit
<1>21. Finishes(c, x)
  <2>1. Pending = ToSet(q) \cup SinksOf(nodes[c])
    BY <1>1, Zenon DEF Pending, q
  <2>2. Pending = ToSet(rest) \cup {c}
    BY <1>4, <1>8, <2>1
  <2>3. rest # <<>> => Pending' = ToSet(rest) \cup SinksOf(nodes[CurrentNode])'
    BY <1>1, <1>15, Zenon DEF Pending, q
  <2>4. Pending \subseteq Pending' \cup {c}
    BY <1>11, <2>2, <2>3
  <2> QED BY <1>5, <1>13, <2>4 DEF Finishes
<1> QED BY <1>12, <1>14, <1>17, <1>20, <1>21 DEF HaveBeenSplit

LEMMA PlanMeans ==
    ASSUME MakeQueryPlan, split_outcome' \in {"splitting", "split", "planned"}
    PROVE  /\ split_outcome = "split" /\ split_outcome' = "planned"
           /\ vertices' = [i \in DOMAIN vertices |-> vertices'[i]]
           /\ \A i \in DOMAIN vertices :
                 \/ vertices'[i] = vertices[i]
                 \/ \E out, x : vertices'[i] = WithFilterAtOutput(vertices[i], out, x)
           /\ UNCHANGED <<merge_vars, query, nodes>>
<1> DEFINE at(i) == {n \in Children : nodes[n].root = Roots(vertices)[i]}
           c(i) == nodes[CHOOSE n \in at(i) : TRUE].parent_query_connection
           Planned(i) == IF at(i) = {} THEN vertices[i]
                         ELSE WithFilterAtOutput(vertices[i], c(i).source_field_out_name, ParameterOf(c(i)))
<1>1. /\ split_outcome = "split" /\ split_outcome' = "planned"
      /\ vertices' = [i \in DOMAIN vertices |-> Planned(i)]
      /\ UNCHANGED <<merge_vars, query, nodes>>
  <2>1. ~RaiseInSplit("GraphQLValidationError")
    BY DEF RaiseInSplit
  <2> QED BY <2>1, Zenon DEF MakeQueryPlan
<1>2. \A i : \/ Planned(i) = vertices[i]
             \/ \E out, x : Planned(i) = WithFilterAtOutput(vertices[i], out, x)
  BY Zenon
<1> HIDE DEF Planned
<1> QED BY <1>1, <1>2

LEMMA PlanStep ==
    ASSUME VerticesInv, NodesInv, NEW H, HaveBeenSplit(H), MakeQueryPlan,
           split_outcome' \in {"splitting", "split", "planned"}
    PROVE  /\ VerticesInv' /\ NodesInv' /\ QueueInv'
           /\ \E G \in SUBSET DOMAIN query : HaveBeenSplit(G)'
<1>1. /\ split_outcome = "split" /\ split_outcome' = "planned"
      /\ UNCHANGED <<merge_vars, query, nodes>>
      /\ vertices' = [i \in DOMAIN vertices |-> vertices'[i]]
  BY PlanMeans
<1>2. ASSUME NEW i \in DOMAIN query
      PROVE  /\ IsVertex(vertices'[i]) /\ Grown(vertices[i], vertices'[i])
             /\ Regardless(vertices[i], vertices'[i])
             /\ HasRepeatedProperty(vertices'[i]) => HasRepeatedProperty(vertices[i])
  <2>1. IsVertex(vertices[i]) /\ i \in DOMAIN vertices
    BY Numbers DEF VerticesInv
  <2>2. CASE vertices'[i] = vertices[i]
    BY <2>1, <2>2, VertexGrows DEF Regardless
  <2>3. ASSUME NEW out, NEW x, vertices'[i] = WithFilterAtOutput(vertices[i], out, x)
        PROVE  /\ IsVertex(vertices'[i]) /\ Grown(vertices[i], vertices'[i])
               /\ Regardless(vertices[i], vertices'[i])
               /\ HasRepeatedProperty(vertices'[i]) => HasRepeatedProperty(vertices[i])
    BY <2>1, <2>3, WithFilterIs
  <2> QED BY <2>1, <2>2, <2>3, PlanMeans
<1>3. IsList(vertices') /\ Len(vertices') = Len(vertices)
  <2>1. DOMAIN vertices = 1..Len(vertices) /\ Len(vertices) \in Nat
    BY ListParts DEF VerticesInv
  <2> QED BY <1>1, <2>1, ListIs
<1>4. VerticesInv'
  BY <1>1, <1>2, <1>3, VerticesGo
<1>5. NodesInv' /\ QueueInv'
  BY <1>1 DEF NodesInv, QueueInv, Splitting
<1>6. Due = {}
  BY <1>1, Zenon DEF Due, Splitting
<1>7. HaveBeenSplit(H)'
  <2>1. query' = query /\ \A i : IsCrossSchema(query, i)' = IsCrossSchema(query, i)
    BY <1>1, TypesStay
  <2>2. \A i \in DOMAIN query : vertices'[i].parent = vertices[i].parent
    BY <1>2 DEF Regardless
  <2>3. H \subseteq DOMAIN query /\ \A i \in H : ~HasRepeatedProperty(vertices'[i])
    BY <1>2 DEF HaveBeenSplit
  <2>4. \A i \in DOMAIN query : IsCrossSchema(query, i) /\ query[i].parent \in H => vertices'[i].parent = 0
    BY <2>2 DEF HaveBeenSplit
  <2>5. \A i \in DOMAIN query \ H : vertices'[i].parent # 0 /\ vertices'[i].parent \notin H
    BY <1>6, <2>2 DEF HaveBeenSplit
  <2>6. ~Splitting'
    BY <1>1 DEF Splitting
  <2> QED BY <2>1, <2>3, <2>4, <2>5, <2>6 DEF HaveBeenSplit
<1> QED BY <1>4, <1>5, <1>7 DEF HaveBeenSplit

LEMMA PoseStep ==
    ASSUME PoseQuery, split_outcome' \in {"splitting", "split", "planned"}
    PROVE  /\ merge_outcome' = "merged" /\ VerticesInv' /\ NodesInv' /\ QueueInv'
           /\ \E G \in SUBSET DOMAIN query' : HaveBeenSplit(G)'
<1>1. PICK q \in Queries :
         /\ query' = q /\ vertices' = q /\ split_outcome' = "splitting"
         /\ nodes' = <<NewNode(1)>> /\ query_nodes_to_split' = <<1>> /\ selections' = {1}
         /\ merge_outcome' = "merged"
  BY DEF PoseQuery, merge_vars
<1>2. IsTree(q)
  BY QueriesAssumption
<1>3. IsList(q) /\ q # <<>> /\ Len(q) \in Nat /\ DOMAIN q = 1..Len(q) /\ 1 \in DOMAIN q
  <2>1. IsList(q) /\ q # <<>>
    BY <1>2 DEF IsTree
  <2> QED BY <2>1, ListParts
<1>4. VerticesInv'
  <2>1. \A i \in DOMAIN q : IsVertex(q[i]) /\ Grown(q[i], q[i]) /\ IsUncut(q[i], q[i])
    BY <1>2, VertexGrows DEF IsTree, IsUncut
  <2> QED BY <1>1, <1>2, <1>3, <2>1 DEF VerticesInv
<1>5. /\ IsList(<<NewNode(1)>>) /\ DOMAIN <<NewNode(1)>> = {1} /\ <<NewNode(1)>>[1] = NewNode(1)
      /\ IsList(<<1>>) /\ <<1>> # <<>> /\ ToSet(<<1>>) = {1}
  <2>1. ASSUME NEW e PROVE IsList(<<e>>) /\ DOMAIN <<e>> = {1} /\ <<e>>[1] = e /\ <<e>> # <<>> /\ ToSet(<<e>>) = {e}
    <3> DEFINE s == <<e>>
    <3>1. s = [i \in 1..1 |-> s[i]] /\ DOMAIN s = {1} /\ s[1] = e
      OBVIOUS
    <3> HIDE DEF s
    <3>2. IsList(s) /\ Len(s) = 1
      BY <3>1, ListIs
    <3>3. s # <<>>
      BY <3>2, ListParts
    <3>4. ToSet(s) = {e}
      BY <3>1 DEF ToSet
    <3> QED BY <3>1, <3>2, <3>3, <3>4 DEF s
  <2> HIDE DEF NewNode
  <2> QED BY <2>1
<1>6. NodesInv'
  <2> DEFINE n == NewNode(1)
  <2>1. IsSubQueryNode(n) /\ n.root = 1 /\ n.child_query_connections = <<>>
    BY DEF NewNode, IsSubQueryNode
  <2>2. IsList(<<>>) /\ DOMAIN <<>> = {}
    BY EmptyList, ListParts
  <2> HIDE DEF n
  <2>3. nodes' = <<n>> /\ IsList(<<n>>) /\ DOMAIN <<n>> = {1} /\ <<n>>[1] = n
    BY <1>1, <1>5 DEF n
  <2> QED BY <1>1, <1>3, <2>1, <2>2, <2>3 DEF NodesInv, IsSubQueryNode
<1>7. QueueInv'
  BY <1>1, <1>3, <1>5 DEF QueueInv
<1>8. HaveBeenSplit({})'
  <2>1. 1 \in Due'
    BY <1>1, Zenon DEF Due, Splitting
  <2>2. \A i \in DOMAIN q : i = 1 \/ q[i].parent # 0
    BY <1>2 DEF IsTree
  <2>3. nodes'[CurrentNode'].root \in selections'
    <3>1. CurrentNode' = Last(<<1>>) /\ Last(<<1>>) = 1
      BY <1>1 DEF CurrentNode, Last
    <3>2. nodes'[1] = NewNode(1)
      BY <1>1, <1>5
    <3>3. NewNode(1).root = 1
      BY DEF NewNode
    <3> QED BY <1>1, <3>1, <3>2, <3>3
  <2> QED BY <1>1, <2>1, <2>2, <2>3 DEF HaveBeenSplit
<1> QED BY <1>1, <1>4, <1>6, <1>7, <1>8

-----------------------------------------------------------------------------
(* The invariant *)

(* A query is posed when all is merged.                                       *)
LEMMA MergingGoesOn == MergeNext => merge_outcome \in {"accumulating", "adding edges"}
<1>1. TakeQueryType \/ MergeDirective \/ MergeScalar \/ MergeType => Reading
  BY Zenon DEF TakeQueryType, MergeDirective, MergeScalar, MergeType
<1>2. Reading \/ RejectSingleSchema \/ FinishSchema \/ StartEdges => merge_outcome = "accumulating"
  BY Zenon DEF Reading, RejectSingleSchema, FinishSchema, StartEdges
<1>3. AddCrossSchemaEdge \/ BuildMergedSchema => merge_outcome = "adding edges"
  BY Zenon DEF AddCrossSchemaEdge, BuildMergedSchema
<1> QED BY <1>1, <1>2, <1>3, Zenon DEF MergeNext

LEMMA SplitInvStutters == SplitInv /\ UNCHANGED vars => SplitInv'
<1> SUFFICES ASSUME SplitInv, UNCHANGED vars, split_outcome \in {"splitting", "split", "planned"}
             PROVE  SplitInv'
  BY DEF SplitInv, vars, split_vars
<1>1. merge_outcome = "merged" /\ VerticesInv /\ NodesInv /\ QueueInv
  BY DEF SplitInv
<1>2. PICK H \in SUBSET DOMAIN query : HaveBeenSplit(H)
  BY DEF SplitInv
<1>3. UNCHANGED <<merge_vars, merge_outcome, query, vertices, nodes, query_nodes_to_split, selections,
                  split_outcome>>
  BY DEF vars, split_vars, merge_vars
<1>4. VerticesInv'
  <2>1. IsList(vertices') /\ Len(vertices') = Len(vertices) /\ \A i \in DOMAIN query : vertices'[i] = vertices[i]
    BY <1>1, <1>3 DEF VerticesInv
  <2>2. \A i \in DOMAIN query : IsVertex(vertices'[i]) /\ Grown(vertices[i], vertices'[i])
                                  /\ Regardless(vertices[i], vertices'[i])
    BY <1>1, <2>1, VertexGrows DEF VerticesInv, Regardless
  <2> QED BY <1>1, <1>3, <2>1, <2>2, VerticesGo
<1>5. NodesInv' /\ QueueInv'
  BY <1>1, <1>3 DEF NodesInv, QueueInv, Splitting
<1>6. Due' = Due
  BY <1>3 DEF Due, Splitting, RootsOf, CurrentNode
<1>7. HaveBeenSplit(H)'
  <2>1. \A i : IsCrossSchema(query, i)' = IsCrossSchema(query, i)
    BY <1>3, TypesStay
  <2>2. Splitting' = Splitting /\ CurrentNode' = CurrentNode /\ nodes' = nodes /\ selections' = selections
    BY <1>3 DEF Splitting, CurrentNode
  <2> QED BY <1>2, <1>3, <1>6, <2>1, <2>2 DEF HaveBeenSplit
<1> QED BY <1>1, <1>2, <1>3, <1>4, <1>5, <1>7 DEF SplitInv

LEMMA SplitInvNext == SplitInv /\ [Next]_vars => SplitInv'
<1> SUFFICES ASSUME SplitInv, [Next]_vars, split_outcome' \in {"splitting", "split", "planned"}
             PROVE  SplitInv'
  BY DEF SplitInv
<1>1. CASE UNCHANGED vars
  BY <1>1, SplitInvStutters
<1>2. CASE Merge
  <2>1. merge_outcome \in {"accumulating", "adding edges"}
    BY <1>2, MergingGoesOn DEF Merge
  <2>2. split_outcome' = split_outcome
    BY <1>2 DEF Merge, split_vars
  <2> QED BY <2>1, <2>2 DEF SplitInv
<1>3. CASE PoseQuery
  BY <1>3, PoseStep DEF SplitInv
<1>4. CASE RejectRepeatedProperty \/ RejectCrossSchemaField
  BY <1>4 DEF RejectRepeatedProperty, RejectCrossSchemaField, RaiseInSplit
<1>5. ASSUME split_outcome \in {"splitting", "split", "planned"}
      PROVE  /\ merge_outcome = "merged" /\ VerticesInv /\ NodesInv /\ QueueInv
             /\ \E H \in SUBSET DOMAIN query : HaveBeenSplit(H)
  BY <1>5 DEF SplitInv
<1>6. ASSUME VerticesInv' /\ NodesInv' /\ QueueInv',
             \E G \in SUBSET DOMAIN query : HaveBeenSplit(G)',
             UNCHANGED <<merge_vars, query>>, merge_outcome = "merged"
      PROVE  SplitInv'
  <2>1. merge_outcome' = "merged"
    BY <1>6 DEF merge_vars
  <2> QED BY <1>6, <2>1 DEF SplitInv
<1>7. CASE ProcessCrossSchemaField
  <2>1. split_outcome = "splitting" /\ UNCHANGED <<merge_vars, query>>
    BY <1>7, Zenon DEF ProcessCrossSchemaField, Splitting
  <2> QED BY <1>5, <1>6, <1>7, <2>1, ProcessStep
<1>8. CASE RecurseOnIntraSchemaFields
  <2>1. split_outcome = "splitting" /\ UNCHANGED <<merge_vars, query>>
    BY <1>8, Zenon DEF RecurseOnIntraSchemaFields, Splitting
  <2> QED BY <1>5, <1>6, <1>8, <2>1, RecurseStep
<1>9. CASE FinishNode
  <2>1. split_outcome = "splitting" /\ UNCHANGED <<merge_vars, query>>
    BY <1>9, FinishMeans, Zenon DEF Splitting
  <2> QED BY <1>5, <1>6, <1>9, <2>1, FinishStep
<1>10. CASE MakeQueryPlan
  <2>1. split_outcome = "split" /\ UNCHANGED <<merge_vars, query>>
    BY <1>10, PlanMeans
  <2> QED BY <1>5, <1>6, <1>10, <2>1, PlanStep
<1> QED BY <1>1, <1>2, <1>3, <1>4, <1>7, <1>8, <1>9, <1>10 DEF Next

LEMMA SplitInvariant == Spec => []SplitInv
<1>1. Init => SplitInv
  BY DEF Init, SplitInit, SplitInv
<1> QED BY <1>1, SplitInvNext, PTL DEF Spec

(* When all is split, every vertex has been.                                  *)
LEMMA AllHaveBeenSplit ==
    ASSUME VerticesInv, Due = {}, NEW H, HaveBeenSplit(H)
    PROVE  H = DOMAIN query
<1> DEFINE Left == DOMAIN query \ H
<1>1. H \subseteq DOMAIN query
  BY DEF HaveBeenSplit
<1>2. Left = {}
  <2> SUFFICES ASSUME Left # {} PROVE FALSE
    OBVIOUS
  <2>1. Left \in SUBSET Nat
    BY Numbers
  <2> DEFINE i == Min(Left)
             p == vertices[i].parent
  <2>2. i \in Left /\ \A m \in Left : i <= m
    BY <2>1, MinIs
  <2> HIDE DEF i
  <2>3. p # 0 /\ p \notin H
    BY <2>2 DEF HaveBeenSplit
  <2>4. IsUncut(vertices[i], query[i])
    BY <2>2, <2>3, CrossesAsInTheQuery
  <2>5. p \in DOMAIN query /\ p \in 0..(i - 1)
    BY <2>2, <2>3, <2>4, Numbers DEF IsUncut
  <2>6. i \in Nat /\ p \in Left
    BY <2>1, <2>2, <2>3, <2>5
  <2> HIDE DEF p, Left
  <2> QED BY <2>2, <2>5, <2>6
<1> QED BY <1>1, <1>2

LEMMA PropertyThere ==
    ASSUME VerticesInv, NEW i \in DOMAIN query, ~HasRepeatedProperty(vertices[i]),
           NEW k \in DOMAIN query[i].properties
    PROVE  LET asked == query[i].properties[k]
               there == PropertyOf(vertices[i], asked.field)
           IN  /\ Has(vertices[i], asked.field)
               /\ asked.out # NULL => there.out = asked.out
               /\ IsPrefix(asked.filters, there.filters)
               /\ asked.optional => there.optional
<1> DEFINE asked == query[i].properties[k]
           there == vertices[i].properties[k]
<1>1. k \in DOMAIN vertices[i].properties /\ GrownProperty(asked, there)
  BY DEF VerticesInv, Grown
<1>2. Has(vertices[i], there.field) /\ PropertyOf(vertices[i], there.field) = there
  BY <1>1, ThePropertyIs
<1>3. IsList(asked.filters) /\ IsList(there.filters)
  BY <1>1 DEF VerticesInv, IsTree, IsVertex, IsProperty
<1> HIDE DEF asked, there
<1>4. IsPrefix(asked.filters, there.filters)
  BY <1>1, <1>3, BeginsIsPrefix DEF GrownProperty
<1> QED BY <1>1, <1>2, <1>4 DEF GrownProperty, asked

(* What is asked at a vertex, and what is asked on an edge that is cut, is in *)
(* the pieces: for every federation, every query that has the shape of one,   *)
(* and wherever it is cut.                                                    *)
THEOREM NothingOfAQueryIsDropped == Spec => []NothingIsDropped
<1>1. SplitInv => NothingIsDropped
  <2> SUFFICES ASSUME SplitInv, split_outcome = "planned" PROVE NothingIsDropped
    BY DEF NothingIsDropped
  <2>1. VerticesInv
    BY DEF SplitInv
  <2>2. PICK H \in SUBSET DOMAIN query : HaveBeenSplit(H)
    BY DEF SplitInv
  <2>3. Due = {}
    BY Zenon DEF Due, Splitting
  <2>4. H = DOMAIN query
    BY <2>1, <2>2, <2>3, AllHaveBeenSplit
  <2>5. \A i \in DOMAIN query : ~HasRepeatedProperty(vertices[i])
    BY <2>2, <2>4 DEF HaveBeenSplit
  <2>6. ASSUME NEW i \in DOMAIN query, IsCrossSchema(query, i)
        PROVE  LET there == PropertyOf(vertices[query[i].parent], StitchedField(i))
               IN  /\ ToSet(query[i].filters) \subseteq ToSet(there.filters)
                   /\ "optional" \in query[i].directives => there.optional
    <3> DEFINE v == vertices[query[i].parent]
    <3>1. query[i].parent # 0 /\ query[i].parent \in DOMAIN query
      BY <2>1, <2>6, Numbers DEF IsCrossSchema
    <3>2. vertices[i].parent = 0
      BY <2>2, <2>4, <2>6, <3>1 DEF HaveBeenSplit
    <3>3. IsCut(i)
      BY <2>1, <3>1, <3>2 DEF VerticesInv, IsUncut
    <3>4. PICK k \in DOMAIN v.properties : AsksFor(v.properties[k], StitchedField(i), query[i])
      BY <3>3 DEF IsCut, Asks
    <3>5. PropertyOf(v, StitchedField(i)) = v.properties[k]
      BY <2>5, <3>1, <3>4, ThePropertyIs DEF AsksFor
    <3> QED BY <3>4, <3>5 DEF AsksFor
  <2>7. ASSUME NEW i \in DOMAIN query, ~IsCrossSchema(query, i)
        PROVE  vertices[i].filters = query[i].filters /\ vertices[i].directives = query[i].directives
    BY <2>1, <2>7 DEF VerticesInv, IsUncut, IsCut
  <2> QED BY <2>1, <2>5, <2>6, <2>7, PropertyThere DEF NothingIsDropped, StitchedField, Stitch1
<1> QED BY <1>1, SplitInvariant, PTL

-----------------------------------------------------------------------------
(* Fields and types in a merged schema                                        *)

AllIsMerged ==
    MergeInv /\ ReadingInv /\ Accumulated /\ EdgesStand /\ ~QueryTypeIsReferredTo

IsClass(t) ==
    \E i \in DOMAIN federation.schemas : \E k : IsClassAt(i, k) /\ DefinitionAt(i, k).name = t

LEMMA FederationIsMerged ==
    ASSUME FederationInv, merge_outcome = "merged", ~QueryTypeIsReferredTo PROVE AllIsMerged
<1>1. merge_outcome \in {"adding edges", "merged", "TypeError"}
  BY Zenon
<1>2. merge_outcome \notin {"accumulating", "ValueError", "SchemaMergeNameConflictError"}
  BY Zenon
<1> QED BY <1>1, <1>2, Zenon DEF FederationInv, AllIsMerged, EdgeInv, MergeInv, IndexesOK

LEMMA NullIsNoName ==
    ASSUME AllIsMerged PROVE NULL \notin NamesOf(definitions) \cup scalars
<1>1. MergeInv /\ DefinitionsAreRead /\ federation \in Federations
  BY DEF AllIsMerged, ReadingInv, MergeInv, IndexesOK
<1>2. NULL \notin ValidNames \cup BuiltinScalars
  BY FederationsAssumption
<1>3. ASSUME NEW n \in DOMAIN definitions PROVE definitions[n].name # NULL
  <2>1. PICK i, k : /\ i \in DOMAIN federation.schemas /\ IsTypeAt(i, k)
                    /\ IsFrom(definitions[n], i, k)
    BY <1>1, Origin
  <2>2. definitions[n].name = DefinitionAt(i, k).name
    BY <2>1 DEF IsFrom
  <2> QED BY <1>1, <1>2, <2>1, <2>2, SchemaFacts
<1>4. ASSUME NULL \in scalars PROVE FALSE
  <2>1. PICK i \in DOMAIN federation.schemas : \E k \in ReadOf(i) :
            IsOfKind(i, k, "scalar") /\ DefinitionAt(i, k).name = NULL
    BY <1>1, <1>2, <1>4 DEF MergeInv, ScalarsAreRecorded
  <2>2. PICK k \in ReadOf(i) : IsOfKind(i, k, "scalar") /\ DefinitionAt(i, k).name = NULL
    BY <2>1
  <2> QED BY <1>1, <1>2, <2>2, ReadAreTypes, SchemaFacts
<1> QED BY <1>3, <1>4 DEF NamesOf

(* A class in the tables and in the merged schema.                            *)
LEMMA ClassIs ==
    ASSUME AllIsMerged, NEW i \in DOMAIN federation.schemas, NEW k, IsTypeAt(i, k), IsOwnType(i, k)
    PROVE  LET t == DefinitionAt(i, k).name
           IN  /\ t \in DOMAIN type_name_to_schema_id
               /\ type_name_to_schema_id[t] = federation.schemas[i].id
               /\ t \in NamesOf(definitions)
<1>1. k \in ReadOf(i)
  BY AllIsRead DEF AllIsMerged
<1> QED BY <1>1 DEF AllIsMerged, MergeInv, TypesAreRecorded, ReadingInv, IdsAreRecorded,
                    DefinitionsAreRead

(* What is above another class is a class.                                    *)
LEMMA AboveAreClasses ==
    ASSUME AllIsMerged, NEW t, NEW m \in SubclassSet(t), m # t PROVE IsClass(t)
<1>1. MergeInv /\ DefinitionsAreRead /\ federation \in Federations /\ ~QueryTypeIsReferredTo
  BY DEF AllIsMerged, ReadingInv, MergeInv, IndexesOK
<1>2. ASSUME NEW n \in DOMAIN definitions, definitions[n].kind = "object", t \in definitions[n].refs
      PROVE  IsClass(t)
  <2>1. PICK j, l : /\ j \in DOMAIN federation.schemas /\ IsTypeAt(j, l)
                    /\ IsFrom(definitions[n], j, l)
    BY <1>1, Origin
  <2>2. DefinitionAt(j, l).kind = "object" /\ t \in DefinitionAt(j, l).refs
    BY <1>2, <2>1 DEF IsFrom
  <2>3. PICK h : /\ IsTypeAt(j, h) /\ IsOwnType(j, h) /\ DefinitionAt(j, h).name = t
                 /\ DefinitionAt(j, h).kind = "interface"
    BY <1>1, <2>1, <2>2, RefsStay
  <2> QED BY <2>1, <2>3 DEF IsClass, IsClassAt
<1>3. ASSUME NEW n \in DOMAIN definitions, definitions[n].name = Lookup(federation.hints, t, NULL)
      PROVE  IsClass(t)
  <2>1. definitions[n].name # NULL
    BY NullIsNoName DEF NamesOf
  <2>2. t \in DOMAIN federation.hints
    BY <1>3, <2>1 DEF Lookup
  <2>3. PICK j \in DOMAIN federation.schemas :
            IsEquivalent(federation.schemas[j], t, federation.hints[t])
    BY <1>1, <2>2, FederationsAssumption
  <2>4. PICK h \in DOMAIN federation.schemas[j].definitions :
            /\ federation.schemas[j].definitions[h].name = t
            /\ federation.schemas[j].definitions[h].kind \in {"object", "interface"}
            /\ t # federation.schemas[j].query_type
    BY <2>3 DEF IsEquivalent
  <2> QED BY <2>4 DEF IsClass, IsClassAt, IsTypeAt, IsOwnType, IsOfKind, DefinitionAt
<1> QED BY <1>2, <1>3 DEF SubclassSet, ToSet

(* Only classes have fields, and each name is that of one field.              *)
LEMMA FieldsOfClasses ==
    ASSUME AllIsMerged, NEW t, NEW f, NEW x \in FieldsNamed(t, f)
    PROVE  /\ IsClass(t)
           /\ FieldType(t, f) = x.type
           /\ StitchOf(t, f) = {x.stitch} \ {NULL}
           /\ \E n \in DOMAIN definitions : definitions[n].name = t /\ x \in definitions[n].fields
<1>1. MergeInv /\ DefinitionsAreRead /\ Accumulated /\ federation \in Federations /\ Good(definitions)
      /\ ~QueryTypeIsReferredTo
  BY DEF AllIsMerged, ReadingInv, MergeInv, IndexesOK, EdgesStand
<1>2. PICK n \in DOMAIN definitions :
          definitions[n].name = t /\ x \in definitions[n].fields /\ x.name = f
  BY DEF FieldsNamed, DefinitionsNamed
<1>3. ASSUME NEW y \in FieldsNamed(t, f) PROVE y = x
  <2>1. PICK m \in DOMAIN definitions :
            definitions[m].name = t /\ y \in definitions[m].fields /\ y.name = f
    BY DEF FieldsNamed, DefinitionsNamed
  <2>2. m = n
    BY <1>1, <1>2, <2>1 DEF DefinitionsAreRead
  <2> QED BY <1>1, <1>2, <2>1, <2>2 DEF Good, FieldsAreApart
<1>4. FieldsNamed(t, f) = {x}
  BY <1>3
<1>5. FieldType(t, f) = x.type /\ StitchOf(t, f) = {x.stitch} \ {NULL}
  BY <1>4 DEF FieldType, StitchOf
<1>6. IsClass(t)
  <2>1. PICK i, k : /\ i \in DOMAIN federation.schemas /\ IsTypeAt(i, k)
                    /\ IsFrom(definitions[n], i, k)
    BY <1>1, Origin
  <2>2. CASE x \in DefinitionAt(i, k).fields
    <3>1. IsNode(DefinitionAt(i, k))
      BY <1>1, <2>1, SchemaFacts DEF IsTypeAt
    <3>2. DefinitionAt(i, k).kind \in {"object", "interface"}
      BY <2>2, <3>1 DEF IsNode
    <3> QED BY <1>2, <2>1, <3>2 DEF IsFrom, IsOfKind, IsClass, IsClassAt
  <2>3. CASE x.stitch # NULL
    <3>1. PICK e \in DOMAIN federation.edges :
              /\ IsOfEdge(t, x, federation.edges[e])
              /\ Stitches(federation.edges[e].outbound, federation.edges[e].inbound)
      BY <1>1, <1>2, <2>3 DEF Good, StitchesAreEdges
    <3>2. PICK source, sink : Stitches(source, sink) /\ t \in SubclassSet(source.type)
      BY <3>1, StitchesBack DEF IsOfEdge
    <3>3. PICK j, l : /\ j \in DOMAIN federation.schemas
                      /\ IsClassAt(j, l) /\ DefinitionAt(j, l).name = source.type
      BY <3>2 DEF Stitches
    <3>4. t \in SubclassSet(DefinitionAt(j, l).name)
      BY <3>2, <3>3
    <3>5. \E h : /\ IsClassAt(j, h) /\ DefinitionAt(j, h).name = t
                 /\ h = l \/ DefinitionAt(j, h).kind = "object"
                 /\ DefinitionAt(j, l).fields \subseteq DefinitionAt(j, h).fields
      BY <1>1, <3>3, <3>4, Subclasses
    <3> QED BY <3>3, <3>5 DEF IsClass
  <2> QED BY <2>1, <2>2, <2>3, <1>2 DEF IsFrom
<1> QED BY <1>2, <1>5, <1>6

(* A vertex is coerced to a class of the schema of its type.                  *)
LEMMA CoercedWithinASchema ==
    ASSUME AllIsMerged, NEW t, IsClass(t), NEW d \in NamesOf(definitions),
           t \in ClassesOf(d) \cup {d}
    PROVE  /\ {t, d} \subseteq DOMAIN type_name_to_schema_id
           /\ type_name_to_schema_id[t] = type_name_to_schema_id[d]
           /\ t \in ClassesOf(d)
<1>1. /\ MergeInv /\ ReadingInv /\ DefinitionsAreRead /\ Accumulated /\ federation \in Federations
      /\ ~QueryTypeIsReferredTo
  BY DEF AllIsMerged, ReadingInv, MergeInv, IndexesOK
<1>2. PICK i, k : /\ i \in DOMAIN federation.schemas /\ IsClassAt(i, k) /\ DefinitionAt(i, k).name = t
  BY DEF IsClass
<1>3. t \in DOMAIN type_name_to_schema_id /\ type_name_to_schema_id[t] = federation.schemas[i].id
  BY <1>2, ClassIs DEF IsClassAt
<1>4. CASE t = d
  <2>1. PICK n \in DOMAIN definitions : definitions[n].name = d
    BY DEF NamesOf
  <2>2. IsFrom(definitions[n], i, k)
    BY <1>1, <1>2, <1>4, <2>1, DefinitionOf DEF IsClassAt
  <2>3. definitions[n].kind # "union"
    BY <1>2, <2>2 DEF IsFrom, IsClassAt
  <2>4. definitions[n] \in DefinitionsNamed(definitions, d) /\ d \in SubclassSet(d)
    BY <2>1 DEF DefinitionsNamed, SubclassSet
  <2>5. t \in ClassesOf(d)
    BY <1>4, <2>3, <2>4 DEF ClassesOf
  <2> QED BY <1>3, <1>4, <2>5
<1>5. CASE t # d
  <2>1. PICK n \in DOMAIN definitions :
            /\ definitions[n].name = d
            /\ t \in IF definitions[n].kind = "union" THEN definitions[n].refs ELSE SubclassSet(d)
    BY <1>5 DEF ClassesOf, DefinitionsNamed
  <2>2. CASE definitions[n].kind = "union"
    <3>1. PICK j, l : /\ j \in DOMAIN federation.schemas /\ IsTypeAt(j, l)
                      /\ IsFrom(definitions[n], j, l)
      BY <1>1, Origin
    <3>2. /\ IsOwnType(j, l) /\ DefinitionAt(j, l).kind = "union"
          /\ DefinitionAt(j, l).name = d /\ t \in DefinitionAt(j, l).refs
      BY <2>1, <2>2, <3>1 DEF IsFrom, IsOfKind
    <3>3. PICK h : IsTypeAt(j, h) /\ IsOwnType(j, h) /\ DefinitionAt(j, h).name = t
      BY <1>1, <3>1, <3>2, RefsStay
    <3>4. i = j
      BY <1>1, <1>2, <3>1, <3>3, SameOwner DEF IsClassAt
    <3>5. d \in DOMAIN type_name_to_schema_id /\ type_name_to_schema_id[d] = federation.schemas[i].id
      BY <3>1, <3>2, <3>4, ClassIs
    <3> QED BY <1>3, <1>5, <3>5
  <2>3. CASE definitions[n].kind # "union"
    <3>1. t \in SubclassSet(d)
      BY <2>1, <2>3
    <3>2. PICK j, l : /\ j \in DOMAIN federation.schemas /\ IsClassAt(j, l)
                      /\ DefinitionAt(j, l).name = d
      BY <1>5, <3>1, AboveAreClasses DEF IsClass
    <3>3. d \in DOMAIN type_name_to_schema_id /\ type_name_to_schema_id[d] = federation.schemas[j].id
      BY <3>2, ClassIs DEF IsClassAt
    <3>4. type_name_to_schema_id[t] = federation.schemas[j].id
      <4>1. t \in SubclassSet(DefinitionAt(j, l).name)
        BY <3>1, <3>2
      <4> QED BY <1>1, <3>2, <4>1, ClassIsMerged
    <3> QED BY <1>3, <1>5, <3>3, <3>4
  <2> QED BY <2>2, <2>3
<1> QED BY <1>4, <1>5

(* A field without @stitch does not leave its schema.                         *)
LEMMA FieldsWithinASchema ==
    ASSUME AllIsMerged, NEW t, NEW f, StitchOf(t, f) = {}, FieldType(t, f) \in DOMAIN type_name_to_schema_id,
           FieldsNamed(t, f) # {}
    PROVE  type_name_to_schema_id[FieldType(t, f)] = type_name_to_schema_id[t]
<1>1. MergeInv /\ DefinitionsAreRead /\ Accumulated /\ federation \in Federations
      /\ ~QueryTypeIsReferredTo
  BY DEF AllIsMerged, ReadingInv, MergeInv, IndexesOK
<1>2. PICK x : x \in FieldsNamed(t, f)
  OBVIOUS
<1>3. /\ IsClass(t) /\ FieldType(t, f) = x.type /\ StitchOf(t, f) = {x.stitch} \ {NULL}
      /\ \E n \in DOMAIN definitions : definitions[n].name = t /\ x \in definitions[n].fields
  BY <1>2, FieldsOfClasses
<1>4. PICK i, k : /\ i \in DOMAIN federation.schemas /\ IsClassAt(i, k) /\ DefinitionAt(i, k).name = t
  BY <1>3 DEF IsClass
<1>5. PICK n \in DOMAIN definitions : definitions[n].name = t /\ x \in definitions[n].fields
  BY <1>3
<1>6. IsFrom(definitions[n], i, k)
  BY <1>1, <1>4, <1>5, DefinitionOf DEF IsClassAt
<1>7. x \in DefinitionAt(i, k).fields
  BY <1>3, <1>5, <1>6 DEF IsFrom
<1>8. x.type \in References(DefinitionAt(i, k))
  BY <1>7 DEF References
<1>9. PICK j \in DOMAIN federation.schemas : \E h \in ReadOf(j) :
          IsOwnType(j, h) /\ DefinitionAt(j, h).name = x.type
  BY <1>1, <1>3 DEF MergeInv, TypesAreRecorded
<1>10. x.type \notin BuiltinScalars
  BY <1>1, <1>9, ReadAreTypes, SchemaFacts
<1>11. PICK l : /\ IsTypeAt(i, l) /\ DefinitionAt(i, l).name = x.type
                /\ IsOwnType(i, l) \/ IsOfKind(i, l, "scalar")
  BY <1>1, <1>4, <1>8, <1>10, ReferencesStay DEF IsClassAt
<1>12. IsOwnType(i, l)
  <2>1. l \in ReadOf(i)
    BY <1>1, <1>4, <1>11, AllIsRead
  <2>2. x.type \notin scalars
    BY <1>1, <1>3 DEF MergeInv, NamesAreApart
  <2> QED BY <1>1, <1>4, <1>11, <2>1, <2>2 DEF MergeInv, ScalarsAreRecorded
<1>13. type_name_to_schema_id[x.type] = federation.schemas[i].id
  BY <1>4, <1>11, <1>12, ClassIs
<1>14. type_name_to_schema_id[t] = federation.schemas[i].id
  BY <1>4, ClassIs DEF IsClassAt
<1> QED BY <1>3, <1>13, <1>14

(* Both sides of an edge have the fields that it stitches, and these are      *)
(* properties.                                                                *)
LEMMA StitchLeads ==
    ASSUME AllIsMerged, NEW s, NEW f, NEW stitch \in StitchOf(s, f),
           NEW t \in ClassesOf(FieldType(s, f))
    PROVE  {FieldType(s, stitch[1]), FieldType(t, stitch[2])} \subseteq scalars
<1>1. PICK z \in FieldsNamed(s, f) : z.stitch = stitch /\ stitch # NULL
  BY DEF StitchOf
<1>2. /\ FieldType(s, f) = z.type
      /\ \E n \in DOMAIN definitions : definitions[n].name = s /\ z \in definitions[n].fields
  BY FieldsOfClasses
<1>3. PICK n \in DOMAIN definitions : definitions[n].name = s /\ z \in definitions[n].fields
  BY <1>2
<1>4. definitions[n] \in ToSet(definitions)
  BY DEF ToSet
<1>5. \A u \in ClassesOf(z.type) :
         \E x \in FieldsNamed(s, stitch[1]) : \E y \in FieldsNamed(u, stitch[2]) :
             {x.type, y.type} \subseteq scalars
  BY <1>1, <1>3, <1>4, StitchMeans DEF AllIsMerged
<1>6. PICK x \in FieldsNamed(s, stitch[1]), y \in FieldsNamed(t, stitch[2]) :
          {x.type, y.type} \subseteq scalars
  BY <1>2, <1>5
<1> QED BY <1>6, FieldsOfClasses
-----------------------------------------------------------------------------
(* Types in a query that GraphQL validates                                    *)

SchemaIdOf(i) == type_name_to_schema_id[TypesOf(query)[i]]

LEMMA DeclaredBy ==
    ASSUME NEW vs, IsForest(vs), NEW i \in DOMAIN vs
    PROVE  /\ vs[i].parent = 0 => DeclaredTypes(vs)[i] = vs[i].edge
           /\ vs[i].parent # 0 =>
                 /\ vs[i].parent \in DOMAIN vs
                 /\ DeclaredTypes(vs)[i] = FieldType(TypesOf(vs)[vs[i].parent], vs[i].edge)
<1> DEFINE D == DeclaredTypes(vs)
           p == vs[i].parent
<1>1. D = [j \in DOMAIN vs |-> Declared(vs, D, j)]
  BY DeclaredTypesAre
<1>2. TypesOf(vs) = [j \in DOMAIN vs |-> CoercedType(vs[j], D[j])]
  BY DEF TypesOf
<1> HIDE DEF D
<1>3. D[i] = Declared(vs, D, i)
  BY <1>1, Zenon
<1>4. CASE p = 0
  BY <1>3, <1>4 DEF Declared, D
<1>5. CASE p # 0
  <2>1. p \in DOMAIN vs
    <3>1. i \in 1..Len(vs) /\ Len(vs) \in Nat /\ DOMAIN vs = 1..Len(vs)
      BY ListParts DEF IsForest
    <3>2. p \in 0..(i - 1)
      BY DEF IsForest
    <3> HIDE DEF p
    <3> QED BY <1>5, <3>1, <3>2
  <2>2. TypesOf(vs)[p] = CoercedType(vs[p], D[p])
    BY <1>2, <2>1
  <2> QED BY <1>3, <1>5, <2>1, <2>2 DEF Declared, D
<1> QED BY <1>4, <1>5

(* Every vertex of the query is a class, of the schema of its declared type.  *)
IsPosable == VerticesInv /\ Validates(query, DOMAIN query)

LEMMA VerticesAreClasses ==
    ASSUME AllIsMerged, IsPosable, NEW i \in DOMAIN query
    PROVE  LET t == TypesOf(query)[i]
               d == DeclaredTypes(query)[i]
           IN  /\ IsClass(t) /\ d \in NamesOf(definitions)
               /\ {t, d} \subseteq DOMAIN type_name_to_schema_id
               /\ type_name_to_schema_id[t] = type_name_to_schema_id[d]
               /\ t \in ClassesOf(d)
<1> DEFINE T == TypesOf(query)
           D == DeclaredTypes(query)
<1>1. /\ D[i] \in NamesOf(definitions)
      /\ T[i] \in ClassesOf(D[i]) \cup {D[i]}
      /\ \A k \in DOMAIN query[i].properties :
            FieldType(T[i], query[i].properties[k].field) \in scalars
      /\ query[i].properties # <<>> \/ ChildrenOf(query, i) # {}
  BY DEF IsPosable, Validates
<1>2. IsForest(query) /\ IsVertex(query[i])
  BY DEF IsPosable, VerticesInv, IsTree, IsForest
<1>3. \A f : FieldType(T[i], f) # NULL => IsClass(T[i])
  <2> SUFFICES ASSUME NEW f, FieldsNamed(T[i], f) # {} PROVE IsClass(T[i])
    BY DEF FieldType
  <2> QED BY FieldsOfClasses
<1>4. NULL \notin NamesOf(definitions) \cup scalars
  BY NullIsNoName
<1>5. CASE query[i].properties # <<>>
  <2>1. IsList(query[i].properties)
    BY <1>2 DEF IsVertex
  <2>2. 1 \in DOMAIN query[i].properties
    <3> DEFINE ps == query[i].properties
    <3> HIDE DEF ps
    <3>1. Len(ps) \in Nat /\ DOMAIN ps = 1..Len(ps) /\ Len(ps) # 0
      BY <1>5, <2>1, ListParts DEF ps
    <3>2. 1 \in DOMAIN ps
      BY <3>1
    <3> QED BY <3>2 DEF ps
  <2> QED BY <1>1, <1>3, <1>4, <2>2, CoercedWithinASchema
<1>6. CASE ChildrenOf(query, i) # {}
  <2>1. PICK j \in DOMAIN query : query[j].parent = i
    BY <1>6 DEF ChildrenOf
  <2>2. i # 0
    BY Numbers DEF IsPosable
  <2>3. D[j] = FieldType(T[i], query[j].edge)
    BY <1>2, <2>1, <2>2, DeclaredBy
  <2>4. D[j] \in NamesOf(definitions)
    BY DEF IsPosable, Validates
  <2> QED BY <1>1, <1>3, <1>4, <2>3, <2>4, CoercedWithinASchema
<1> QED BY <1>1, <1>5, <1>6

(* Fields within a schema lead to vertices of it.                             *)
LEMMA SameSchema ==
    ASSUME AllIsMerged, IsPosable, NEW i \in DOMAIN query, query[i].parent # 0,
           ~IsCrossSchema(query, i)
    PROVE  query[i].parent \in DOMAIN query /\ SchemaIdOf(i) = SchemaIdOf(query[i].parent)
<1> DEFINE p == query[i].parent
           t == TypesOf(query)[p]
           f == query[i].edge
<1>1. p \in DOMAIN query /\ DeclaredTypes(query)[i] = FieldType(t, f)
  BY DeclaredBy DEF IsPosable, VerticesInv, IsTree, IsForest
<1>2. StitchOf(t, f) = {}
  BY DEF IsCrossSchema
<1>3. /\ FieldType(t, f) \in NamesOf(definitions)
      /\ FieldType(t, f) \in DOMAIN type_name_to_schema_id
      /\ SchemaIdOf(i) = type_name_to_schema_id[FieldType(t, f)]
  BY <1>1, VerticesAreClasses DEF SchemaIdOf
<1>4. FieldsNamed(t, f) # {}
  BY <1>3, NullIsNoName DEF FieldType
<1> QED BY <1>1, <1>2, <1>3, <1>4, FieldsWithinASchema DEF SchemaIdOf

(* The fields that are stitched are properties.                               *)
LEMMA AskedForProperties ==
    ASSUME AllIsMerged, IsPosable, NEW j \in DOMAIN query, IsCrossSchema(query, j),
           NEW i \in DOMAIN query, NEW f \in AskedWhereCut(i, j)
    PROVE  FieldType(TypesOf(query)[i], f) \in scalars
<1> DEFINE p == query[j].parent
           s == TypesOf(query)[p]
           t == TypesOf(query)[j]
           e == query[j].edge
<1>1. p # 0 /\ StitchOf(s, e) # {}
  BY DEF IsCrossSchema
<1>2. DeclaredTypes(query)[j] = FieldType(s, e)
  BY <1>1, DeclaredBy DEF IsPosable, VerticesInv, IsTree, IsForest
<1>3. t \in ClassesOf(FieldType(s, e))
  BY <1>2, VerticesAreClasses
<1>4. StitchOn(j) \in StitchOf(s, e)
  BY <1>1 DEF StitchOn
<1>5. {FieldType(s, StitchOn(j)[1]), FieldType(t, StitchOn(j)[2])} \subseteq scalars
  BY <1>3, <1>4, StitchLeads
<1>6. \/ i = p /\ f = StitchOn(j)[1]
      \/ i = j /\ f = StitchOn(j)[2]
  BY DEF AskedWhereCut
<1> QED BY <1>5, <1>6

-----------------------------------------------------------------------------
(* Pieces of a query                                                          *)

RootBy(vs, roots, i) == IF vs[i].parent = 0 THEN i ELSE roots[vs[i].parent]

LEMMA RootsAre ==
    ASSUME NEW vs, IsForest(vs)
    PROVE  Roots(vs) = [i \in DOMAIN vs |-> RootBy(vs, Roots(vs), i)]
<1> DEFINE Can(n) == \E R : R = [i \in 1..n |-> RootBy(vs, R, i)]
           Not == {n \in 0..Len(vs) : ~Can(n)}
<1>1. Len(vs) \in Nat /\ DOMAIN vs = 1..Len(vs) /\ \A i \in 1..Len(vs) : vs[i].parent \in 0..(i - 1)
  BY ListParts DEF IsForest
<1>2. Can(0)
  <2> DEFINE R == [i \in 1..0 |-> 0]
  <2>1. 1..0 = {}
    OBVIOUS
  <2>2. R = [i \in 1..0 |-> RootBy(vs, R, i)]
    BY <2>1
  <2> QED BY <2>2
<1>3. ASSUME NEW n \in 1..Len(vs), Can(n - 1) PROVE Can(n)
  <2>1. PICK R : R = [i \in 1..(n - 1) |-> RootBy(vs, R, i)]
    BY <1>3
  <2> DEFINE S == [i \in 1..n |-> RootBy(vs, R, i)]
  <2>2. ASSUME NEW i \in 1..n, vs[i].parent # 0 PROVE R[vs[i].parent] = S[vs[i].parent]
    <3> DEFINE p == vs[i].parent
    <3>1. p \in 0..(i - 1) /\ p # 0
      BY <1>1, <2>2
    <3> HIDE DEF p
    <3>2. p \in 1..(n - 1) /\ p \in 1..n
      BY <1>1, <3>1
    <3> HIDE DEF RootBy
    <3>3. R[p] = RootBy(vs, R, p)
      BY <2>1, <3>2, Zenon
    <3> QED BY <3>2, <3>3 DEF p
  <2>3. \A i \in 1..n : RootBy(vs, R, i) = RootBy(vs, S, i)
    <3> HIDE DEF S
    <3> QED BY <2>2 DEF RootBy
  <2>4. S = [i \in 1..n |-> RootBy(vs, S, i)]
    <3> HIDE DEF RootBy
    <3> QED BY <2>3
  <2> HIDE DEF S
  <2> QED BY <2>4
<1> HIDE DEF Can
<1>4. Not = {}
  <2> SUFFICES ASSUME Not # {} PROVE FALSE
    OBVIOUS
  <2>1. Not \in SUBSET Nat
    BY <1>1
  <2> DEFINE n == Min(Not)
  <2>2. n \in Not /\ \A m \in Not : n <= m
    BY <2>1, MinIs
  <2> HIDE DEF n
  <2>3. n \in 1..Len(vs) /\ n - 1 \in 0..Len(vs)
    BY <1>1, <1>2, <2>2
  <2>4. Can(n - 1)
    BY <1>1, <2>2, <2>3
  <2> QED BY <1>3, <2>2, <2>3, <2>4
<1>5. \E R : R = [i \in DOMAIN vs |-> RootBy(vs, R, i)]
  BY <1>1, <1>4 DEF Can
<1>6. Roots(vs) = CHOOSE R : R = [i \in DOMAIN vs |-> RootBy(vs, R, i)]
  BY Zenon DEF Roots, RootBy
<1> HIDE DEF RootBy
<1> QED BY <1>5, <1>6

LEMMA InPiece ==
    ASSUME VerticesInv, NEW r
    PROVE  /\ Piece(r) \subseteq DOMAIN query
           /\ \A i \in DOMAIN query : i \in Piece(r) <=>
                 IF vertices[i].parent = 0 THEN i = r ELSE vertices[i].parent \in Piece(r)
<1> DEFINE R == Roots(vertices)
<1>1. DOMAIN vertices = DOMAIN query /\ IsForest(vertices)
  BY Numbers, TypesOfVertices
<1>2. R = [i \in DOMAIN query |-> RootBy(vertices, R, i)]
  BY <1>1, RootsAre
<1>3. \A i \in DOMAIN query : vertices[i].parent # 0 => vertices[i].parent \in DOMAIN query
  BY <1>1, DeclaredBy
<1>4. \A i \in DOMAIN query : i \in Piece(r) <=> R[i] = r
  BY <1>1 DEF Piece
<1> HIDE DEF R
<1>5. \A i \in DOMAIN query : R[i] = RootBy(vertices, R, i)
  <2> HIDE DEF RootBy
  <2> QED BY <1>2, Zenon
<1>6. Piece(r) \subseteq DOMAIN query
  BY <1>1 DEF Piece
<1> QED BY <1>3, <1>4, <1>5, <1>6 DEF RootBy

(* A piece whose root has been split is all split, and no cross-schema edge   *)
(* is left in it.                                                             *)
LEMMA PieceIsSplit ==
    ASSUME VerticesInv, NEW H, HaveBeenSplit(H), \A i \in Due : vertices[i].parent = 0,
           NEW r \in H, vertices[r].parent = 0
    PROVE  /\ r \in Piece(r)
           /\ Piece(r) \subseteq H
           /\ \A i \in Piece(r) : vertices[i].parent # 0 =>
                 vertices[i].parent \in Piece(r) /\ query[i].parent = vertices[i].parent
                    /\ ~IsCrossSchema(query, i)
<1>1. r \in Piece(r)
  BY InPiece DEF HaveBeenSplit
<1> DEFINE Left == Piece(r) \ H
<1>2. Left = {}
  <2> SUFFICES ASSUME Left # {} PROVE FALSE
    OBVIOUS
  <2>1. Left \in SUBSET Nat
    BY InPiece, Numbers
  <2> DEFINE i == Min(Left)
             p == vertices[i].parent
  <2>2. i \in Left /\ \A m \in Left : i <= m
    BY <2>1, MinIs
  <2> HIDE DEF i
  <2>3. i \in DOMAIN query /\ i \notin H /\ i # r
    BY <2>2, InPiece
  <2>4. p # 0 /\ p \in Piece(r)
    BY <2>2, <2>3, InPiece
  <2>5. p \notin H
    BY <2>3, <2>4 DEF HaveBeenSplit
  <2>6. IsUncut(vertices[i], query[i])
    BY <2>3, <2>4, CrossesAsInTheQuery
  <2>7. p \in 0..(i - 1) /\ i \in Nat
    BY <2>1, <2>2, <2>3, <2>6, Numbers DEF IsUncut
  <2>8. p \in Left
    BY <2>4, <2>5
  <2> HIDE DEF p, Left
  <2> QED BY <2>2, <2>7, <2>8
<1>3. ASSUME NEW i \in Piece(r), vertices[i].parent # 0
      PROVE  vertices[i].parent \in Piece(r) /\ query[i].parent = vertices[i].parent
                /\ ~IsCrossSchema(query, i)
  <2>1. i \in DOMAIN query /\ vertices[i].parent \in Piece(r)
    BY <1>3, InPiece
  <2>2. query[i].parent = vertices[i].parent
    BY <1>3, <2>1, CrossesAsInTheQuery DEF IsUncut
  <2>3. vertices[i].parent \in H
    BY <1>2, <2>1
  <2> QED BY <1>3, <2>1, <2>2, <2>3 DEF HaveBeenSplit
<1> QED BY <1>1, <1>2, <1>3

(* The type that is declared at a vertex is that in the query, or at the root *)
(* of a branch that was cut off its own type.                                 *)
LEMMA DeclaredInPieces ==
    ASSUME VerticesInv, NEW i \in DOMAIN query
    PROVE  /\ IsUncut(vertices[i], query[i]) => DeclaredTypes(vertices)[i] = DeclaredTypes(query)[i]
           /\ IsCut(i) => DeclaredTypes(vertices)[i] = TypesOf(query)[i]
<1>1. IsForest(vertices) /\ TypesOf(vertices) = TypesOf(query) /\ DOMAIN vertices = DOMAIN query
  BY TypesOfVertices, Numbers
<1>2. IsForest(query)
  BY DEF VerticesInv, IsTree, IsForest
<1>3. /\ vertices[i].parent = 0 => DeclaredTypes(vertices)[i] = vertices[i].edge
      /\ vertices[i].parent # 0 =>
            DeclaredTypes(vertices)[i] = FieldType(TypesOf(query)[vertices[i].parent], vertices[i].edge)
  BY <1>1, DeclaredBy
<1>4. /\ query[i].parent = 0 => DeclaredTypes(query)[i] = query[i].edge
      /\ query[i].parent # 0 =>
            DeclaredTypes(query)[i] = FieldType(TypesOf(query)[query[i].parent], query[i].edge)
  BY <1>2, DeclaredBy
<1> QED BY <1>3, <1>4 DEF IsUncut, IsCut, IsRoot

(* A piece that is split is within a schema.                                  *)
LEMMA IdsInAPiece ==
    ASSUME AllIsMerged, IsPosable, NEW H, HaveBeenSplit(H), \A i \in Due : vertices[i].parent = 0,
           NEW r \in H, vertices[r].parent = 0
    PROVE  SchemaIdsIn(Piece(r)) = {SchemaIdOf(r)}
<1>1. VerticesInv /\ TypesOf(vertices) = TypesOf(query)
  BY TypesOfVertices DEF IsPosable
<1>2. Piece(r) \subseteq DOMAIN query
  BY <1>1, InPiece
<1> DEFINE Others == {i \in Piece(r) : SchemaIdOf(i) # SchemaIdOf(r)}
<1>3. Others = {}
  <2> SUFFICES ASSUME Others # {} PROVE FALSE
    OBVIOUS
  <2>1. Others \in SUBSET Nat
    BY <1>1, <1>2, Numbers
  <2> DEFINE i == Min(Others)
             p == vertices[i].parent
  <2>2. i \in Others /\ \A m \in Others : i <= m
    BY <2>1, MinIs
  <2> HIDE DEF i
  <2>3. i \in Piece(r) /\ i \in DOMAIN query /\ i # r
    BY <1>2, <2>2
  <2>4. p # 0
    BY <1>1, <2>3, InPiece
  <2>5. p \in Piece(r) /\ query[i].parent = p /\ ~IsCrossSchema(query, i)
    BY <1>1, <2>3, <2>4, PieceIsSplit
  <2>6. SchemaIdOf(i) = SchemaIdOf(p)
    BY <2>3, <2>4, <2>5, SameSchema
  <2>7. p \in 0..(i - 1) /\ i \in Nat
    BY <1>1, <2>1, <2>2, <2>3, <2>5, Numbers
  <2>8. p \in Others
    BY <2>2, <2>5, <2>6
  <2> HIDE DEF p, Others
  <2> QED BY <2>2, <2>7, <2>8
<1>4. ASSUME NEW i \in Piece(r)
      PROVE  /\ TypesOf(vertices)[i] \in DOMAIN type_name_to_schema_id
             /\ \A t \in {TypesOf(vertices)[i], DeclaredTypes(vertices)[i]} :
                   type_name_to_schema_id[t] = SchemaIdOf(r)
  <2>1. /\ TypesOf(query)[i] \in DOMAIN type_name_to_schema_id
        /\ type_name_to_schema_id[TypesOf(query)[i]] = type_name_to_schema_id[DeclaredTypes(query)[i]]
    BY <1>2, VerticesAreClasses
  <2>2. DeclaredTypes(vertices)[i] \in {DeclaredTypes(query)[i], TypesOf(query)[i]}
    BY <1>1, <1>2, DeclaredInPieces DEF VerticesInv
  <2>3. SchemaIdOf(i) = SchemaIdOf(r)
    BY <1>3
  <2>4. type_name_to_schema_id[TypesOf(query)[i]] = SchemaIdOf(r)
    BY <2>3 DEF SchemaIdOf
  <2> QED BY <1>1, <2>1, <2>2, <2>4
<1>5. r \in Piece(r)
  BY <1>1, PieceIsSplit
<1> QED BY <1>4, <1>5 DEF SchemaIdsIn

(* What the pieces ask for are properties.                                    *)
PropertiesStay ==
    \A i \in DOMAIN query : \A f \in FieldsOf(vertices[i]) : FieldType(TypesOf(query)[i], f) \in scalars

(* A piece validates, if the types at which branches are cut off have root    *)
(* fields.                                                                    *)
LEMMA PieceValidates ==
    ASSUME AllIsMerged, IsPosable, PropertiesStay, NEW r,
           \A i \in DOMAIN query : IsCrossSchema(query, i) => TypesOf(query)[i] \in RootFields
    PROVE  Validates(vertices, Piece(r))
<1>1. VerticesInv /\ TypesOf(vertices) = TypesOf(query) /\ DOMAIN vertices = DOMAIN query
  BY TypesOfVertices, Numbers DEF IsPosable
<1> SUFFICES ASSUME NEW i \in DOMAIN query
             PROVE  /\ vertices[i].parent = 0 => vertices[i].edge \in RootFields
                    /\ DeclaredTypes(vertices)[i] \in NamesOf(definitions)
                    /\ TypesOf(vertices)[i] \in ClassesOf(DeclaredTypes(vertices)[i])
                                                   \cup {DeclaredTypes(vertices)[i]}
                    /\ \A k \in DOMAIN vertices[i].properties :
                          FieldType(TypesOf(vertices)[i], vertices[i].properties[k].field) \in scalars
                    /\ vertices[i].properties # <<>> \/ ChildrenOf(vertices, i) # {}
  BY <1>1, InPiece DEF Validates
<1>2. IsUncut(vertices[i], query[i]) \/ IsCut(i)
  BY <1>1 DEF VerticesInv
<1>3. vertices[i].parent = 0 => vertices[i].edge \in RootFields
  <2>1. query[i].parent = 0 => query[i].edge \in RootFields
    BY DEF IsPosable, Validates
  <2> QED BY <1>2, <2>1 DEF IsUncut, IsCut, IsRoot
<1>4. /\ DeclaredTypes(vertices)[i] \in NamesOf(definitions)
      /\ TypesOf(vertices)[i] \in ClassesOf(DeclaredTypes(vertices)[i]) \cup {DeclaredTypes(vertices)[i]}
  <2>1. CASE IsUncut(vertices[i], query[i])
    <3>1. DeclaredTypes(vertices)[i] = DeclaredTypes(query)[i]
      BY <1>1, <2>1, DeclaredInPieces
    <3> QED BY <1>1, <3>1, VerticesAreClasses
  <2>2. CASE IsCut(i)
    <3>1. DeclaredTypes(vertices)[i] = TypesOf(query)[i]
      BY <1>1, <2>2, DeclaredInPieces
    <3>2. PICK j, k : /\ j \in DOMAIN federation.schemas /\ IsClassAt(j, k)
                      /\ DefinitionAt(j, k).name = TypesOf(query)[i]
      BY VerticesAreClasses DEF IsClass
    <3>3. TypesOf(query)[i] \in NamesOf(definitions)
      BY <3>2, ClassIs DEF IsClassAt
    <3> QED BY <1>1, <3>1, <3>3
  <2> QED BY <1>2, <2>1, <2>2
<1>5. \A k \in DOMAIN vertices[i].properties :
         FieldType(TypesOf(vertices)[i], vertices[i].properties[k].field) \in scalars
  BY <1>1 DEF PropertiesStay, FieldsOf
<1>6. vertices[i].properties # <<>> \/ ChildrenOf(vertices, i) # {}
  <2>1. IsVertex(vertices[i]) /\ Grown(query[i], vertices[i]) /\ IsVertex(query[i])
    BY <1>1 DEF VerticesInv, IsTree
  <2>2. \A k \in DOMAIN vertices[i].properties : vertices[i].properties # <<>>
    <3>1. IsList(vertices[i].properties)
      BY <2>1 DEF IsVertex
    <3> DEFINE ps == vertices[i].properties
    <3> HIDE DEF ps
    <3>2. DOMAIN << >> = {}
      BY EmptyList, ListParts
    <3>3. \A k \in DOMAIN ps : ps # <<>>
      BY <3>2
    <3> QED BY <3>3 DEF ps
  <2>3. CASE query[i].properties # <<>>
    <3> DEFINE ps == query[i].properties
    <3>1. IsList(ps) /\ ps # <<>>
      BY <2>1, <2>3 DEF IsVertex
    <3> HIDE DEF ps
    <3>2. DOMAIN ps = 1..Len(ps) /\ Len(ps) \in Nat /\ Len(ps) # 0
      BY <3>1, ListParts
    <3>3. 1 \in DOMAIN ps
      BY <3>2
    <3> QED BY <2>1, <2>2, <3>3 DEF Grown, ps
  <2>4. CASE query[i].properties = <<>>
    <3>1. PICK j \in DOMAIN query : query[j].parent = i
      <4>1. ChildrenOf(query, i) # {}
        BY <2>4 DEF IsPosable, Validates
      <4> QED BY <4>1 DEF ChildrenOf
    <3>2. CASE IsUncut(vertices[j], query[j])
      BY <1>1, <3>1, <3>2 DEF ChildrenOf, IsUncut
    <3>3. CASE IsCut(j)
      <4>1. \E k : k \in DOMAIN vertices[i].properties
        BY <3>1, <3>3 DEF IsCut, Asks
      <4> QED BY <2>2, <4>1
    <3> QED BY <1>1, <3>2, <3>3 DEF VerticesInv
  <2> QED BY <2>3, <2>4
<1> QED BY <1>3, <1>4, <1>5, <1>6

-----------------------------------------------------------------------------
(* How pieces come to be                                                      *)

RootsAreCut == \A n \in DOMAIN nodes : vertices[nodes[n].root].parent = 0
IdsAreSet ==
    \A n \in DOMAIN nodes : n \in Pending \/ nodes[n].schema_id = SchemaIdOf(nodes[n].root)

PiecesInv ==
    split_outcome \in {"splitting", "split", "planned"} =>
        /\ Validates(query, DOMAIN query)
        /\ RootsAreCut
        /\ ~QueryTypeIsReferredTo => PropertiesStay /\ IdsAreSet

LeadsToNoRootField(i) == IsCrossSchema(query, i) /\ TypesOf(query)[i] \notin RootFields

(* The only error there may be is that a branch has a type without root field.*)
ErrorsInv ==
    split_outcome \in {"SchemaStructureError", "AssertionError"} =>
        /\ merge_outcome = "merged"
        /\ ~QueryTypeIsReferredTo =>
              split_outcome = "AssertionError" /\ \E i \in DOMAIN query : LeadsToNoRootField(i)

LEMMA QueryStays ==
    ASSUME UNCHANGED merge_vars
    PROVE  /\ QueryTypeIsReferredTo' = QueryTypeIsReferredTo
           /\ \A vs, I : Validates(vs, I)' = Validates(vs, I)
           /\ \A t, f : FieldType(t, f)' = FieldType(t, f)
           /\ scalars' = scalars
           /\ query' = query => \A i : /\ SchemaIdOf(i)' = SchemaIdOf(i)
                                       /\ LeadsToNoRootField(i)' = LeadsToNoRootField(i)
<1>1. /\ definitions' = definitions /\ federation' = federation /\ scalars' = scalars
      /\ query_type_fields' = query_type_fields
      /\ type_name_to_schema_id' = type_name_to_schema_id
  BY DEF merge_vars
<1>2. \A t, f : FieldType(t, f)' = FieldType(t, f)
  BY <1>1 DEF FieldType, FieldsNamed
<1>3. \A vs, i : TypesOf(vs)' = TypesOf(vs) /\ IsCrossSchema(vs, i)' = IsCrossSchema(vs, i)
  BY TypesStay
<1>4. \A vs : DeclaredTypes(vs)' = DeclaredTypes(vs)
  BY <1>2 DEF DeclaredTypes
<1>5. RootFields' = RootFields /\ NamesOf(definitions)' = NamesOf(definitions)
  BY <1>1 DEF RootFields
<1>6. \A d : ClassesOf(d)' = ClassesOf(d)
  BY <1>1 DEF ClassesOf, SubclassSet
<1>7. \A vs, I : Validates(vs, I)' = Validates(vs, I)
  BY <1>1, <1>2, <1>3, <1>4, <1>5, <1>6 DEF Validates
<1>8. QueryTypeIsReferredTo' = QueryTypeIsReferredTo
  BY <1>1 DEF QueryTypeIsReferredTo
<1>9. ASSUME query' = query, NEW i
      PROVE  SchemaIdOf(i)' = SchemaIdOf(i) /\ LeadsToNoRootField(i)' = LeadsToNoRootField(i)
  BY <1>1, <1>3, <1>5, <1>9 DEF SchemaIdOf, LeadsToNoRootField
<1> QED BY <1>1, <1>2, <1>7, <1>8, <1>9

(* Below what has been split, all that is to be split is a root.              *)
LEMMA DueAreRoots ==
    ASSUME NodesInv, QueueInv, RootsAreCut, Splitting => selections = {}
    PROVE  \A i \in Due : vertices[i].parent = 0
<1>1. CASE ~Splitting
  BY <1>1, Zenon DEF Due
<1>2. CASE Splitting
  <2> DEFINE q == query_nodes_to_split
  <2>1. IsList(q) /\ q # <<>> /\ ToSet(q) \subseteq DOMAIN nodes
    BY <1>2 DEF QueueInv
  <2>2. ToSet(q) = ToSet(Front(q)) \cup {CurrentNode}
    BY <2>1, LastAndFront DEF CurrentNode
  <2>3. SinksOf(nodes[CurrentNode]) \subseteq DOMAIN nodes
    BY <2>1, <2>2 DEF NodesInv, SinksOf
  <2>4. Due = selections \cup RootsOf(ToSet(Front(q))) \cup RootsOf(SinksOf(nodes[CurrentNode]))
    BY <1>2, Zenon DEF Due
  <2>5. \A i \in Due : \E n \in DOMAIN nodes : i = nodes[n].root
    BY <1>2, <2>1, <2>2, <2>3, <2>4 DEF RootsOf
  <2> QED BY <2>5 DEF RootsAreCut
<1> QED BY <1>1, <1>2

LEMMA PiecesProcess ==
    ASSUME VerticesInv, NodesInv, QueueInv, NEW H, HaveBeenSplit(H), PiecesInv,
           ~QueryTypeIsReferredTo => AllIsMerged, ProcessCrossSchemaField
    PROVE  PiecesInv'
<1>1. Splitting /\ UNCHANGED <<merge_vars, query, split_outcome>>
  BY Zenon DEF ProcessCrossSchemaField
<1>2. PICK j \in DOMAIN query : CutsOff(j)
  BY ProcessStep
<1>3. Validates(query, DOMAIN query) /\ RootsAreCut
      /\ (~QueryTypeIsReferredTo => PropertiesStay /\ IdsAreSet)
  BY <1>1 DEF PiecesInv, Splitting
<1>4. (Validates(query, DOMAIN query))'
  BY <1>1, <1>3, QueryStays
<1>5. RootsAreCut'
  <2> SUFFICES ASSUME NEW n \in DOMAIN nodes' PROVE vertices'[nodes'[n].root].parent = 0
    BY DEF RootsAreCut
  <2>1. CASE n \in DOMAIN nodes
    BY <1>2, <1>3, <2>1 DEF CutsOff, RootsAreCut, NodesInv
  <2>2. CASE n \notin DOMAIN nodes
    BY <1>2, <2>2 DEF CutsOff
  <2> QED BY <2>1, <2>2
<1>6. ASSUME ~QueryTypeIsReferredTo PROVE PropertiesStay' /\ IdsAreSet'
  <2>1. AllIsMerged /\ IsPosable /\ PropertiesStay /\ IdsAreSet
    BY <1>3, <1>6 DEF IsPosable
  <2>2. ASSUME NEW i \in DOMAIN query, NEW f \in FieldsOf(vertices'[i])
        PROVE  FieldType(TypesOf(query)[i], f) \in scalars
    <3>1. f \in FieldsOf(vertices[i]) \/ f \in AskedWhereCut(i, j)
      BY <1>2 DEF CutsOff
    <3> QED BY <1>2, <2>1, <3>1, AskedForProperties DEF CutsOff, PropertiesStay
  <2>3. PropertiesStay'
    <3>1. /\ query' = query /\ scalars' = scalars /\ \A t, f : FieldType(t, f)' = FieldType(t, f)
          /\ \A vs : TypesOf(vs)' = TypesOf(vs)
      BY <1>1, QueryStays, TypesStay
    <3> QED BY <2>2, <3>1 DEF PropertiesStay
  <2>4. \A i : SchemaIdOf(i)' = SchemaIdOf(i)
    BY <1>1, QueryStays
  <2>5. ASSUME NEW n \in DOMAIN nodes'
        PROVE  n \in Pending' \/ nodes'[n].schema_id = SchemaIdOf(nodes'[n].root)
    <3>1. CASE n \in DOMAIN nodes
      BY <1>2, <2>1, <3>1 DEF CutsOff, IdsAreSet
    <3>2. CASE n \notin DOMAIN nodes
      BY <1>2, <3>2 DEF CutsOff
    <3> QED BY <3>1, <3>2
  <2>6. IdsAreSet'
    BY <2>4, <2>5 DEF IdsAreSet
  <2> QED BY <2>3, <2>6
<1>7. QueryTypeIsReferredTo' = QueryTypeIsReferredTo
  BY <1>1, QueryStays
<1> QED BY <1>4, <1>5, <1>6, <1>7 DEF PiecesInv

(* The piece of the current node when all of it is split.                     *)
LEMMA CurrentPiece ==
    ASSUME VerticesInv, NodesInv, QueueInv, NEW H, HaveBeenSplit(H), PiecesInv, AllIsMerged,
           Splitting, selections = {}
    PROVE  /\ SchemaIdsIn(Piece(nodes[CurrentNode].root)) = {SchemaIdOf(nodes[CurrentNode].root)}
           /\ (\A i \in DOMAIN query : ~LeadsToNoRootField(i)) =>
                 Validates(vertices, Piece(nodes[CurrentNode].root))
<1> DEFINE r == nodes[CurrentNode].root
<1>1. IsPosable /\ PropertiesStay /\ RootsAreCut
  BY DEF PiecesInv, Splitting, IsPosable, AllIsMerged
<1>2. \A i \in Due : vertices[i].parent = 0
  BY <1>1, DueAreRoots
<1>3. r \in H
  BY DEF HaveBeenSplit
<1>4. CurrentNode \in DOMAIN nodes
  <2>1. IsList(query_nodes_to_split) /\ query_nodes_to_split # <<>>
        /\ ToSet(query_nodes_to_split) \subseteq DOMAIN nodes
    BY DEF QueueInv
  <2> QED BY <2>1, LastAndFront DEF CurrentNode
<1>5. vertices[r].parent = 0
  BY <1>1, <1>4 DEF RootsAreCut
<1>6. SchemaIdsIn(Piece(r)) = {SchemaIdOf(r)}
  BY <1>1, <1>2, <1>3, <1>5, IdsInAPiece
<1>7. (\A i \in DOMAIN query : ~LeadsToNoRootField(i)) => Validates(vertices, Piece(r))
  BY <1>1, PieceValidates DEF LeadsToNoRootField
<1> QED BY <1>6, <1>7

LEMMA PiecesFinish ==
    ASSUME VerticesInv, NodesInv, QueueInv, NEW H, HaveBeenSplit(H), PiecesInv,
           ~QueryTypeIsReferredTo => AllIsMerged, FinishNode,
           split_outcome' \in {"splitting", "split", "planned"}
    PROVE  PiecesInv'
<1>1. Splitting /\ selections = {} /\ UNCHANGED <<merge_vars, query, vertices>>
  BY FinishMeans, Zenon
<1> PICK c : c = CurrentNode
  OBVIOUS
<1> PICK x : x = CHOOSE y \in SchemaIdsIn(Piece(nodes[c].root)) : TRUE
  OBVIOUS
<1>2. Finishes(c, x)
  BY FinishStep, Zenon
<1>3. Validates(query, DOMAIN query) /\ RootsAreCut
      /\ (~QueryTypeIsReferredTo => PropertiesStay /\ IdsAreSet)
  BY <1>1 DEF PiecesInv, Splitting
<1>4. (Validates(query, DOMAIN query))' /\ QueryTypeIsReferredTo' = QueryTypeIsReferredTo
  BY <1>1, <1>3, QueryStays
<1>5. RootsAreCut'
  BY <1>1, <1>2, <1>3 DEF RootsAreCut, Finishes
<1>6. ASSUME ~QueryTypeIsReferredTo PROVE PropertiesStay' /\ IdsAreSet'
  <2>1. AllIsMerged /\ PropertiesStay /\ IdsAreSet
    BY <1>3, <1>6
  <2>2. PropertiesStay'
    <3>1. /\ query' = query /\ scalars' = scalars /\ \A t, f : FieldType(t, f)' = FieldType(t, f)
          /\ \A vs : TypesOf(vs)' = TypesOf(vs)
      BY <1>1, QueryStays, TypesStay
    <3> QED BY <1>1, <2>1, <3>1 DEF PropertiesStay
  <2>3. x = SchemaIdOf(nodes[c].root)
    <3>1. SchemaIdsIn(Piece(nodes[c].root)) = {SchemaIdOf(nodes[c].root)}
      BY <1>1, <2>1, CurrentPiece
    <3> QED BY <3>1
  <2>4. \A i : SchemaIdOf(i)' = SchemaIdOf(i)
    BY <1>1, QueryStays
  <2>5. ASSUME NEW n \in DOMAIN nodes'
        PROVE  n \in Pending' \/ nodes'[n].schema_id = SchemaIdOf(nodes'[n].root)
    BY <1>2, <2>1, <2>3 DEF Finishes, IdsAreSet
  <2> QED BY <2>2, <2>4, <2>5 DEF IdsAreSet
<1> QED BY <1>4, <1>5, <1>6 DEF PiecesInv

LEMMA FinishRaises ==
    ASSUME FinishNode, split_outcome' \notin {"splitting", "split", "planned"}
    PROVE  LET piece == Piece(nodes[CurrentNode].root)
           IN  /\ Splitting /\ selections = {} /\ UNCHANGED <<merge_vars, query>>
               /\ \/ split_outcome' = "AssertionError" /\ ~Validates(vertices, piece)
                  \/ Cardinality(SchemaIdsIn(piece)) # 1
<1>1. \A rest : split_outcome' # IF rest = <<>> THEN "split" ELSE "splitting"
  BY Zenon
<1>2. ASSUME NEW P, RaiseInSplit(IF P THEN "SchemaStructureError" ELSE "AssertionError")
      PROVE  UNCHANGED <<merge_vars, query>> /\ (P \/ split_outcome' = "AssertionError")
  BY <1>2, Zenon DEF RaiseInSplit
<1> HIDE DEF RaiseInSplit
<1> QED BY <1>1, <1>2, Zenon DEF FinishNode

LEMMA ErrorsFinish ==
    ASSUME VerticesInv, NodesInv, QueueInv, NEW H, HaveBeenSplit(H), PiecesInv,
           merge_outcome = "merged", ~QueryTypeIsReferredTo => AllIsMerged, FinishNode,
           split_outcome' \notin {"splitting", "split", "planned"}
    PROVE  ErrorsInv'
<1> DEFINE piece == Piece(nodes[CurrentNode].root)
<1>1. /\ Splitting /\ selections = {} /\ UNCHANGED <<merge_vars, query>>
      /\ \/ split_outcome' = "AssertionError" /\ ~Validates(vertices, piece)
         \/ Cardinality(SchemaIdsIn(piece)) # 1
  BY FinishRaises
<1>2. merge_outcome' = "merged"
  BY <1>1 DEF merge_vars
<1>3. ASSUME ~QueryTypeIsReferredTo
      PROVE  split_outcome' = "AssertionError" /\ \E i \in DOMAIN query : LeadsToNoRootField(i)
  <2>1. /\ SchemaIdsIn(piece) = {SchemaIdOf(nodes[CurrentNode].root)}
        /\ (\A i \in DOMAIN query : ~LeadsToNoRootField(i)) => Validates(vertices, piece)
    BY <1>1, <1>3, CurrentPiece
  <2>2. Cardinality(SchemaIdsIn(piece)) = 1
    BY <2>1, FS_Singleton
  <2> QED BY <1>1, <2>1, <2>2
<1>4. QueryTypeIsReferredTo' = QueryTypeIsReferredTo /\ query' = query
      /\ \A i : LeadsToNoRootField(i)' = LeadsToNoRootField(i)
  BY <1>1, QueryStays
<1> QED BY <1>2, <1>3, <1>4 DEF ErrorsInv

(* A step that leaves pieces and what they ask for as they are.               *)
LEMMA PiecesStay ==
    ASSUME NodesInv, PiecesInv, split_outcome \in {"splitting", "split", "planned"},
           UNCHANGED <<merge_vars, query, nodes>>, Pending \subseteq Pending',
           \A i \in DOMAIN query : /\ vertices'[i].parent = vertices[i].parent
                                   /\ FieldsOf(vertices'[i]) = FieldsOf(vertices[i])
    PROVE  PiecesInv'
<1>1. Validates(query, DOMAIN query) /\ RootsAreCut
      /\ (~QueryTypeIsReferredTo => PropertiesStay /\ IdsAreSet)
  BY DEF PiecesInv
<1>2. (Validates(query, DOMAIN query))' /\ QueryTypeIsReferredTo' = QueryTypeIsReferredTo
  BY <1>1, QueryStays
<1>3. RootsAreCut'
  BY <1>1 DEF RootsAreCut, NodesInv
<1>4. PropertiesStay => PropertiesStay'
  <2>1. /\ query' = query /\ scalars' = scalars /\ \A t, f : FieldType(t, f)' = FieldType(t, f)
        /\ \A vs : TypesOf(vs)' = TypesOf(vs)
    BY QueryStays, TypesStay
  <2> QED BY <2>1 DEF PropertiesStay
<1>5. IdsAreSet => IdsAreSet'
  <2>1. \A i : SchemaIdOf(i)' = SchemaIdOf(i)
    BY QueryStays
  <2> QED BY <2>1 DEF IdsAreSet
<1> QED BY <1>1, <1>2, <1>3, <1>4, <1>5 DEF PiecesInv

LEMMA PiecesRecurse ==
    ASSUME NodesInv, PiecesInv, RecurseOnIntraSchemaFields \/ UNCHANGED vars,
           split_outcome \in {"splitting", "split", "planned"}
    PROVE  PiecesInv'
<1>1. UNCHANGED <<merge_vars, query, vertices, nodes, query_nodes_to_split, split_outcome>>
  BY Zenon DEF RecurseOnIntraSchemaFields, vars, split_vars
<1>2. Pending' = Pending
  BY <1>1 DEF Pending, Splitting, CurrentNode
<1> QED BY <1>1, <1>2, PiecesStay DEF FieldsOf

LEMMA PiecesPlan ==
    ASSUME VerticesInv, NodesInv, PiecesInv, MakeQueryPlan,
           split_outcome' \in {"splitting", "split", "planned"}
    PROVE  PiecesInv'
<1>1. split_outcome = "split" /\ UNCHANGED <<merge_vars, query, nodes>>
  BY PlanMeans
<1>2. Pending = {}
  BY <1>1, Zenon DEF Pending, Splitting
<1>3. ASSUME NEW i \in DOMAIN query
      PROVE  /\ vertices'[i].parent = vertices[i].parent
             /\ FieldsOf(vertices'[i]) = FieldsOf(vertices[i])
  <2>1. IsVertex(vertices[i]) /\ i \in DOMAIN vertices
    BY Numbers DEF VerticesInv
  <2>2. ASSUME NEW out, NEW x, vertices'[i] = WithFilterAtOutput(vertices[i], out, x)
        PROVE  /\ vertices'[i].parent = vertices[i].parent
               /\ FieldsOf(vertices'[i]) = FieldsOf(vertices[i])
    BY <2>1, <2>2, WithFilterIs DEF Regardless
  <2> QED BY <2>1, <2>2, PlanMeans DEF FieldsOf
<1> QED BY <1>1, <1>2, <1>3, PiecesStay

LEMMA PiecesPose ==
    ASSUME PoseQuery, split_outcome' \in {"splitting", "split", "planned"}
    PROVE  PiecesInv'
<1>1. PICK q \in Queries :
         /\ Validates(q, DOMAIN q)
         /\ query' = q /\ vertices' = q /\ split_outcome' = "splitting"
         /\ nodes' = <<NewNode(1)>> /\ query_nodes_to_split' = <<1>>
         /\ UNCHANGED merge_vars
  BY DEF PoseQuery
<1>2. Validates(q, DOMAIN q)'
  BY <1>1, QueryStays
<1>3. q[1].parent = 0
  <2>1. IsList(q) /\ q # <<>> /\ \A i \in DOMAIN q : q[i].parent \in 0..(i - 1)
    BY QueriesAssumption DEF IsTree
  <2>2. Len(q) \in Nat /\ DOMAIN q = 1..Len(q) /\ Len(q) # 0
    BY <2>1, ListParts
  <2>3. 1 \in DOMAIN q
    BY <2>2
  <2> QED BY <2>1, <2>3
<1>4. ASSUME NEW e PROVE DOMAIN <<e>> = {1} /\ <<e>>[1] = e /\ ToSet(<<e>>) = {e}
  <2>1. DOMAIN <<e>> = {1} /\ <<e>>[1] = e
    OBVIOUS
  <2> QED BY <2>1 DEF ToSet
<1>5. DOMAIN nodes' = {1} /\ nodes'[1].root = 1
  <2>1. NewNode(1).root = 1
    BY DEF NewNode
  <2> HIDE DEF NewNode
  <2> QED BY <1>1, <1>4, <2>1
<1>6. 1 \in Pending'
  <2>1. ToSet(query_nodes_to_split') = {1}
    BY <1>1, <1>4
  <2> QED BY <1>1, <2>1 DEF Pending, Splitting
<1>7. RootsAreCut' /\ IdsAreSet'
  BY <1>1, <1>3, <1>5, <1>6 DEF RootsAreCut, IdsAreSet
<1>8. PropertiesStay'
  <2>1. \A i \in DOMAIN q : \A k \in DOMAIN q[i].properties :
           FieldType(TypesOf(q)[i], q[i].properties[k].field) \in scalars
    BY <1>1 DEF Validates
  <2>2. /\ scalars' = scalars /\ TypesOf(q)' = TypesOf(q) /\ \A t, f : FieldType(t, f)' = FieldType(t, f)
    BY <1>1, QueryStays, TypesStay
  <2>3. TypesOf(query)' = TypesOf(q)'
    BY <1>1
  <2> QED BY <1>1, <2>1, <2>2, <2>3 DEF PropertiesStay, FieldsOf
<1> QED BY <1>1, <1>2, <1>7, <1>8 DEF PiecesInv

(* A step that may be taken with an error keeps it.                           *)
LEMMA ErrorsStay ==
    ASSUME ErrorsInv, UNCHANGED <<merge_vars, query, split_outcome>>
    PROVE  ErrorsInv'
<1>1. QueryTypeIsReferredTo' = QueryTypeIsReferredTo
      /\ \A i : LeadsToNoRootField(i)' = LeadsToNoRootField(i)
  BY QueryStays
<1>2. merge_outcome' = merge_outcome
  BY DEF merge_vars
<1> QED BY <1>1, <1>2 DEF ErrorsInv

LEMMA PiecesNext ==
    ASSUME FederationInv, SplitInv, PiecesInv, ErrorsInv, [Next]_vars
    PROVE  PiecesInv' /\ ErrorsInv'
<1>1. ASSUME split_outcome \in {"splitting", "split", "planned"}
      PROVE  /\ merge_outcome = "merged" /\ VerticesInv /\ NodesInv /\ QueueInv
             /\ \E H \in SUBSET DOMAIN query : HaveBeenSplit(H)
             /\ ~QueryTypeIsReferredTo => AllIsMerged
  BY <1>1, FederationIsMerged DEF SplitInv
<1>2. ASSUME split_outcome' \in {"splitting", "split", "planned"} PROVE ErrorsInv'
  BY <1>2, Zenon DEF ErrorsInv
<1>3. ASSUME split_outcome' \notin {"splitting", "split", "planned"} PROVE PiecesInv'
  BY <1>3 DEF PiecesInv
<1>4. ASSUME split_outcome' = "GraphQLValidationError" PROVE PiecesInv' /\ ErrorsInv'
  BY <1>4, Zenon DEF PiecesInv, ErrorsInv
<1>5. CASE UNCHANGED vars
  <2>1. UNCHANGED <<merge_vars, query, split_outcome>>
    BY <1>5 DEF vars, split_vars
  <2> QED BY <1>1, <1>3, <1>5, <2>1, PiecesRecurse, ErrorsStay
<1>6. CASE Merge
  <2>1. MergeNext
    BY <1>6, Zenon DEF Merge
  <2>2. merge_outcome # "merged"
    <3>1. merge_outcome \in {"accumulating", "adding edges"}
      BY <2>1, MergingGoesOn, Zenon
    <3> QED BY <3>1, Zenon
  <2>3. split_outcome' = split_outcome
    BY <1>6 DEF Merge, split_vars
  <2>4. split_outcome' \notin {"splitting", "split", "planned", "SchemaStructureError", "AssertionError"}
    BY <1>1, <2>2, <2>3 DEF ErrorsInv
  <2>5. ErrorsInv'
    BY <2>4 DEF ErrorsInv
  <2> QED BY <1>3, <2>4, <2>5
<1>7. CASE PoseQuery
  <2>1. split_outcome' \in {"splitting", "GraphQLValidationError"}
    BY <1>7, Zenon DEF PoseQuery
  <2> QED BY <1>2, <1>4, <1>7, <2>1, PiecesPose
<1>8. CASE RejectRepeatedProperty \/ RejectCrossSchemaField
  <2>1. split_outcome' = "GraphQLValidationError"
    BY <1>8, Zenon DEF RejectRepeatedProperty, RejectCrossSchemaField, RaiseInSplit
  <2> QED BY <1>4, <2>1
<1>9. CASE ProcessCrossSchemaField
  <2>1. split_outcome = "splitting" /\ split_outcome' = split_outcome
    BY <1>9, Zenon DEF ProcessCrossSchemaField, Splitting
  <2> QED BY <1>1, <1>2, <1>9, <2>1, PiecesProcess
<1>10. CASE RecurseOnIntraSchemaFields
  <2>1. split_outcome = "splitting" /\ split_outcome' = split_outcome
    BY <1>10, Zenon DEF RecurseOnIntraSchemaFields, Splitting
  <2> QED BY <1>1, <1>2, <1>10, <2>1, PiecesRecurse
<1>11. CASE FinishNode
  <2>1. split_outcome = "splitting"
    BY <1>11, Zenon DEF FinishNode, Splitting
  <2>2. CASE split_outcome' \in {"splitting", "split", "planned"}
    BY <1>1, <1>2, <1>11, <2>1, <2>2, PiecesFinish
  <2>3. CASE split_outcome' \notin {"splitting", "split", "planned"}
    BY <1>1, <1>3, <1>11, <2>1, <2>3, ErrorsFinish
  <2> QED BY <2>2, <2>3
<1>12. CASE MakeQueryPlan
  <2>1. split_outcome = "split"
    BY <1>12, Zenon DEF MakeQueryPlan
  <2>2. split_outcome' \in {"planned", "GraphQLValidationError"}
    BY <1>12, Zenon DEF MakeQueryPlan, RaiseInSplit
  <2> QED BY <1>1, <1>2, <1>4, <1>12, <2>1, <2>2, PiecesPlan
<1> QED BY <1>5, <1>6, <1>7, <1>8, <1>9, <1>10, <1>11, <1>12 DEF Next

(* In a plan every piece has the id of the one schema that its types are of.  *)
LEMMA PlannedPieces ==
    ASSUME FederationInv, SplitInv, PiecesInv, ~QueryTypeIsReferredTo, split_outcome = "planned",
           NEW n \in DOMAIN nodes
    PROVE  SchemaIdsIn(Piece(nodes[n].root)) = {nodes[n].schema_id}
<1>1. /\ merge_outcome = "merged" /\ VerticesInv /\ NodesInv
      /\ Validates(query, DOMAIN query) /\ RootsAreCut /\ IdsAreSet
  BY DEF SplitInv, PiecesInv
<1>2. PICK H \in SUBSET DOMAIN query : HaveBeenSplit(H)
  BY DEF SplitInv
<1>3. AllIsMerged /\ IsPosable
  BY <1>1, FederationIsMerged DEF IsPosable
<1>4. Due = {} /\ Pending = {}
  BY Zenon DEF Due, Pending, Splitting
<1>5. nodes[n].root \in H
  BY <1>1, <1>2, <1>4, AllHaveBeenSplit DEF NodesInv
<1>6. SchemaIdsIn(Piece(nodes[n].root)) = {SchemaIdOf(nodes[n].root)}
  BY <1>1, <1>2, <1>3, <1>4, <1>5, IdsInAPiece DEF RootsAreCut
<1> QED BY <1>1, <1>4, <1>6 DEF IdsAreSet

(* A query over a schema that merge_schemas made can be split along its       *)
(* edges: no piece reaches over schemas, and a query that GraphQL validates   *)
(* only fails at an edge to a type that has no root field.                    *)
THEOREM MergedSchemasSplitWell == Spec => []MergedSchemasCanBeSplit
<1>1. Init => PiecesInv /\ ErrorsInv
  BY Zenon DEF Init, SplitInit, PiecesInv, ErrorsInv
<1>2. FederationInv /\ SplitInv /\ PiecesInv /\ ErrorsInv /\ [Next]_vars => PiecesInv' /\ ErrorsInv'
  BY PiecesNext
<1>3. FederationInv /\ SplitInv /\ PiecesInv /\ ErrorsInv => MergedSchemasCanBeSplit
  <2> SUFFICES ASSUME FederationInv, SplitInv, PiecesInv, ErrorsInv, ~QueryTypeIsReferredTo
               PROVE  MergedSchemasCanBeSplit
    BY DEF MergedSchemasCanBeSplit
  <2>1. split_outcome # "SchemaStructureError"
    BY Zenon DEF ErrorsInv
  <2>2. split_outcome = "AssertionError" =>
            \E i \in DOMAIN query : IsCrossSchema(query, i) /\ TypesOf(query)[i] \notin RootFields
    BY Zenon DEF ErrorsInv, LeadsToNoRootField
  <2>3. split_outcome = "planned" =>
            \A n \in DOMAIN nodes : SchemaIdsIn(Piece(nodes[n].root)) = {nodes[n].schema_id}
    BY PlannedPieces
  <2> QED BY <2>1, <2>2, <2>3 DEF MergedSchemasCanBeSplit
<1> QED BY <1>1, <1>2, <1>3, FederationInvariant, SplitInvariant, PTL DEF Spec

=============================================================================
