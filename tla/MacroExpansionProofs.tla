------------------------ MODULE MacroExpansionProofs -------------------------
(* Proofs about the expansion of macro edges: whatever macro edges a query    *)
(* uses, and however often, the tags of their bodies stay apart from its own, *)
(* tags stay in order, and what the query selects stays selected.             *)
EXTENDS MacroExpansion, FiniteSetTheorems, SequenceTheorems, WellFoundedInduction, TLAPS

-----------------------------------------------------------------------------
(* Lists and sets of numbers                                                  *)

(* A non-empty set of naturals has a least element.                           *)
LEMMA LeastNatural ==
    ASSUME NEW S \in SUBSET Nat, S # {}
    PROVE  \E n \in S : \A m \in S : n <= m
<1>1. PICK n \in S : \A m \in S : ~ (<<m, n>> \in OpToRel(<, Nat))
  BY NatLessThanWellFounded, WFMin
<1>2. ASSUME NEW m \in S, m < n PROVE FALSE
  <2>1. m \in Nat /\ n \in Nat
    OBVIOUS
  <2>2. <<m, n>> \in OpToRel(<, Nat)
    BY <2>1, <1>2, Zenon DEF OpToRel
  <2> QED BY <1>1, <2>2
<1>3. \A m \in S : n <= m
  BY <1>2
<1> QED BY <1>3

(* A non-empty set of indexes has a greatest one.                             *)
LEMMA GreatestIndex ==
    ASSUME NEW n \in Nat, NEW S \in SUBSET (1..n), S # {}
    PROVE  \E m \in S : \A k \in S : k <= m
<1> DEFINE T == {n - m : m \in S}
<1>1. T \in SUBSET Nat /\ T # {}
  <2>1. \A m \in S : n - m \in Nat
    OBVIOUS
  <2> QED BY <2>1
<1> HIDE DEF T
<1>2. PICK t \in T : \A u \in T : t <= u
  BY <1>1, LeastNatural
<1>3. PICK m \in S : t = n - m
  BY DEF T
<1>4. ASSUME NEW k \in S PROVE k <= m
  <2>1. n - m <= n - k
    BY <1>2, <1>3 DEF T
  <2>2. m \in Int /\ k \in Int
    OBVIOUS
  <2> QED BY <2>1, <2>2
<1> QED BY <1>4

LEMMA ListIs ==
    ASSUME NEW q, NEW n \in Nat, q = [i \in 1..n |-> q[i]]
    PROVE  IsList(q) /\ Len(q) = n
<1> DEFINE S == {q[i] : i \in 1..n}
<1>1. \A i \in 1..n : q[i] \in S
  OBVIOUS
<1> HIDE DEF S
<1>2. q \in [1..n -> S]
  BY <1>1
<1>3. q \in Seq(S)
  BY <1>2, SeqDef
<1>4. DOMAIN q = 1..n /\ DOMAIN q = 1..Len(q) /\ Len(q) \in Nat
  BY <1>2, <1>3, LenProperties
<1>5. Len(q) = n
  <2>1. n \in 1..n <=> n \in 1..Len(q)
    BY <1>4
  <2>2. Len(q) \in 1..n <=> Len(q) \in 1..Len(q)
    BY <1>4
  <2> QED BY <1>4, <2>1, <2>2
<1> QED BY <1>4, <1>5 DEF IsList

LEMMA ListParts ==
    ASSUME NEW q, IsList(q)
    PROVE  /\ Len(q) \in Nat /\ DOMAIN q = 1..Len(q)
           /\ q \in Seq({q[i] : i \in 1..Len(q)})
<1> DEFINE S == {q[i] : i \in 1..Len(q)}
           n == Len(q)
<1>1. n \in Nat /\ q = [i \in 1..n |-> q[i]] /\ \A i \in 1..n : q[i] \in S
  BY DEF IsList
<1> HIDE DEF S, n
<1>2. q \in [1..n -> S]
  BY <1>1
<1>3. q \in Seq(S)
  BY <1>1, <1>2, SeqDef
<1> QED BY <1>1, <1>2, <1>3 DEF n, S

(* A list made from n elements.                                               *)
LEMMA ListOf ==
    ASSUME NEW n \in Nat, NEW q, DOMAIN q = 1..n, q = [i \in DOMAIN q |-> q[i]]
    PROVE  IsList(q) /\ Len(q) = n
<1>1. q = [i \in 1..n |-> q[i]]
  OBVIOUS
<1> QED BY <1>1, ListIs

LEMMA ListConcat ==
    ASSUME NEW p, IsList(p), NEW q, IsList(q)
    PROVE  /\ IsList(p \o q) /\ Len(p \o q) = Len(p) + Len(q)
           /\ \A i \in 1..Len(p) : (p \o q)[i] = p[i]
           /\ \A i \in 1..Len(q) : (p \o q)[Len(p) + i] = q[i]
<1>1. PICK S, T : p \in Seq(S) /\ q \in Seq(T)
  BY ListParts
<1>2. p \in Seq(S \cup T) /\ q \in Seq(S \cup T)
  BY <1>1
<1>3. /\ p \o q \in Seq(S \cup T) /\ Len(p \o q) = Len(p) + Len(q)
      /\ \A i \in 1..(Len(p) + Len(q)) :
            (p \o q)[i] = IF i <= Len(p) THEN p[i] ELSE q[i - Len(p)]
  BY <1>2, ConcatProperties
<1>4. /\ p \o q = [i \in 1..(Len(p) + Len(q)) |-> (p \o q)[i]]
      /\ Len(p) \in Nat /\ Len(q) \in Nat
  BY <1>1, <1>3, LenProperties
<1>5. \A i \in 1..Len(p) : (p \o q)[i] = p[i]
  BY <1>3, <1>4
<1>6. ASSUME NEW i \in 1..Len(q) PROVE (p \o q)[Len(p) + i] = q[i]
  <2>1. /\ Len(p) + i \in 1..(Len(p) + Len(q)) /\ ~(Len(p) + i <= Len(p))
        /\ (Len(p) + i) - Len(p) = i
    BY <1>4
  <2> QED BY <2>1, <1>3
<1>7. IsList(p \o q)
  BY <1>4, ListIs
<1> QED BY <1>3, <1>5, <1>6, <1>7

LEMMA SingleList ==
    ASSUME NEW e
    PROVE  IsList(<<e>>) /\ Len(<<e>>) = 1 /\ <<e>>[1] = e
<1> DEFINE s == <<e>>
<1>1. s = [i \in 1..1 |-> s[i]] /\ s[1] = e
  OBVIOUS
<1> HIDE DEF s
<1>2. IsList(s) /\ Len(s) = 1
  BY <1>1, ListIs
<1> QED BY <1>1, <1>2 DEF s

(* The rest of a path below another one is a path.                            *)
LEMMA PathIs ==
    ASSUME NEW p, IsList(p), NEW q, IsList(q), NEW n \in Nat
    PROVE  IsList(p \o SubSeq(q, n + 1, Len(q)))
<1>1. Len(q) \in Nat /\ DOMAIN q = 1..Len(q)
  BY ListParts
<1> DEFINE S == {q[i] : i \in 1..Len(q)}
           m == n + 1
           l == Len(q)
<1>2. m \in Int /\ l \in Int /\ \A i \in m..l : q[i] \in S
  BY <1>1
<1> HIDE DEF S, m, l
<1>3. SubSeq(q, m, l) \in Seq(S)
  BY <1>2, SubSeqProperties
<1> DEFINE r == SubSeq(q, m, l)
<1>4. Len(r) \in Nat /\ r = [i \in 1..Len(r) |-> r[i]]
  BY <1>3, LenProperties
<1> HIDE DEF r
<1>5. IsList(r)
  BY <1>4, ListIs
<1>6. IsList(p \o r)
  BY <1>5, ListConcat
<1> QED BY <1>6 DEF r, m, l

(* What a name with a suffix is.                                              *)
LEMMA AppendIs ==
    ASSUME NEW s, IsList(s), NEW e
    PROVE  /\ Len(Append(s, e)) = Len(s) + 1 /\ Append(s, e)[Len(s) + 1] = e
           /\ Parent(Append(s, e)) = s
<1>1. PICK S : s \in Seq(S)
  BY ListParts
<1>2. s \in Seq(S \cup {e}) /\ e \in S \cup {e}
  BY <1>1
<1> DEFINE a == Append(s, e)
           U == S \cup {e}
<1>3. /\ a \in Seq(U) /\ Len(a) = Len(s) + 1
      /\ \A i \in 1..Len(s) : a[i] = s[i]
      /\ a[Len(s) + 1] = e
  BY <1>2, AppendProperties
<1> HIDE DEF a, U
<1>4. Len(s) \in Nat /\ Len(a) - 1 = Len(s)
  BY <1>1, <1>3, LenProperties
<1> DEFINE l == Len(s)
           b == SubSeq(a, 1, l)
<1>5. l \in Int /\ \A i \in 1..l : a[i] \in U /\ 1 + i - 1 = i
  <2>1. \A i \in 1..l : i \in 1..Len(a) /\ 1 + i - 1 = i
    BY <1>3, <1>4
  <2> QED BY <1>3, <1>4, <2>1, ElementOfSeq
<1>6. b \in Seq(U) /\ Len(b) = l /\ \A i \in 1..l : b[i] = a[i]
  <2>1. /\ b \in Seq(U) /\ Len(b) = IF 1 <= l THEN l - 1 + 1 ELSE 0
        /\ \A i \in 1..(l - 1 + 1) : b[i] = a[1 + i - 1]
    BY <1>5, SubSeqProperties
  <2>2. l - 1 + 1 = l /\ (~(1 <= l) => l = 0)
    BY <1>4
  <2> QED BY <2>1, <2>2, <1>5
<1> HIDE DEF b
<1>7. b = s
  <2>1. s \in Seq(U) /\ Len(b) = Len(s) /\ \A i \in 1..Len(b) : b[i] = s[i]
    BY <1>2, <1>3, <1>6 DEF U
  <2> QED BY <1>6, <2>1, SeqEqual
<1> QED BY <1>3, <1>4, <1>7 DEF Parent, a, b
-----------------------------------------------------------------------------
(* New names *)

AreApart(names) == \A t, u \in names : Parent(u) # t

(* A name with a suffix is found, since so many names cannot all be taken.    *)
LEMMA DisambiguationIsFree ==
    ASSUME NEW taken, IsFiniteSet(taken), NEW name, IsList(name)
    PROVE  LET new == Disambiguation(name, taken)
           IN  /\ new \notin taken
               /\ new = name \/ \E k : new = Append(name, k)
<1> DEFINE c == Cardinality(taken)
           Free == {k \in 0..c : Append(name, k) \notin taken}
<1>1. c \in Nat
  BY FS_CardinalityType
<1>2. Free # {}
  <2> SUFFICES ASSUME \A k \in 0..c : Append(name, k) \in taken PROVE FALSE
    OBVIOUS
  <2> DEFINE f == [k \in 0..c |-> Append(name, k)]
  <2> HIDE DEF c
  <2>1. IsFiniteSet(0..c) /\ Cardinality(0..c) = c + 1
    <3>1. 0 \in Int /\ c \in Int /\ ~(0 > c) /\ c - 0 + 1 = c + 1
      BY <1>1
    <3> QED BY <3>1, FS_Interval
  <2>2. f \in [0..c -> taken]
    OBVIOUS
  <2>3. Cardinality(taken) < Cardinality(0..c)
    BY <1>1, <2>1 DEF c
  <2>4. PICK x, y \in 0..c : x # y /\ f[x] = f[y]
    <3> HIDE DEF f
    <3> QED BY <2>1, <2>2, <2>3, FS_PigeonHole
  <2>5. Append(name, x) = Append(name, y)
    BY <2>4
  <2> QED BY <2>4, <2>5, AppendIs
<1>3. PICK k \in Free : \A j \in Free : k <= j
  <2>1. Free \in SUBSET Nat
    BY <1>1
  <2> QED BY <1>2, <2>1, LeastNatural
<1>4. \A j \in 0..(k - 1) : Append(name, j) \in taken
  BY <1>1, <1>3
<1>5. \E l \in 0..c : /\ Append(name, l) \notin taken
                      /\ \A j \in 0..(l - 1) : Append(name, j) \in taken
  BY <1>3, <1>4
<1> HIDE DEF c
<1> DEFINE l == CHOOSE l \in 0..c : /\ Append(name, l) \notin taken
                                    /\ \A j \in 0..(l - 1) : Append(name, j) \in taken
<1>6. Append(name, l) \notin taken
  BY <1>5
<1>7. Disambiguation(name, taken) = IF name \notin taken THEN name ELSE Append(name, l)
  BY DEF Disambiguation, c
<1> HIDE DEF l
<1> QED BY <1>6, <1>7

(* New names are free, and apart from each other if the names are.            *)
LEMMA ChangeIs ==
    ASSUME NEW taken, IsFiniteSet(taken), NEW names, IsFiniteSet(names),
           \A t \in names : IsList(t), NEW order \in Orders(names)
    PROVE  LET change == GenerateDisambiguations(taken, order)
           IN  /\ DOMAIN change = names
               /\ \A t \in names : change[t] \notin taken
               /\ AreApart(names) => \A t, u \in names : change[t] = change[u] => t = u
<1> DEFINE change == GenerateDisambiguations(taken, order)
           Earlier(t) == {m \in names : order[m] < order[t]}
<1>1. /\ order \in [names -> 1..Cardinality(names)] /\ DOMAIN order = names
      /\ \A m, n \in names : order[m] = order[n] => m = n
  BY DEF Orders
<1>2. change = [t \in names |-> Disambiguation(t, taken \cup Earlier(t))]
  BY <1>1 DEF GenerateDisambiguations
<1>3. ASSUME NEW t \in names
      PROVE  /\ change[t] \notin taken \cup Earlier(t)
             /\ change[t] = t \/ \E k : change[t] = Append(t, k)
  <2>1. IsFiniteSet(Earlier(t))
    BY FS_Subset
  <2>2. IsFiniteSet(taken \cup Earlier(t))
    <3> HIDE DEF Earlier
    <3> QED BY <2>1, FS_Union
  <2>3. change[t] = Disambiguation(t, taken \cup Earlier(t))
    BY <1>2
  <2> HIDE DEF change, Earlier
  <2>4. /\ Disambiguation(t, taken \cup Earlier(t)) \notin taken \cup Earlier(t)
        /\ \/ Disambiguation(t, taken \cup Earlier(t)) = t
           \/ \E k : Disambiguation(t, taken \cup Earlier(t)) = Append(t, k)
    <3> DEFINE all == taken \cup Earlier(t)
    <3>1. IsFiniteSet(all) /\ IsList(t)
      BY <2>2
    <3> HIDE DEF all
    <3>2. /\ Disambiguation(t, all) \notin all
          /\ Disambiguation(t, all) = t \/ \E k : Disambiguation(t, all) = Append(t, k)
      BY <3>1, DisambiguationIsFree
    <3> QED BY <3>2 DEF all
  <2> QED BY <2>3, <2>4
<1>4. ASSUME AreApart(names), NEW t \in names, NEW u \in names, change[t] = change[u],
             order[t] < order[u]
      PROVE  FALSE
  <2>1. t \in Earlier(u)
    BY <1>4
  <2>2. change[u] # t /\ Parent(u) # t /\ Parent(t) # u
    BY <1>3, <1>4, <2>1 DEF AreApart
  <2> HIDE DEF change, Earlier
  <2>3. CASE change[t] = t
    BY <1>4, <2>2, <2>3
  <2>4. ASSUME NEW k, change[t] = Append(t, k) PROVE FALSE
    <3>1. Parent(change[t]) = t
      BY <2>4, AppendIs
    <3>2. change[u] # u
      BY <1>4, <2>2, <3>1
    <3>3. Parent(change[u]) = u
      <4>1. PICK m : change[u] = Append(u, m)
        BY <1>3, <3>2
      <4> QED BY <4>1, AppendIs
    <3>4. t = u
      BY <1>4, <3>1, <3>3
    <3>5. order[t] \in Int /\ order[u] \in Int
      <4>1. Cardinality(names) \in Nat
        BY FS_CardinalityType
      <4> QED BY <1>1, <4>1
    <3> QED BY <1>4, <3>4, <3>5
  <2> QED BY <1>3, <2>3, <2>4
<1>5. ASSUME AreApart(names), NEW t \in names, NEW u \in names, change[t] = change[u]
      PROVE  t = u
  <2>1. order[t] \in Int /\ order[u] \in Int
    <3>1. Cardinality(names) \in Nat
      BY FS_CardinalityType
    <3> QED BY <1>1, <3>1
  <2>2. ~(order[t] < order[u]) /\ ~(order[u] < order[t])
    BY <1>4, <1>5
  <2>3. order[t] = order[u]
    BY <2>1, <2>2
  <2> QED BY <1>1, <2>3
<1> QED BY <1>2, <1>3, <1>5

-----------------------------------------------------------------------------
(* Tags of a body with new names *)

Images(change, S) == {change[t] : t \in S}

(* Directives as the body of a macro edge has them.                           *)
AreDirectives(D) == \A d \in D : IsDirective(d)

LEMMA RenamedAre ==
    ASSUME NEW D, AreDirectives(D), NEW change, NEW n \in Nat
    PROVE  LET R == Renamed(D, change, n)
           IN  /\ AreDirectives(R)
               /\ \A d \in R : d.scope = n
               /\ \A kind : (\A d \in D : d.kind # kind) => \A d \in R : d.kind # kind
               /\ TagsDeclared(R) = Images(change, TagsDeclared(D))
               /\ TagsUsed(R) = Images(change, TagsUsed(D))
<1> DEFINE New(d) == [d EXCEPT !.tags = Images(change, d.tags), !.scope = n]
           R == Renamed(D, change, n)
<1>1. R = {New(d) : d \in D}
  BY DEF Renamed, Images
<1>2. ASSUME NEW d \in D
      PROVE  /\ IsDirective(New(d)) /\ New(d).kind = d.kind /\ New(d).scope = n
             /\ New(d).tags = Images(change, d.tags)
  <2>1. IsDirective(d)
    BY DEF AreDirectives
  <2> DEFINE ts == Images(change, d.tags)
  <2>2. d = [kind |-> d.kind, tags |-> d.tags, params |-> d.params, text |-> d.text,
             scope |-> d.scope]
    BY <2>1 DEF IsDirective
  <2> HIDE DEF ts
  <2>3. New(d) = [kind |-> d.kind, tags |-> ts, params |-> d.params, text |-> d.text, scope |-> n]
    <3>1. New(d) = [d EXCEPT !.tags = ts, !.scope = n]
      BY DEF ts
    <3> HIDE DEF New
    <3> QED BY <2>2, <3>1
  <2> HIDE DEF New
  <2>4. New(d).kind = d.kind /\ New(d).scope = n /\ New(d).tags = ts
        /\ New(d) = [kind |-> New(d).kind, tags |-> New(d).tags, params |-> New(d).params,
                     text |-> New(d).text, scope |-> New(d).scope]
    BY <2>3
  <2>5. ASSUME d.kind = "tag" PROVE \E t \in ts : ts = {t}
    <3>1. PICK t \in d.tags : d.tags = {t}
      BY <2>1, <2>5 DEF IsDirective
    <3>2. ts = {change[t]}
      BY <3>1 DEF ts, Images
    <3> QED BY <3>2
  <2>6. IsDirective(New(d))
    BY <2>1, <2>4, <2>5 DEF IsDirective
  <2> QED BY <2>4, <2>6 DEF ts
<1> HIDE DEF R, New
<1>3. ASSUME NEW kind
      PROVE  UNION {d.tags : d \in {e \in R : e.kind = kind}}
                 = Images(change, UNION {d.tags : d \in {e \in D : e.kind = kind}})
  BY <1>1, <1>2 DEF Images
<1>4. TagsDeclared(R) = Images(change, TagsDeclared(D))
      /\ TagsUsed(R) = Images(change, TagsUsed(D))
  BY <1>3 DEF TagsDeclared, TagsUsed
<1>5. AreDirectives(R) /\ (\A d \in R : d.scope = n)
  BY <1>1, <1>2 DEF AreDirectives
<1>6. \A kind : (\A d \in D : d.kind # kind) => \A d \in R : d.kind # kind
  BY <1>1, <1>2
<1> QED BY <1>4, <1>5, <1>6 DEF R

(* Vertices of queries and of bodies.                                         *)
AreVertices(a) == IsList(a) /\ \A j \in DOMAIN a : IsVertex(a[j])

VertexWithNewNames(v, change, n) ==
    [v EXCEPT !.directives = Renamed(@, change, n),
              !.on_coercion = Renamed(@, change, n),
              !.fields = [f \in DOMAIN @ |-> Renamed(@[f], change, n)]]

LEMMA VertexRenamed ==
    ASSUME NEW v, IsVertex(v), NEW change, NEW n \in Nat
    PROVE  LET w == VertexWithNewNames(v, change, n)
           IN  /\ IsVertex(w) /\ w.path = v.path /\ w.type = v.type
               /\ DOMAIN w.fields = DOMAIN v.fields
               /\ \A f \in DOMAIN v.fields : w.fields[f] = Renamed(v.fields[f], change, n)
               /\ VertexDirectives(w) = Renamed(VertexDirectives(v), change, n)
               /\ FieldDirectives(w) = Renamed(FieldDirectives(v), change, n)
<1> DEFINE fields == [f \in DOMAIN v.fields |-> Renamed(v.fields[f], change, n)]
           w == [v EXCEPT !.directives = Renamed(v.directives, change, n),
                          !.on_coercion = Renamed(v.on_coercion, change, n),
                          !.fields = fields]
           ds == Renamed(v.directives, change, n)
           cs == Renamed(v.on_coercion, change, n)
<1>1. v = [path |-> v.path, type |-> v.type, coerced |-> v.coerced,
           directives |-> v.directives, on_coercion |-> v.on_coercion, fields |-> v.fields]
  BY DEF IsVertex
<1>2. w = [path |-> v.path, type |-> v.type, coerced |-> v.coerced,
           directives |-> ds, on_coercion |-> cs, fields |-> fields]
  <2> HIDE DEF fields, ds, cs
  <2>1. w = [v EXCEPT !.directives = ds, !.on_coercion = cs, !.fields = fields]
    BY DEF ds, cs
  <2> HIDE DEF w
  <2> QED BY <1>1, <2>1
<1>3. DOMAIN fields = DOMAIN v.fields
      /\ \A f \in DOMAIN v.fields : fields[f] = Renamed(v.fields[f], change, n)
  OBVIOUS
<1>4. \A C, D : Renamed(C \cup D, change, n) = Renamed(C, change, n) \cup Renamed(D, change, n)
  BY DEF Renamed
<1> HIDE DEF w, ds, cs, fields
<1>5. VertexDirectives(w) = Renamed(VertexDirectives(v), change, n)
  BY <1>2, <1>4 DEF VertexDirectives, ds, cs
<1>6. FieldDirectives(w) = Renamed(FieldDirectives(v), change, n)
  <2>1. FieldDirectives(w) = UNION {Renamed(v.fields[f], change, n) : f \in DOMAIN v.fields}
    BY <1>2, <1>3 DEF FieldDirectives
  <2>2. Renamed(FieldDirectives(v), change, n)
            = UNION {Renamed(v.fields[f], change, n) : f \in DOMAIN v.fields}
    <3> DEFINE New(d) == [d EXCEPT !.tags = {change[t] : t \in @}, !.scope = n]
    <3>1. \A D : Renamed(D, change, n) = {New(d) : d \in D}
      BY DEF Renamed
    <3> HIDE DEF New
    <3>2. \A d : d \in FieldDirectives(v) <=> \E f \in DOMAIN v.fields : d \in v.fields[f]
      BY DEF FieldDirectives
    <3>3. \A x : x \in Renamed(FieldDirectives(v), change, n)
                     <=> \E f \in DOMAIN v.fields : x \in Renamed(v.fields[f], change, n)
      BY <3>1, <3>2
    <3> QED BY <3>3
  <2> QED BY <2>1, <2>2
<1>7. IsVertex(w)
  <2>1. AreDirectives(VertexDirectives(v)) /\ AreDirectives(FieldDirectives(v))
    BY DEF IsVertex, DirectivesOf, AreDirectives
  <2>2. AreDirectives(VertexDirectives(w)) /\ AreDirectives(FieldDirectives(w))
    BY <1>5, <1>6, <2>1, RenamedAre
  <2>3. \A d \in VertexDirectives(w) : d.kind # "tag"
    <3>1. \A d \in VertexDirectives(v) : d.kind # "tag"
      BY DEF IsVertex
    <3> QED BY <1>5, <2>1, <3>1, RenamedAre
  <2>4. ~v.coerced => cs = {}
    BY DEF IsVertex, cs, Renamed
  <2>5. /\ w = [path |-> w.path, type |-> w.type, coerced |-> w.coerced,
                directives |-> w.directives, on_coercion |-> w.on_coercion, fields |-> w.fields]
        /\ w.path = v.path /\ w.type = v.type /\ w.coerced = v.coerced /\ w.on_coercion = cs
    BY <1>2
  <2>6. /\ IsList(v.path) /\ v.type \in DOMAIN MacroEdgesAtClass /\ v.coerced \in BOOLEAN
    BY DEF IsVertex
  <2>7. \A d \in DirectivesOf(w) : IsDirective(d)
    BY <2>2 DEF DirectivesOf, AreDirectives
  <2> QED BY <2>3, <2>4, <2>5, <2>6, <2>7 DEF IsVertex
<1>8. w.path = v.path /\ w.type = v.type /\ w.fields = fields
  BY <1>2
<1>9. w = VertexWithNewNames(v, change, n)
  BY DEF w, fields, VertexWithNewNames
<1> QED BY <1>3, <1>5, <1>6, <1>7, <1>8, <1>9

LEMMA BodyRenamed ==
    ASSUME NEW body, AreVertices(body), NEW change, NEW n \in Nat
    PROVE  LET R == ReplaceTagNames(body, change, n)
           IN  /\ AreVertices(R) /\ DOMAIN R = DOMAIN body /\ Len(R) = Len(body)
               /\ \A k \in DOMAIN body :
                     /\ R[k].path = body[k].path /\ R[k].type = body[k].type
                     /\ DOMAIN R[k].fields = DOMAIN body[k].fields
                     /\ \A f \in DOMAIN body[k].fields :
                           R[k].fields[f] = Renamed(body[k].fields[f], change, n)
                     /\ VertexDirectives(R[k]) = Renamed(VertexDirectives(body[k]), change, n)
                     /\ FieldDirectives(R[k]) = Renamed(FieldDirectives(body[k]), change, n)
<1> DEFINE R == ReplaceTagNames(body, change, n)
           New(v) == VertexWithNewNames(v, change, n)
<1>1. R = [k \in DOMAIN body |-> New(body[k])]
  BY DEF ReplaceTagNames, VertexWithNewNames
<1>2. Len(body) \in Nat /\ DOMAIN body = 1..Len(body)
  BY ListParts DEF AreVertices
<1> HIDE DEF R, New
<1>3. DOMAIN R = DOMAIN body /\ R = [k \in DOMAIN R |-> R[k]] /\ \A k \in DOMAIN body : R[k] = New(body[k])
  BY <1>1
<1>4. IsList(R) /\ Len(R) = Len(body)
  BY <1>2, <1>3, ListOf
<1>5. ASSUME NEW v, IsVertex(v)
      PROVE  LET w == New(v)
             IN  /\ IsVertex(w) /\ w.path = v.path /\ w.type = v.type
                 /\ DOMAIN w.fields = DOMAIN v.fields
                 /\ \A f \in DOMAIN v.fields : w.fields[f] = Renamed(v.fields[f], change, n)
                 /\ VertexDirectives(w) = Renamed(VertexDirectives(v), change, n)
                 /\ FieldDirectives(w) = Renamed(FieldDirectives(v), change, n)
  <2> USE DEF New
  <2> QED BY <1>5, VertexRenamed
<1>6. \A k \in DOMAIN body : IsVertex(body[k])
  BY DEF AreVertices
<1> QED BY <1>3, <1>4, <1>5, <1>6 DEF AreVertices, R

(* A tag is declared on a property field of a vertex.                         *)
DeclaredAt(v) == TagsDeclared(FieldDirectives(v))

LEMMA TagsOfUnion ==
    ASSUME NEW C, NEW D
    PROVE  /\ TagsDeclared(C \cup D) = TagsDeclared(C) \cup TagsDeclared(D)
           /\ TagsUsed(C \cup D) = TagsUsed(C) \cup TagsUsed(D)
  BY DEF TagsDeclared, TagsUsed

LEMMA TagsAreInFields ==
    ASSUME NEW v, IsVertex(v)
    PROVE  /\ TagsDeclared(DirectivesOf(v)) = DeclaredAt(v)
           /\ \A t : t \in DeclaredAt(v) <=> \E f \in DOMAIN v.fields : t \in TagsDeclared(v.fields[f])
<1>1. \A d \in VertexDirectives(v) : d.kind # "tag"
  BY DEF IsVertex
<1>2. TagsDeclared(VertexDirectives(v)) = {}
  BY <1>1 DEF TagsDeclared
<1>3. TagsDeclared(DirectivesOf(v)) = DeclaredAt(v)
  <2>1. PICK C, D : C = VertexDirectives(v) /\ D = FieldDirectives(v)
    OBVIOUS
  <2>2. TagsDeclared(C \cup D) = TagsDeclared(C) \cup TagsDeclared(D)
    BY TagsOfUnion
  <2> QED BY <1>2, <2>1, <2>2 DEF DirectivesOf, DeclaredAt
<1>4. ASSUME NEW t
      PROVE  t \in DeclaredAt(v) <=> \E f \in DOMAIN v.fields : t \in TagsDeclared(v.fields[f])
  BY DEF DeclaredAt, TagsDeclared, FieldDirectives
<1> QED BY <1>3, <1>4

LEMMA TagsOfAst ==
    ASSUME NEW a, AreVertices(a)
    PROVE  \A t : t \in AllTagNames(a) <=> \E k \in DOMAIN a : t \in DeclaredAt(a[k])
<1>1. \A k \in DOMAIN a : TagsDeclared(DirectivesOf(a[k])) = DeclaredAt(a[k])
  BY TagsAreInFields DEF AreVertices
<1>2. ASSUME NEW t
      PROVE  t \in AllTagNames(a) <=> \E k \in DOMAIN a : t \in TagsDeclared(DirectivesOf(a[k]))
  <2>1. t \in AllTagNames(a) <=> \E d \in AllDirectives(a) : d.kind = "tag" /\ t \in d.tags
    BY DEF AllTagNames, TagsDeclared
  <2>2. \A d : d \in AllDirectives(a) <=> \E k \in DOMAIN a : d \in DirectivesOf(a[k])
    BY DEF AllDirectives
  <2>3. \A D : t \in TagsDeclared(D) <=> \E d \in D : d.kind = "tag" /\ t \in d.tags
    BY DEF TagsDeclared
  <2> QED BY <2>1, <2>2, <2>3
<1> QED BY <1>1, <1>2

(* What TagsPrecedeFilters says of tags on property fields.                   *)
Precede(a) ==
    \A j \in DOMAIN a :
        /\ \A t \in TagsUsed(VertexDirectives(a[j])) :
              \E k \in DOMAIN a : k < j /\ t \in DeclaredAt(a[k])
        /\ \A t \in TagsUsed(FieldDirectives(a[j])) :
              \E k \in DOMAIN a : k <= j /\ t \in DeclaredAt(a[k])

LEMMA PrecedeMeans ==
    ASSUME NEW a, AreVertices(a)
    PROVE  TagsPrecedeFilters(a) <=> Precede(a)
<1>1. Len(a) \in Nat /\ DOMAIN a = 1..Len(a)
  BY ListParts DEF AreVertices
<1> DEFINE Earlier(j) == UNION {TagsDeclared(DirectivesOf(a[k])) : k \in 1..(j - 1)}
<1>2. ASSUME NEW j \in DOMAIN a
      PROVE  \A t : t \in Earlier(j) <=> \E k \in DOMAIN a : k < j /\ t \in DeclaredAt(a[k])
  <2>1. \A k : k \in 1..(j - 1) <=> k \in DOMAIN a /\ k < j
    BY <1>1
  <2>2. \A k \in DOMAIN a : TagsDeclared(DirectivesOf(a[k])) = DeclaredAt(a[k])
    BY TagsAreInFields DEF AreVertices
  <2>3. \A t : t \in Earlier(j) <=> \E k \in 1..(j - 1) : t \in TagsDeclared(DirectivesOf(a[k]))
    OBVIOUS
  <2> QED BY <2>1, <2>2, <2>3
<1>3. TagsPrecedeFilters(a) <=>
          \A j \in DOMAIN a : /\ TagsUsed(VertexDirectives(a[j])) \subseteq Earlier(j)
                              /\ TagsUsed(FieldDirectives(a[j]))
                                     \subseteq Earlier(j) \cup DeclaredAt(a[j])
  BY DEF TagsPrecedeFilters, DeclaredAt
<1> HIDE DEF Earlier
<1>4. \A j, k \in DOMAIN a : k <= j <=> k < j \/ k = j
  BY <1>1
<1> QED BY <1>2, <1>3, <1>4 DEF Precede

(* The tags of a body are in order under their new names.                     *)
LEMMA BodyStaysWellTagged ==
    ASSUME NEW body, AreVertices(body), WellTagged(body), NEW change, NEW n \in Nat
    PROVE  LET R == ReplaceTagNames(body, change, n)
               names == AllTagNames(body)
           IN  /\ AllTagNames(R) = Images(change, names)
               /\ Precede(R)
               /\ (\A t, u \in names : change[t] = change[u] => t = u) => TagsAreUnique(R)
               /\ \A d \in AllDirectives(R) : d.scope = n
<1> DEFINE R == ReplaceTagNames(body, change, n)
           names == AllTagNames(body)
<1>1. /\ AreVertices(R) /\ DOMAIN R = DOMAIN body
      /\ \A k \in DOMAIN body :
            /\ DOMAIN R[k].fields = DOMAIN body[k].fields
            /\ \A f \in DOMAIN body[k].fields :
                  R[k].fields[f] = Renamed(body[k].fields[f], change, n)
            /\ VertexDirectives(R[k]) = Renamed(VertexDirectives(body[k]), change, n)
            /\ FieldDirectives(R[k]) = Renamed(FieldDirectives(body[k]), change, n)
  BY BodyRenamed
<1> HIDE DEF R
<1>2. ASSUME NEW k \in DOMAIN body
      PROVE  /\ AreDirectives(VertexDirectives(body[k])) /\ AreDirectives(FieldDirectives(body[k]))
             /\ \A f \in DOMAIN body[k].fields : AreDirectives(body[k].fields[f])
  BY DEF AreVertices, IsVertex, DirectivesOf, AreDirectives, FieldDirectives
<1>3. ASSUME NEW k \in DOMAIN body
      PROVE  /\ DeclaredAt(R[k]) = Images(change, DeclaredAt(body[k]))
             /\ TagsUsed(VertexDirectives(R[k])) = Images(change, TagsUsed(VertexDirectives(body[k])))
             /\ TagsUsed(FieldDirectives(R[k])) = Images(change, TagsUsed(FieldDirectives(body[k])))
             /\ \A f \in DOMAIN body[k].fields :
                   TagsDeclared(R[k].fields[f]) = Images(change, TagsDeclared(body[k].fields[f]))
             /\ \A d \in DirectivesOf(R[k]) : d.scope = n
  BY <1>1, <1>2, RenamedAre DEF DeclaredAt, DirectivesOf
<1>4. \A t : t \in names <=> \E k \in DOMAIN body : t \in DeclaredAt(body[k])
  BY TagsOfAst
<1>5. AllTagNames(R) = Images(change, names)
  <2>1. \A t : t \in AllTagNames(R) <=> \E k \in DOMAIN R : t \in DeclaredAt(R[k])
    BY <1>1, TagsOfAst
  <2>2. \A S, t : t \in Images(change, S) <=> \E u \in S : t = change[u]
    BY DEF Images
  <2> HIDE DEF names
  <2>3. \A t : t \in AllTagNames(R) <=> t \in Images(change, names)
    BY <1>1, <1>3, <1>4, <2>1, <2>2
  <2> QED BY <2>3
<1>6. Precede(R)
  <2>1. Precede(body)
    BY PrecedeMeans DEF WellTagged
  <2> QED BY <1>1, <1>3, <2>1 DEF Precede, Images
<1>7. ASSUME \A t, u \in names : change[t] = change[u] => t = u
      PROVE  TagsAreUnique(R)
  <2> SUFFICES ASSUME NEW j \in DOMAIN body, NEW k \in DOMAIN body,
                      NEW f \in DOMAIN body[j].fields, NEW g \in DOMAIN body[k].fields,
                      NEW t \in TagsDeclared(R[j].fields[f]) \cap TagsDeclared(R[k].fields[g])
               PROVE  j = k /\ f = g
    BY <1>1 DEF TagsAreUnique
  <2>1. PICK u \in TagsDeclared(body[j].fields[f]) : t = change[u]
    BY <1>3 DEF Images
  <2>2. PICK w \in TagsDeclared(body[k].fields[g]) : t = change[w]
    BY <1>3 DEF Images
  <2>3. u \in names /\ w \in names
    <3>1. IsVertex(body[j]) /\ IsVertex(body[k])
      BY DEF AreVertices
    <3>2. u \in DeclaredAt(body[j]) /\ w \in DeclaredAt(body[k])
      BY <2>1, <2>2, <3>1, TagsAreInFields
    <3> QED BY <1>4, <3>2
  <2>4. u = w
    BY <1>7, <2>1, <2>2, <2>3
  <2>5. TagsDeclared(body[j].fields[f]) \cap TagsDeclared(body[k].fields[g]) # {}
    BY <2>1, <2>2, <2>4
  <2> QED BY <2>5 DEF WellTagged, TagsAreUnique
<1>8. \A d \in AllDirectives(R) : d.scope = n
  BY <1>1, <1>3 DEF AllDirectives
<1> QED BY <1>5, <1>6, <1>7, <1>8 DEF R

-----------------------------------------------------------------------------
(* Paths                                                                      *)

(* q starts with p.                                                           *)
Starts(p, q) == Len(p) <= Len(q) /\ \A k \in 1..Len(p) : q[k] = p[k]

LEMMA ListsEqual ==
    ASSUME NEW p, IsList(p), NEW q, IsList(q), Len(p) = Len(q), \A k \in 1..Len(p) : p[k] = q[k]
    PROVE  p = q
<1>1. PICK n : n = Len(p)
  OBVIOUS
<1>2. p = [k \in 1..n |-> p[k]] /\ q = [k \in 1..n |-> q[k]] /\ \A k \in 1..n : p[k] = q[k]
  BY <1>1 DEF IsList
<1> QED BY <1>2

(* The first n elements of a list.                                            *)
LEMMA FirstsAre ==
    ASSUME NEW p, IsList(p), NEW n \in Nat, n <= Len(p)
    PROVE  LET r == SubSeq(p, 1, n)
           IN  IsList(r) /\ Len(r) = n /\ \A k \in 1..n : r[k] = p[k]
<1>1. PICK S : S = {p[i] : i \in 1..Len(p)}
  OBVIOUS
<1>2. Len(p) \in Nat
  BY ListParts
<1>3. 1 \in Int /\ n \in Int /\ \A i \in 1..n : p[i] \in S
  BY <1>1, <1>2
<1>4. PICK r : r = SubSeq(p, 1, n)
  OBVIOUS
<1>5. /\ r \in Seq(S) /\ Len(r) = (IF 1 <= n THEN n - 1 + 1 ELSE 0)
      /\ \A k \in 1..(n - 1 + 1) : r[k] = p[1 + k - 1]
  BY <1>3, <1>4, SubSeqProperties
<1>6. n - 1 + 1 = n /\ (~(1 <= n) => n = 0) /\ \A k \in 1..n : 1 + k - 1 = k
  OBVIOUS
<1>7. Len(r) = n /\ r = [k \in 1..Len(r) |-> r[k]] /\ \A k \in 1..n : r[k] = p[k]
  BY <1>5, <1>6, LenProperties
<1> QED BY <1>4, <1>7 DEF IsList

LEMMA PrefixIs ==
    ASSUME NEW p, IsList(p), NEW q, IsList(q)
    PROVE  IsPrefix(p, q) <=> Starts(p, q)
<1>1. PICK n \in Nat : n = Len(p)
  BY ListParts
<1>2. Len(q) \in Nat
  BY ListParts
<1>3. ASSUME n <= Len(q) PROVE IsPrefix(p, q) <=> Starts(p, q)
  <2>1. PICK u, v : u = SubSeq(p, 1, n) /\ v = SubSeq(q, 1, n)
    OBVIOUS
  <2>2. /\ IsList(u) /\ Len(u) = n /\ \A k \in 1..n : u[k] = p[k]
        /\ IsList(v) /\ Len(v) = n /\ \A k \in 1..n : v[k] = q[k]
    BY <1>1, <1>3, <2>1, FirstsAre
  <2>3. u = v <=> \A k \in 1..n : u[k] = v[k]
    BY <2>2, ListsEqual
  <2>4. IsPrefix(p, q) <=> u = v
    BY <1>1, <1>3, <2>1 DEF IsPrefix
  <2>5. Starts(p, q) <=> \A k \in 1..n : u[k] = v[k]
    BY <1>1, <1>3, <2>2 DEF Starts
  <2> QED BY <2>3, <2>4, <2>5
<1>4. ~(n <= Len(q)) => ~IsPrefix(p, q) /\ ~Starts(p, q)
  BY <1>1 DEF IsPrefix, Starts
<1> QED BY <1>3, <1>4

LEMMA ParentIs ==
    ASSUME NEW p, IsList(p), p # <<>>
    PROVE  /\ Len(p) \in Nat /\ 1 <= Len(p)
           /\ IsList(Parent(p)) /\ Len(Parent(p)) = Len(p) - 1
           /\ \A k \in 1..(Len(p) - 1) : Parent(p)[k] = p[k]
<1>1. Len(p) \in Nat
  BY ListParts
<1>2. 1 <= Len(p)
  <2>1. SUFFICES ASSUME Len(p) = 0 PROVE FALSE
    BY <1>1
  <2>2. PICK e : e = <<>>
    OBVIOUS
  <2>3. IsList(e) /\ Len(e) = 0
    <3>1. Len(e) = 0 /\ e \in Seq({}) /\ e = [k \in 1..0 |-> e[k]]
      BY <2>2
    <3> QED BY <3>1 DEF IsList
  <2>4. p = e
    BY <2>1, <2>3, ListsEqual
  <2> QED BY <2>2, <2>4
<1>3. PICK n \in Nat : n = Len(p) - 1
  BY <1>1, <1>2
<1>4. Parent(p) = SubSeq(p, 1, n) /\ n <= Len(p)
  BY <1>1, <1>3 DEF Parent
<1> QED BY <1>1, <1>2, <1>3, <1>4, FirstsAre

(* r is path, and then q without its first n steps.                           *)
Joined(r, path, q, n) ==
    /\ IsList(r) /\ Len(r) = Len(path) + (Len(q) - n)
    /\ \A k \in 1..Len(path) : r[k] = path[k]
    /\ \A k \in 1..(Len(q) - n) : r[Len(path) + k] = q[n + k]

LEMMA JoinedIs ==
    ASSUME NEW path, IsList(path), NEW q, IsList(q), NEW n \in Nat, n <= Len(q)
    PROVE  Joined(path \o SubSeq(q, n + 1, Len(q)), path, q, n)
<1>1. PICK S : S = {q[i] : i \in 1..Len(q)}
  OBVIOUS
<1>2. PICK l \in Nat : l = Len(q)
  BY ListParts
<1>3. PICK lo \in Nat : lo = n + 1
  OBVIOUS
<1>4. PICK r : r = SubSeq(q, lo, l)
  OBVIOUS
<1>5. lo \in Int /\ l \in Int /\ \A i \in lo..l : q[i] \in S
  BY <1>1, <1>2, <1>3
<1>6. /\ r \in Seq(S) /\ Len(r) = (IF lo <= l THEN l - lo + 1 ELSE 0)
      /\ \A k \in 1..(l - lo + 1) : r[k] = q[lo + k - 1]
  BY <1>4, <1>5, SubSeqProperties
<1>7. l - lo + 1 = l - n /\ (~(lo <= l) => l - n = 0) /\ \A k \in 1..(l - n) : lo + k - 1 = n + k
  BY <1>2, <1>3
<1>8. Len(r) = l - n /\ \A k \in 1..(l - n) : r[k] = q[n + k]
  BY <1>6, <1>7
<1>9. IsList(r)
  <2>1. Len(r) \in Nat /\ r = [k \in 1..Len(r) |-> r[k]]
    BY <1>6, LenProperties
  <2> QED BY <2>1 DEF IsList
<1>10. PICK z : z = path \o r
  OBVIOUS
<1>11. /\ IsList(z) /\ Len(z) = Len(path) + Len(r)
       /\ \A k \in 1..Len(path) : z[k] = path[k]
       /\ \A k \in 1..Len(r) : z[Len(path) + k] = r[k]
  BY <1>9, <1>10, ListConcat
<1>12. Joined(z, path, q, n)
  BY <1>2, <1>8, <1>11 DEF Joined
<1> QED BY <1>2, <1>3, <1>4, <1>10, <1>12

(* A path that does not start with p may only become one that does by one     *)
(* step, to p.                                                                *)
LEMMA StepDown ==
    ASSUME NEW p, IsList(p), NEW q, IsList(q), q # <<>>, Starts(p, q), p # q
    PROVE  Starts(p, Parent(q))
<1>1. Len(p) \in Nat /\ Len(q) \in Nat
  BY ListParts
<1>2. Len(p) # Len(q)
  BY <1>1, ListsEqual DEF Starts
<1> QED BY <1>1, <1>2, ParentIs DEF Starts

LEMMA StartsTransitive ==
    ASSUME NEW p, IsList(p), NEW q, IsList(q), NEW r, IsList(r), Starts(p, q), Starts(q, r)
    PROVE  Starts(p, r)
<1>1. Len(p) \in Nat /\ Len(q) \in Nat /\ Len(r) \in Nat
  BY ListParts
<1> QED BY <1>1 DEF Starts

(* A path put below another one.                                              *)
LEMMA JoinedMeans ==
    ASSUME NEW path, IsList(path), NEW q, IsList(q), NEW n \in Nat, n <= Len(q), NEW r, Joined(r, path, q, n)
    PROVE  /\ IsList(r) /\ Len(r) \in Nat /\ Len(path) \in Nat /\ Len(q) \in Nat
           /\ Len(r) = Len(path) + (Len(q) - n) /\ Starts(path, r)
           /\ Len(q) = n => r = path
<1>1. Len(path) \in Nat /\ Len(q) \in Nat /\ IsList(r) /\ Len(r) \in Nat
  BY ListParts DEF Joined
<1>2. Len(r) = Len(path) + (Len(q) - n) /\ Starts(path, r)
  BY <1>1 DEF Joined, Starts
<1>3. ASSUME Len(q) = n PROVE r = path
  <2>1. Len(r) = Len(path) /\ \A k \in 1..Len(r) : r[k] = path[k]
    BY <1>1, <1>2, <1>3 DEF Joined
  <2> QED BY <1>1, <2>1, ListsEqual
<1> QED BY <1>1, <1>2, <1>3

(* The parent of a path that was put below another one.                       *)
LEMMA JoinedParent ==
    ASSUME NEW path, IsList(path), NEW q, IsList(q), NEW n \in Nat, n < Len(q), NEW r, Joined(r, path, q, n)
    PROVE  r # <<>> /\ q # <<>> /\ Joined(Parent(r), path, Parent(q), n)
<1>1. /\ Len(path) \in Nat /\ Len(q) \in Nat /\ IsList(r) /\ Len(r) \in Nat
      /\ Len(r) = Len(path) + (Len(q) - n)
  BY ListParts DEF Joined
<1>2. r # <<>> /\ q # <<>>
  <2>1. PICK e : e = <<>>
    OBVIOUS
  <2>2. Len(e) = 0
    BY <2>1
  <2>3. Len(r) # 0 /\ Len(q) # 0
    BY <1>1
  <2> QED BY <2>1, <2>2, <2>3
<1>3. /\ IsList(Parent(r)) /\ Len(Parent(r)) = Len(r) - 1
      /\ \A k \in 1..(Len(r) - 1) : Parent(r)[k] = r[k]
      /\ IsList(Parent(q)) /\ Len(Parent(q)) = Len(q) - 1
      /\ \A k \in 1..(Len(q) - 1) : Parent(q)[k] = q[k]
  BY <1>1, <1>2, ParentIs
<1>4. /\ Len(Parent(r)) = Len(path) + (Len(Parent(q)) - n)
      /\ \A k \in 1..Len(path) : Parent(r)[k] = path[k]
  <2>1. \A k \in 1..Len(path) : k \in 1..(Len(r) - 1) /\ r[k] = path[k]
    BY <1>1 DEF Joined
  <2> QED BY <1>1, <1>3, <2>1
<1>5. ASSUME NEW k \in 1..(Len(Parent(q)) - n) PROVE Parent(r)[Len(path) + k] = Parent(q)[n + k]
  <2>1. /\ Len(path) + k \in 1..(Len(r) - 1) /\ n + k \in 1..(Len(q) - 1) /\ k \in 1..(Len(q) - n)
    BY <1>1, <1>3, <1>5
  <2>2. r[Len(path) + k] = q[n + k]
    BY <2>1 DEF Joined
  <2> QED BY <1>3, <2>1, <2>2
<1> QED BY <1>2, <1>3, <1>4, <1>5 DEF Joined

(* One path starts with another where both are put.                           *)
LEMMA JoinedStarts ==
    ASSUME NEW path, IsList(path), NEW n \in Nat, NEW q, IsList(q), n <= Len(q), NEW r, Joined(r, path, q, n),
           NEW p, IsList(p), Starts(q, p), NEW t, Joined(t, path, p, n)
    PROVE  Starts(r, t)
<1>1. /\ Len(path) \in Nat /\ Len(q) \in Nat /\ Len(p) \in Nat /\ Len(q) <= Len(p)
      /\ Len(r) = Len(path) + (Len(q) - n) /\ Len(t) = Len(path) + (Len(p) - n)
  BY ListParts DEF Joined, Starts
<1>2. ASSUME NEW k \in 1..Len(r) PROVE t[k] = r[k]
  <2>1. CASE k <= Len(path)
    <3>1. k \in 1..Len(path)
      BY <1>1, <2>1
    <3> QED BY <3>1 DEF Joined
  <2>2. CASE ~(k <= Len(path))
    <3>1. PICK l \in Nat : k = Len(path) + l /\ l \in 1..(Len(q) - n) /\ l \in 1..(Len(p) - n)
      <4>1. k - Len(path) \in Nat /\ k = Len(path) + (k - Len(path))
        BY <1>1, <2>2
      <4>2. k - Len(path) \in 1..(Len(q) - n) /\ k - Len(path) \in 1..(Len(p) - n)
        BY <1>1, <2>2
      <4> QED BY <4>1, <4>2
    <3>2. r[k] = q[n + l] /\ t[k] = p[n + l]
      BY <3>1 DEF Joined
    <3>3. n + l \in 1..Len(q)
      BY <1>1, <3>1
    <3> QED BY <3>2, <3>3 DEF Starts
  <2> QED BY <2>1, <2>2
<1> QED BY <1>1, <1>2 DEF Starts

(* Two beginnings of one list.                                                *)
LEMMA Beginnings ==
    ASSUME NEW p, IsList(p), NEW q, IsList(q), NEW r, Starts(p, r), Starts(q, r), Len(p) <= Len(q)
    PROVE  Starts(p, q)
<1>1. Len(p) \in Nat /\ Len(q) \in Nat
  BY ListParts
<1> QED BY <1>1 DEF Starts

(* A path starts with its parent.                                             *)
LEMMA ParentStarts ==
    ASSUME NEW q, IsList(q), q # <<>>
    PROVE  Starts(Parent(q), q)
  BY ParentIs DEF Starts

(* The first vertex that is not under another one starts from above it.       *)
LEMMA NextIsAbove ==
    ASSUME NEW p, IsList(p), NEW q, IsList(q), q # <<>>, NEW r, IsList(r),
           Starts(Parent(q), r), Starts(p, r), ~Starts(p, q)
    PROVE  Starts(Parent(q), p) /\ Parent(q) # p
<1>1. IsList(Parent(q)) /\ Starts(Parent(q), q)
  BY ParentIs, ParentStarts
<1>2. ~Starts(p, Parent(q))
  BY <1>1, StartsTransitive
<1>3. ~(Len(p) <= Len(Parent(q)))
  BY <1>1, <1>2, Beginnings
<1>4. Len(Parent(q)) <= Len(p)
  BY <1>1, <1>3, ListParts
<1>5. Starts(p, p)
  BY ListParts DEF Starts
<1> QED BY <1>1, <1>2, <1>4, <1>5, Beginnings

-----------------------------------------------------------------------------
(* Document order                                                             *)

PathsDiffer(a) == \A j, k \in DOMAIN a : a[j].path = a[k].path => j = k

TreeOf(a) ==
    /\ AreVertices(a) /\ PathsDiffer(a) /\ a # <<>> /\ IsTree(a)

LEMMA TreePaths ==
    ASSUME NEW a, TreeOf(a)
    PROVE  /\ Len(a) \in Nat /\ DOMAIN a = 1..Len(a) /\ 1 <= Len(a)
           /\ \A j \in 1..Len(a) : IsVertex(a[j]) /\ IsList(a[j].path)
           /\ a[1].path = <<>> /\ Len(a[1].path) = 0
           /\ \A j \in 2..Len(a) :
                 /\ a[j].path # <<>> /\ IsList(Parent(a[j].path))
                 /\ Starts(Parent(a[j].path), a[j - 1].path)
           /\ \A j, k \in 1..Len(a) : a[j].path = a[k].path => j = k
<1>1. Len(a) \in Nat /\ DOMAIN a = 1..Len(a) /\ 1 <= Len(a)
  <2>1. IsList(a) /\ a # <<>>
    BY DEF TreeOf, AreVertices
  <2> QED BY <2>1, ParentIs, ListParts
<1>2. \A j \in 1..Len(a) : IsVertex(a[j]) /\ IsList(a[j].path)
  BY <1>1 DEF TreeOf, AreVertices, IsVertex
<1>3. a[1].path = <<>> /\ Len(a[1].path) = 0
  BY DEF TreeOf, IsTree
<1>4. ASSUME NEW j \in 2..Len(a)
      PROVE  /\ a[j].path # <<>> /\ IsList(Parent(a[j].path))
             /\ Starts(Parent(a[j].path), a[j - 1].path)
  <2>1. a[j].path # <<>> /\ IsPrefix(Parent(a[j].path), a[j - 1].path)
    BY DEF TreeOf, IsTree
  <2>2. j \in 1..Len(a) /\ j - 1 \in 1..Len(a)
    BY <1>1
  <2>3. IsList(Parent(a[j].path))
    BY <1>2, <2>1, <2>2, ParentIs
  <2> QED BY <1>2, <2>1, <2>2, <2>3, PrefixIs
<1>5. \A j, k \in 1..Len(a) : a[j].path = a[k].path => j = k
  BY <1>1 DEF TreeOf, PathsDiffer
<1> QED BY <1>1, <1>2, <1>3, <1>4, <1>5

(* The vertices under one follow it without a gap.                            *)
LEMMA NoGap ==
    ASSUME NEW a, TreeOf(a), NEW i \in 1..Len(a), NEW j \in 1..Len(a), NEW k \in 1..Len(a),
           i <= j, j <= k, Starts(a[i].path, a[k].path)
    PROVE  Starts(a[i].path, a[j].path)
<1> SUFFICES ASSUME ~Starts(a[i].path, a[j].path) PROVE FALSE
  OBVIOUS
<1>1. /\ Len(a) \in Nat /\ \A l \in 1..Len(a) : IsList(a[l].path)
      /\ \A l \in 2..Len(a) :
            /\ a[l].path # <<>> /\ IsList(Parent(a[l].path))
            /\ Starts(Parent(a[l].path), a[l - 1].path)
      /\ \A l, r \in 1..Len(a) : a[l].path = a[r].path => l = r
  BY TreePaths
<1>2. PICK S : S = {l \in 1..Len(a) : j <= l /\ Starts(a[i].path, a[l].path)}
  OBVIOUS
<1>3. S \in SUBSET Nat /\ S # {}
  BY <1>2
<1>4. PICK l \in S : \A r \in S : l <= r
  BY <1>3, LeastNatural
<1>5. l \in 2..Len(a) /\ j < l /\ i # l /\ l - 1 \in 1..Len(a) /\ l - 1 \notin S
  BY <1>1, <1>2, <1>4
<1>6. Starts(a[i].path, Parent(a[l].path))
  <2>1. a[i].path # a[l].path /\ l \in 1..Len(a)
    BY <1>1, <1>5
  <2> QED BY <1>1, <1>2, <1>4, <1>5, <2>1, StepDown
<1>7. Starts(a[i].path, a[l - 1].path)
  BY <1>1, <1>5, <1>6, StartsTransitive
<1> QED BY <1>2, <1>5, <1>7

(* No vertex is before one that it is under.                                  *)
LEMMA TopComesFirst ==
    ASSUME NEW a, TreeOf(a), NEW i \in 1..Len(a), NEW j \in 1..Len(a),
           Starts(a[i].path, a[j].path)
    PROVE  i <= j
<1>1. /\ Len(a) \in Nat /\ \A l \in 1..Len(a) : IsList(a[l].path)
      /\ a[1].path = <<>> /\ Len(a[1].path) = 0
      /\ \A l \in 2..Len(a) :
            /\ a[l].path # <<>> /\ IsList(Parent(a[l].path))
            /\ Starts(Parent(a[l].path), a[l - 1].path)
      /\ \A l, r \in 1..Len(a) : a[l].path = a[r].path => l = r
  BY TreePaths
<1>2. PICK S : S = {l \in 1..Len(a) : Starts(a[i].path, a[l].path)}
  OBVIOUS
<1>3. S \in SUBSET Nat /\ S # {} /\ j \in S
  BY <1>2
<1>4. PICK l \in S : \A r \in S : l <= r
  BY <1>3, LeastNatural
<1>5. l \in 1..Len(a) /\ l <= j /\ Starts(a[i].path, a[l].path)
  BY <1>2, <1>3, <1>4
<1>6. l = i
  <2>1. CASE l = 1
    <3>1. IsList(a[i].path) /\ Len(a[i].path) = 0 /\ IsList(a[1].path) /\ 1 \in 1..Len(a)
      <4>1. IsList(a[i].path) /\ Len(a[i].path) \in Nat
        BY <1>1, ListParts
      <4> QED BY <1>1, <1>5, <2>1, <4>1 DEF Starts
    <3>2. a[i].path = a[1].path
      BY <1>1, <3>1, ListsEqual
    <3> QED BY <1>1, <2>1, <3>1, <3>2
  <2>2. CASE l # 1
    <3> SUFFICES ASSUME l # i PROVE FALSE
      OBVIOUS
    <3>1. l \in 2..Len(a) /\ l - 1 \in 1..Len(a) /\ a[i].path # a[l].path
      BY <1>1, <1>5, <2>2
    <3>2. Starts(a[i].path, Parent(a[l].path))
      BY <1>1, <1>5, <3>1, StepDown
    <3>3. Starts(a[i].path, a[l - 1].path)
      BY <1>1, <3>1, <3>2, StartsTransitive
    <3> QED BY <1>2, <1>4, <1>5, <3>1, <3>3
  <2> QED BY <2>1, <2>2
<1> QED BY <1>5, <1>6

(* Every vertex but the root starts from one before it.                       *)
LEMMA HasParent ==
    ASSUME NEW a, TreeOf(a), NEW j \in 2..Len(a)
    PROVE  \E k \in 1..(j - 1) : a[k].path = Parent(a[j].path)
<1>1. PICK q : q = Parent(a[j].path)
  OBVIOUS
<1>2. /\ Len(a) \in Nat /\ \A l \in 1..Len(a) : IsList(a[l].path)
      /\ a[1].path = <<>> /\ Len(a[1].path) = 0
      /\ \A l \in 2..Len(a) :
            /\ a[l].path # <<>> /\ IsList(Parent(a[l].path))
            /\ Starts(Parent(a[l].path), a[l - 1].path)
  BY TreePaths
<1>3. IsList(q) /\ Len(q) \in Nat
  BY <1>1, <1>2, ListParts
<1>4. PICK S : S = {k \in 1..(j - 1) : Starts(q, a[k].path)}
  OBVIOUS
<1>5. S \in SUBSET Nat /\ S # {}
  BY <1>1, <1>2, <1>4
<1>6. PICK k \in S : \A l \in S : k <= l
  BY <1>5, LeastNatural
<1>7. k \in 1..(j - 1) /\ k \in 1..Len(a) /\ Starts(q, a[k].path) /\ IsList(a[k].path)
  BY <1>2, <1>4, <1>6
<1>8. a[k].path = q
  <2>1. CASE k = 1
    <3>1. Len(q) = 0 /\ Len(a[k].path) = 0
      BY <1>2, <1>3, <1>7, <2>1 DEF Starts
    <3> QED BY <1>3, <1>7, <3>1, ListsEqual
  <2>2. CASE k # 1
    <3> SUFFICES ASSUME a[k].path # q PROVE FALSE
      OBVIOUS
    <3>1. k \in 2..Len(a) /\ k - 1 \in 1..(j - 1) /\ k - 1 \in 1..Len(a)
      BY <1>2, <1>7, <2>2
    <3>2. Starts(q, Parent(a[k].path))
      BY <1>2, <1>3, <1>7, <3>1, StepDown
    <3>3. Starts(q, a[k - 1].path)
      BY <1>2, <1>3, <3>1, <3>2, StartsTransitive
    <3> QED BY <1>4, <1>6, <3>1, <3>3
  <2> QED BY <2>1, <2>2
<1> QED BY <1>1, <1>7, <1>8

-----------------------------------------------------------------------------
(* The vertices of the expanded query                                         *)

(* v is u, at another path or not.                                            *)
SameVertex(v, u) ==
    /\ v.type = u.type /\ v.coerced = u.coerced
    /\ v.directives = u.directives /\ v.on_coercion = u.on_coercion
    /\ v.fields = u.fields /\ VertexDirectives(v) = VertexDirectives(u)

(* v has the property fields of u and of w, and no other directives of its    *)
(* own than theirs.                                                           *)
Joins(v, u, w) ==
    /\ v.fields = MergedFields(u.fields, w.fields)
    /\ VertexDirectives(v) \subseteq VertexDirectives(u) \cup VertexDirectives(w)

LEMMA MergedFieldsIs ==
    ASSUME NEW f, NEW g
    PROVE  LET h == MergedFields(f, g)
           IN  /\ DOMAIN h = DOMAIN f \cup DOMAIN g
               /\ \A p \in DOMAIN f : f[p] \subseteq h[p]
               /\ \A p \in DOMAIN g : g[p] \subseteq h[p]
               /\ \A p \in DOMAIN h : \A d \in h[p] :
                     (p \in DOMAIN f /\ d \in f[p]) \/ (p \in DOMAIN g /\ d \in g[p])
  BY DEF MergedFields

(* The directives on the property fields of two vertices put together.        *)
LEMMA MergedFieldsHold ==
    ASSUME NEW f, NEW g, NEW v, v.fields = MergedFields(f, g), NEW d \in FieldDirectives(v)
    PROVE  \/ \E p \in DOMAIN f : d \in f[p]
           \/ \E p \in DOMAIN g : d \in g[p]
<1>1. PICK p \in DOMAIN v.fields : d \in v.fields[p]
  BY DEF FieldDirectives
<1> DEFINE h == MergedFields(f, g)
<1>2. v.fields = h
  OBVIOUS
<1>3. \A q \in DOMAIN h : \A e \in h[q] :
          (q \in DOMAIN f /\ e \in f[q]) \/ (q \in DOMAIN g /\ e \in g[q])
  BY MergedFieldsIs
<1> HIDE DEF h
<1> QED BY <1>1, <1>2, <1>3

WithPath(v, path) == [v EXCEPT !.path = path]

LEMMA WithPathIs ==
    ASSUME NEW v, IsVertex(v), NEW path, IsList(path)
    PROVE  LET w == WithPath(v, path)
           IN  IsVertex(w) /\ w.path = path /\ SameVertex(w, v)
<1> DEFINE w == WithPath(v, path)
<1>1. v = [path |-> v.path, type |-> v.type, coerced |-> v.coerced,
           directives |-> v.directives, on_coercion |-> v.on_coercion, fields |-> v.fields]
  BY DEF IsVertex
<1>2. w = [path |-> path, type |-> v.type, coerced |-> v.coerced,
           directives |-> v.directives, on_coercion |-> v.on_coercion, fields |-> v.fields]
  BY <1>1 DEF WithPath
<1> HIDE DEF w
<1>3. /\ w = [path |-> w.path, type |-> w.type, coerced |-> w.coerced,
              directives |-> w.directives, on_coercion |-> w.on_coercion, fields |-> w.fields]
      /\ w.path = path /\ w.type = v.type /\ w.coerced = v.coerced
      /\ w.directives = v.directives /\ w.on_coercion = v.on_coercion /\ w.fields = v.fields
  BY <1>2
<1>4. VertexDirectives(w) = VertexDirectives(v) /\ FieldDirectives(w) = FieldDirectives(v)
  BY <1>3 DEF VertexDirectives, FieldDirectives
<1>5. DirectivesOf(w) = DirectivesOf(v)
  BY <1>4 DEF DirectivesOf
<1>6. IsVertex(w)
  BY <1>3, <1>4, <1>5 DEF IsVertex
<1> QED BY <1>3, <1>4, <1>6 DEF SameVertex, w

(* v is u with the property fields of w added.                                *)
Widens(v, u, w) ==
    /\ v.path = u.path /\ v.type = u.type /\ v.coerced = u.coerced
    /\ v.directives = u.directives /\ v.on_coercion = u.on_coercion
    /\ Joins(v, u, w)

(* The property fields of a body go to the vertex the macro edge starts from. *)
LEMMA WithFieldsIs ==
    ASSUME NEW v, IsVertex(v), NEW u, IsVertex(u)
    PROVE  LET w == [v EXCEPT !.fields = MergedFields(v.fields, u.fields)]
           IN  IsVertex(w) /\ Widens(w, v, u)
<1> DEFINE h == MergedFields(v.fields, u.fields)
<1> HIDE DEF h
<1> DEFINE w == [v EXCEPT !.fields = h]
<1>1. v = [path |-> v.path, type |-> v.type, coerced |-> v.coerced,
           directives |-> v.directives, on_coercion |-> v.on_coercion, fields |-> v.fields]
  BY DEF IsVertex
<1>2. w = [path |-> v.path, type |-> v.type, coerced |-> v.coerced,
           directives |-> v.directives, on_coercion |-> v.on_coercion, fields |-> h]
  BY <1>1
<1> HIDE DEF w
<1>3. /\ w = [path |-> w.path, type |-> w.type, coerced |-> w.coerced,
              directives |-> w.directives, on_coercion |-> w.on_coercion, fields |-> w.fields]
      /\ w.path = v.path /\ w.type = v.type /\ w.coerced = v.coerced
      /\ w.directives = v.directives /\ w.on_coercion = v.on_coercion /\ w.fields = h
  BY <1>2
<1>4. VertexDirectives(w) = VertexDirectives(v)
  BY <1>3 DEF VertexDirectives
<1>5. \A d \in FieldDirectives(w) : d \in FieldDirectives(v) \/ d \in FieldDirectives(u)
  BY <1>3, MergedFieldsHold DEF h, FieldDirectives
<1>6. \A d \in DirectivesOf(w) : IsDirective(d)
  BY <1>4, <1>5 DEF DirectivesOf, IsVertex
<1>7. IsVertex(w)
  BY <1>3, <1>4, <1>6 DEF IsVertex
<1> QED BY <1>3, <1>4, <1>7 DEF Widens, Joins, w, h

(* v is the target u with the selection w merged into it; no filter of either *)
(* is lost when the selection has none beside a type coercion.                *)
Meets(v, u, w) ==
    /\ Joins(v, u, w)
    /\ v.type = IF w.coerced THEN w.type ELSE u.type
    /\ VertexDirectives(u) \subseteq VertexDirectives(v)
    /\ (w.coerced => w.directives = {}) => VertexDirectives(w) \subseteq VertexDirectives(v)

LEMMA MergedIs ==
    ASSUME NEW v, IsVertex(v), NEW u, IsVertex(u)
    PROVE  LET w == MergedIntoTarget(v, u)
           IN  IsVertex(w) /\ w.path = v.path /\ Meets(w, v, u)
<1> DEFINE added == IF u.coerced THEN u.on_coercion ELSE u.directives
           inside == v.coerced \/ u.coerced
           type == IF u.coerced THEN u.type ELSE v.type
           ds == IF inside THEN v.directives ELSE v.directives \cup added
           cs == IF inside THEN v.on_coercion \cup added ELSE v.on_coercion
           h == MergedFields(v.fields, u.fields)
           w == MergedIntoTarget(v, u)
<1>1. v = [path |-> v.path, type |-> v.type, coerced |-> v.coerced,
           directives |-> v.directives, on_coercion |-> v.on_coercion, fields |-> v.fields]
  BY DEF IsVertex
<1>2. w = [v EXCEPT !.type = type, !.coerced = inside, !.directives = ds,
                    !.on_coercion = cs, !.fields = h]
  BY DEF MergedIntoTarget
<1>3. /\ type \in DOMAIN MacroEdgesAtClass /\ inside \in BOOLEAN
      /\ ~inside => cs = {}
      /\ added \subseteq VertexDirectives(u)
      /\ ds \cup cs \subseteq VertexDirectives(v) \cup VertexDirectives(u)
      /\ VertexDirectives(v) \subseteq ds \cup cs
      /\ type = IF u.coerced THEN u.type ELSE v.type
  BY DEF IsVertex, VertexDirectives
<1>10. (u.coerced => u.directives = {}) => VertexDirectives(u) \subseteq ds \cup cs
  <2>1. added \subseteq ds \cup cs
    OBVIOUS
  <2>2. ~u.coerced => u.on_coercion = {}
    BY DEF IsVertex
  <2>3. (u.coerced => u.directives = {}) => VertexDirectives(u) \subseteq added
    BY <2>2 DEF VertexDirectives
  <2> QED BY <2>1, <2>3
<1> HIDE DEF w, h, ds, cs, type, inside, added
<1>4. w = [path |-> v.path, type |-> type, coerced |-> inside,
           directives |-> ds, on_coercion |-> cs, fields |-> h]
  BY <1>1, <1>2
<1>5. /\ w = [path |-> w.path, type |-> w.type, coerced |-> w.coerced,
              directives |-> w.directives, on_coercion |-> w.on_coercion, fields |-> w.fields]
      /\ w.path = v.path /\ w.type = type /\ w.coerced = inside
      /\ w.directives = ds /\ w.on_coercion = cs /\ w.fields = h
  BY <1>4
<1>6. /\ VertexDirectives(w) = ds \cup cs
      /\ VertexDirectives(w) \subseteq VertexDirectives(v) \cup VertexDirectives(u)
  BY <1>3, <1>5 DEF VertexDirectives
<1>7. \A d \in FieldDirectives(w) : d \in FieldDirectives(v) \/ d \in FieldDirectives(u)
  BY <1>5, MergedFieldsHold DEF h, FieldDirectives
<1>8. /\ \A d \in DirectivesOf(w) : IsDirective(d)
      /\ \A d \in VertexDirectives(w) : d.kind # "tag"
  BY <1>6, <1>7 DEF DirectivesOf, IsVertex
<1>9. IsVertex(w)
  BY <1>3, <1>5, <1>8 DEF IsVertex
<1>11. Joins(w, v, u)
  BY <1>5, <1>6 DEF Joins, h
<1>12. Meets(w, v, u)
  BY <1>3, <1>5, <1>6, <1>10, <1>11 DEF Meets
<1> QED BY <1>5, <1>9, <1>12 DEF w

(* The l vertices of a from one index to another.                             *)
Within(a, from, to, l) ==
    /\ from \in Nat /\ 1 <= from /\ to \in Nat /\ to <= Len(a)
    /\ l \in Nat /\ l = to - from + 1

(* v is u at path, but for the first n steps of its own.                      *)
Copied(v, u, n, path) == SameVertex(v, u) /\ Joined(v.path, path, u.path, n)

(* r is made of copies of them.                                               *)
Copies(r, a, from, l, n, path) ==
    /\ AreVertices(r) /\ Len(r) = l
    /\ \A k \in 1..l : Copied(r[k], a[from + k - 1], n, path)

LEMMA ReplantedIs ==
    ASSUME NEW a, AreVertices(a), NEW from, NEW to, NEW l, Within(a, from, to, l),
           NEW n \in Nat, NEW path, IsList(path), \A j \in from..to : n <= Len(a[j].path)
    PROVE  Copies(Replanted(a, from, to, n, path), a, from, l, n, path)
<1>8. PICK r : r = Replanted(a, from, to, n, path)
  OBVIOUS
<1> USE DEF Within
<1> DEFINE Moved(v) == WithPath(v, path \o SubSeq(v.path, n + 1, Len(v.path)))
<1>1. Len(a) \in Nat /\ DOMAIN a = 1..Len(a)
  BY ListParts DEF AreVertices
<1>2. l \in Nat /\ \A k \in 1..l : from + k - 1 \in DOMAIN a /\ from + k - 1 \in from..to
  BY <1>1
<1>3. r = [k \in 1..l |-> Moved(a[from + k - 1])]
  BY <1>8 DEF Replanted, WithPath
<1>4. ASSUME NEW v, IsVertex(v), n <= Len(v.path)
      PROVE  IsVertex(Moved(v)) /\ Copied(Moved(v), v, n, path)
  <2>1. IsList(v.path)
    BY <1>4 DEF IsVertex
  <2>2. PICK p : p = path \o SubSeq(v.path, n + 1, Len(v.path))
    OBVIOUS
  <2>3. IsList(p)
    BY <2>1, <2>2, PathIs
  <2>4. IsVertex(WithPath(v, p)) /\ SameVertex(WithPath(v, p), v) /\ WithPath(v, p).path = p
    BY <1>4, <2>3, WithPathIs
  <2>5. Joined(p, path, v.path, n)
    BY <1>4, <2>1, <2>2, JoinedIs
  <2> QED BY <2>2, <2>4, <2>5 DEF Copied
<1> HIDE DEF Moved
<1>5. IsList(r) /\ Len(r) = l
  <2>1. DOMAIN r = 1..l /\ r = [k \in DOMAIN r |-> r[k]]
    BY <1>3
  <2> QED BY <1>2, <2>1, ListOf
<1>6. ASSUME NEW k \in 1..l PROVE IsVertex(r[k]) /\ Copied(r[k], a[from + k - 1], n, path)
  <2>1. IsVertex(a[from + k - 1]) /\ n <= Len(a[from + k - 1].path)
    BY <1>2 DEF AreVertices
  <2> QED BY <1>3, <1>4, <2>1
<1>7. DOMAIN r = 1..l
  BY <1>3
<1> QED BY <1>5, <1>6, <1>7, <1>8 DEF AreVertices, Copies

LEMMA VerticesConcat ==
    ASSUME NEW p, AreVertices(p), NEW q, AreVertices(q)
    PROVE  /\ AreVertices(p \o q) /\ Len(p \o q) = Len(p) + Len(q)
           /\ \A k \in 1..Len(p) : (p \o q)[k] = p[k]
           /\ \A k \in 1..Len(q) : (p \o q)[Len(p) + k] = q[k]
<1> DEFINE r == p \o q
<1>1. /\ IsList(r) /\ Len(r) = Len(p) + Len(q)
      /\ \A k \in 1..Len(p) : r[k] = p[k]
      /\ \A k \in 1..Len(q) : r[Len(p) + k] = q[k]
  BY ListConcat DEF AreVertices
<1>2. /\ Len(p) \in Nat /\ DOMAIN p = 1..Len(p) /\ Len(q) \in Nat /\ DOMAIN q = 1..Len(q)
  BY ListParts DEF AreVertices
<1> HIDE DEF r
<1>3. DOMAIN r = 1..Len(r)
  BY <1>1, ListParts
<1>4. ASSUME NEW k \in DOMAIN r PROVE IsVertex(r[k])
  <2>1. CASE k <= Len(p)
    <3>1. k \in DOMAIN p
      BY <1>1, <1>2, <1>3, <2>1
    <3> QED BY <1>1, <1>2, <3>1 DEF AreVertices
  <2>2. CASE ~(k <= Len(p))
    <3>1. k - Len(p) \in DOMAIN q /\ Len(p) + (k - Len(p)) = k
      BY <1>1, <1>2, <1>3, <2>2
    <3>2. IsVertex(q[k - Len(p)]) /\ r[k] = q[k - Len(p)]
      BY <1>1, <1>2, <3>1 DEF AreVertices
    <3> QED BY <3>2
  <2> QED BY <2>1, <2>2
<1> QED BY <1>1, <1>4 DEF AreVertices, r

(* What is where in r when it holds the parts one after the other.            *)
HoldsParts(r, before, way, target, below, selections, siblings, after) ==
    LET slot == Len(before) + Len(way) + 1
        own == slot + Len(below)
        rest == own + Len(selections)
        tail == rest + Len(siblings)
    IN  /\ AreVertices(r) /\ Len(r) = tail + Len(after)
        /\ \A k \in 1..Len(before) : r[k] = before[k]
        /\ \A k \in 1..Len(way) : r[Len(before) + k] = way[k]
        /\ r[slot] = target
        /\ \A k \in 1..Len(below) : r[slot + k] = below[k]
        /\ \A k \in 1..Len(selections) : r[own + k] = selections[k]
        /\ \A k \in 1..Len(siblings) : r[rest + k] = siblings[k]
        /\ \A k \in 1..Len(after) : r[tail + k] = after[k]

LEMMA ArrangedIs ==
    ASSUME NEW before, AreVertices(before), NEW way, AreVertices(way), NEW target, IsVertex(target),
           NEW below, AreVertices(below), NEW selections, AreVertices(selections),
           NEW siblings, AreVertices(siblings), NEW after, AreVertices(after)
    PROVE  HoldsParts(Arranged(before, way, target, below, selections, siblings, after),
                      before, way, target, below, selections, siblings, after)
<1> DEFINE slot == Len(before) + Len(way) + 1
           own == slot + Len(below)
           rest == own + Len(selections)
           tail == rest + Len(siblings)
<1>1. /\ Len(before) \in Nat /\ Len(way) \in Nat /\ Len(below) \in Nat /\ Len(selections) \in Nat
      /\ Len(siblings) \in Nat /\ Len(after) \in Nat
  BY ListParts DEF AreVertices
<1>2. AreVertices(<<target>>) /\ Len(<<target>>) = 1 /\ <<target>>[1] = target
  <2>1. PICK s : s = <<target>>
    OBVIOUS
  <2>2. IsList(s) /\ Len(s) = 1 /\ s[1] = target
    BY <2>1, SingleList
  <2>3. DOMAIN s = 1..1
    BY <2>2, ListParts
  <2> QED BY <2>1, <2>2, <2>3 DEF AreVertices
<1>3. PICK single : single = <<target>>
  OBVIOUS
<1>4. PICK r2 : r2 = before \o way
  OBVIOUS
<1>5. PICK r3 : r3 = r2 \o single
  OBVIOUS
<1>6. PICK r4 : r4 = r3 \o below
  OBVIOUS
<1>7. PICK r5 : r5 = r4 \o selections
  OBVIOUS
<1>8. PICK r6 : r6 = r5 \o siblings
  OBVIOUS
<1>9. PICK r : r = r6 \o after
  OBVIOUS
<1>10. r = Arranged(before, way, target, below, selections, siblings, after)
  BY <1>3, <1>4, <1>5, <1>6, <1>7, <1>8, <1>9 DEF Arranged
<1> DEFINE Puts(z, p, q, l) ==
             /\ AreVertices(z) /\ Len(z) = l + Len(q)
             /\ \A k \in 1..l : z[k] = p[k]
             /\ \A k \in 1..Len(q) : z[l + k] = q[k]
<1>11. ASSUME NEW p, AreVertices(p), NEW q, AreVertices(q), NEW z, z = p \o q, NEW l, l = Len(p)
       PROVE  Puts(z, p, q, l)
  BY <1>11, VerticesConcat
<1> HIDE DEF Puts
<1>21. Puts(r2, before, way, Len(before))
  BY <1>4, <1>11
<1>22. Puts(r3, r2, single, Len(before) + Len(way))
  <2>1. AreVertices(r2) /\ Len(before) + Len(way) = Len(r2) /\ AreVertices(single)
    BY <1>2, <1>3, <1>21 DEF Puts
  <2> QED BY <1>5, <1>11, <2>1
<1>23. Puts(r4, r3, below, slot)
  <2>1. AreVertices(r3) /\ Len(r3) = slot
    BY <1>2, <1>3, <1>22 DEF Puts
  <2> QED BY <1>6, <1>11, <2>1
<1>24. Puts(r5, r4, selections, own)
  <2>1. AreVertices(r4) /\ Len(r4) = own
    BY <1>23 DEF Puts
  <2> QED BY <1>7, <1>11, <2>1
<1>25. Puts(r6, r5, siblings, rest)
  <2>1. AreVertices(r5) /\ Len(r5) = rest
    BY <1>24 DEF Puts
  <2> QED BY <1>8, <1>11, <2>1
<1>26. Puts(r, r6, after, tail)
  <2>1. AreVertices(r6) /\ Len(r6) = tail
    BY <1>25 DEF Puts
  <2> QED BY <1>9, <1>11, <2>1
<1> USE DEF Puts
<1>12. \A k \in 1..Len(siblings) : r[rest + k] = siblings[k]
  BY <1>1, <1>25, <1>26
<1>13. \A k \in 1..rest : r[k] = r5[k]
  BY <1>1, <1>25, <1>26
<1>14. \A k \in 1..Len(selections) : r[own + k] = selections[k]
  BY <1>1, <1>13, <1>24
<1>15. \A k \in 1..own : r[k] = r4[k]
  BY <1>1, <1>13, <1>24
<1>16. \A k \in 1..Len(below) : r[slot + k] = below[k]
  BY <1>1, <1>15, <1>23
<1>17. \A k \in 1..slot : r[k] = r3[k]
  BY <1>1, <1>15, <1>23
<1>18. r[slot] = target /\ \A k \in 1..(Len(before) + Len(way)) : r[k] = r2[k]
  <2>1. slot \in 1..slot /\ slot = Len(before) + Len(way) + 1
    BY <1>1
  <2>2. r3[slot] = single[1]
    BY <1>2, <1>3, <1>22, <2>1
  <2> QED BY <1>1, <1>2, <1>3, <1>17, <1>22, <2>1, <2>2
<1>19. /\ \A k \in 1..Len(before) : r[k] = before[k]
       /\ \A k \in 1..Len(way) : r[Len(before) + k] = way[k]
  BY <1>1, <1>18, <1>21
<1>20. AreVertices(r) /\ Len(r) = tail + Len(after)
  BY <1>26
<1>27. \A k \in 1..Len(after) : r[tail + k] = after[k]
  BY <1>26
<1>28. HoldsParts(r, before, way, target, below, selections, siblings, after)
  BY <1>27, <1>12, <1>14, <1>16, <1>18, <1>19, <1>20 DEF HoldsParts
<1> QED BY <1>10, <1>28

(* v keeps the directives on the property fields of u.                        *)
FieldsKept(u, v) ==
    \A p \in DOMAIN u.fields : p \in DOMAIN v.fields /\ u.fields[p] \subseteq v.fields[p]

(* Vertex x is a vertex of a, a vertex of body, or one of each put together.  *)
Origin(new, a, body, f, g, x) ==
    \/ \E j \in DOMAIN a : f[j] = x /\ SameVertex(new[x], a[j])
    \/ \E k \in DOMAIN body : g[k] = x /\ SameVertex(new[x], body[k])
    \/ \E j \in DOMAIN a, k \in DOMAIN body :
          /\ f[j] = x /\ g[k] = x
          /\ Joins(new[x], a[j], body[k]) \/ Joins(new[x], body[k], a[j])

(* The vertices of a and those of body are in the new query, each in their    *)
(* order, and it has no others.                                               *)
Weave(new, a, body, f, g) ==
    /\ AreVertices(new)
    /\ f \in [DOMAIN a -> DOMAIN new] /\ \A j, k \in DOMAIN a : j < k => f[j] < f[k]
    /\ g \in [DOMAIN body -> DOMAIN new] /\ \A j, k \in DOMAIN body : j < k => g[j] < g[k]
    /\ \A j \in DOMAIN a : FieldsKept(a[j], new[f[j]])
    /\ \A k \in DOMAIN body : FieldsKept(body[k], new[g[k]])
    /\ \A x \in DOMAIN new : Origin(new, a, body, f, g, x)

LEMMA SameKeeps ==
    ASSUME NEW v, NEW u, SameVertex(v, u)
    PROVE  FieldsKept(u, v)
  BY DEF SameVertex, FieldsKept

LEMMA JoinsKeeps ==
    ASSUME NEW v, NEW u, NEW w, Joins(v, u, w)
    PROVE  FieldsKept(u, v) /\ FieldsKept(w, v)
<1>1. PICK h, f, g : h = MergedFields(f, g) /\ f = u.fields /\ g = w.fields
  OBVIOUS
<1>2. /\ DOMAIN h = DOMAIN f \cup DOMAIN g
      /\ \A p \in DOMAIN f : f[p] \subseteq h[p]
      /\ \A p \in DOMAIN g : g[p] \subseteq h[p]
  BY <1>1, MergedFieldsIs
<1>3. v.fields = h
  BY <1>1 DEF Joins
<1> QED BY <1>1, <1>2, <1>3 DEF FieldsKept

(* Where the n vertices of the query go: the macro edge i to slot, those      *)
(* under it after own, and those after its last one after tail.               *)
Places(n, i, last, slot, own, tail) ==
    [j \in 1..n |-> IF j < i THEN j ELSE IF j = i THEN slot
                    ELSE IF j <= last THEN own + (j - i) ELSE tail + (j - last)]

CutsQuery(n, i, last, slot, own, tail, w) ==
    /\ n \in Nat /\ i \in Nat /\ 1 <= i /\ i <= n /\ last \in Nat /\ i <= last /\ last <= n
    /\ slot \in Nat /\ i <= slot /\ own \in Nat /\ slot <= own
    /\ tail \in Nat /\ own + (last - i) <= tail /\ w \in Nat /\ w = tail + (n - last)

LEMMA PlacesGrow ==
    ASSUME NEW n, NEW i, NEW last, NEW slot, NEW own, NEW tail, NEW w,
           CutsQuery(n, i, last, slot, own, tail, w)
    PROVE  LET f == Places(n, i, last, slot, own, tail)
           IN  f \in [1..n -> 1..w] /\ \A j, k \in 1..n : j < k => f[j] < f[k]
<1> USE DEF CutsQuery
<1> DEFINE Place(j) == IF j < i THEN j ELSE IF j = i THEN slot
                       ELSE IF j <= last THEN own + (j - i) ELSE tail + (j - last)
           f == [j \in 1..n |-> Place(j)]
<1>1. ASSUME NEW j \in 1..n PROVE Place(j) \in 1..w
  <2>1. CASE j < i
    BY <2>1
  <2>2. CASE j = i
    BY <2>2
  <2>3. CASE i < j /\ j <= last
    BY <2>3
  <2>4. CASE last < j
    BY <2>4
  <2> QED BY <2>1, <2>2, <2>3, <2>4
<1>2. ASSUME NEW j \in 1..n, NEW k \in 1..n, j < k PROVE Place(j) < Place(k)
  <2>1. CASE k < i
    BY <1>2, <2>1
  <2>2. CASE k = i
    BY <1>2, <2>2
  <2>3. CASE i < k /\ k <= last
    BY <1>2, <2>3
  <2>4. CASE last < k
    BY <1>2, <2>4
  <2> QED BY <2>1, <2>2, <2>3, <2>4
<1> HIDE DEF Place
<1>3. f \in [1..n -> 1..w] /\ \A j, k \in 1..n : j < k => f[j] < f[k]
  BY <1>1, <1>2
<1> QED BY <1>3 DEF Place, Places

(* Where the m vertices of the body go: its root to s, the way to the target  *)
(* from i on, what is below it after slot, and the rest after rest.           *)
PlacesOfBody(m, s, i, target, below, slot, rest) ==
    [k \in 1..m |-> IF k = 1 THEN s ELSE IF k < target THEN i - 2 + k
                    ELSE IF k <= below THEN slot + (k - target) ELSE rest + (k - below)]

CutsBody(m, s, i, target, below, slot, rest, w) ==
    /\ m \in Nat /\ i \in Nat /\ s \in Nat /\ 1 <= s /\ s < i
    /\ target \in Nat /\ 2 <= target /\ below \in Nat /\ target <= below /\ below <= m
    /\ slot \in Nat /\ slot = i + target - 2 /\ rest \in Nat /\ slot + (below - target) <= rest
    /\ w \in Nat /\ rest + (m - below) <= w

LEMMA PlacesOfBodyGrow ==
    ASSUME NEW m, NEW s, NEW i, NEW target, NEW below, NEW slot, NEW rest, NEW w,
           CutsBody(m, s, i, target, below, slot, rest, w)
    PROVE  LET g == PlacesOfBody(m, s, i, target, below, slot, rest)
           IN  g \in [1..m -> 1..w] /\ \A j, k \in 1..m : j < k => g[j] < g[k]
<1> USE DEF CutsBody
<1> DEFINE Place(k) == IF k = 1 THEN s ELSE IF k < target THEN i - 2 + k
                       ELSE IF k <= below THEN slot + (k - target) ELSE rest + (k - below)
           g == [k \in 1..m |-> Place(k)]
<1>1. ASSUME NEW j \in 1..m PROVE Place(j) \in 1..w
  <2>1. CASE j = 1
    BY <2>1
  <2>2. CASE 1 < j /\ j < target
    BY <2>2
  <2>3. CASE target <= j /\ j <= below
    BY <2>3
  <2>4. CASE below < j
    BY <2>4
  <2> QED BY <2>1, <2>2, <2>3, <2>4
<1>2. ASSUME NEW j \in 1..m, NEW k \in 1..m, j < k PROVE Place(j) < Place(k)
  <2>1. CASE k < target
    BY <1>2, <2>1
  <2>2. CASE target <= k /\ k <= below
    BY <1>2, <2>2
  <2>3. CASE below < k
    BY <1>2, <2>3
  <2> QED BY <2>1, <2>2, <2>3
<1> HIDE DEF Place
<1>3. g \in [1..m -> 1..w] /\ \A j, k \in 1..m : j < k => g[j] < g[k]
  BY <1>1, <1>2
<1> QED BY <1>3 DEF Place, PlacesOfBody

(* Which vertices of the query and of the body the parts of the new one hold. *)
HasParts(new, a, body, n, m, i, s, last, target, below, slot, own, rest, tail) ==
    /\ \A j \in 1..(i - 1) : j # s => SameVertex(new[j], a[j])
    /\ Joins(new[s], a[s], body[1])
    /\ \A k \in 1..(target - 2) : SameVertex(new[i - 1 + k], body[k + 1])
    /\ Joins(new[slot], body[target], a[i])
    /\ \A k \in 1..(below - target) : SameVertex(new[slot + k], body[target + k])
    /\ \A k \in 1..(last - i) : SameVertex(new[own + k], a[i + k])
    /\ \A k \in 1..(m - below) : SameVertex(new[rest + k], body[below + k])
    /\ \A k \in 1..(n - last) : SameVertex(new[tail + k], a[last + k])

(* They are woven together.                                                   *)
LEMMA PlacesWeave ==
    ASSUME NEW a, NEW body, NEW new, AreVertices(new),
           NEW n \in Nat, DOMAIN a = 1..n, NEW m \in Nat, DOMAIN body = 1..m,
           NEW w \in Nat, DOMAIN new = 1..w,
           NEW i \in Nat, i <= n, NEW s \in Nat, 1 <= s, s < i,
           NEW last \in Nat, i <= last, last <= n,
           NEW target \in Nat, 2 <= target, NEW below \in Nat, target <= below, below <= m,
           NEW slot \in Nat, slot = i + target - 2, NEW own \in Nat, own = slot + (below - target),
           NEW rest \in Nat, rest = own + (last - i), NEW tail \in Nat, tail = rest + (m - below),
           w = tail + (n - last),
           HasParts(new, a, body, n, m, i, s, last, target, below, slot, own, rest, tail)
    PROVE  Weave(new, a, body, Places(n, i, last, slot, own, tail),
                 PlacesOfBody(m, s, i, target, below, slot, rest))
<1> DEFINE f == Places(n, i, last, slot, own, tail)
           g == PlacesOfBody(m, s, i, target, below, slot, rest)
<1>3. f \in [1..n -> 1..w] /\ \A j, k \in 1..n : j < k => f[j] < f[k]
  <2>1. CutsQuery(n, i, last, slot, own, tail, w)
    <3>1. i <= slot /\ slot <= own /\ own + (last - i) <= tail /\ 1 <= i
      OBVIOUS
    <3> QED BY <3>1 DEF CutsQuery
  <2> QED BY <2>1, PlacesGrow
<1>4. g \in [1..m -> 1..w] /\ \A j, k \in 1..m : j < k => g[j] < g[k]
  <2>1. CutsBody(m, s, i, target, below, slot, rest, w)
    <3>1. slot + (below - target) <= rest /\ rest + (m - below) <= w
      OBVIOUS
    <3> QED BY <3>1 DEF CutsBody
  <2> QED BY <2>1, PlacesOfBodyGrow
<1>8. f = [j \in 1..n |-> IF j < i THEN j ELSE IF j = i THEN slot
                          ELSE IF j <= last THEN own + (j - i) ELSE tail + (j - last)]
  BY DEF Places
<1>9. g = [k \in 1..m |-> IF k = 1 THEN s ELSE IF k < target THEN i - 2 + k
                          ELSE IF k <= below THEN slot + (k - target) ELSE rest + (k - below)]
  BY DEF PlacesOfBody
<1> HIDE DEF f, g
<1>5. ASSUME NEW j \in 1..n PROVE FieldsKept(a[j], new[f[j]])
  <2>1. CASE j < i /\ j # s
    <3>1. j \in 1..(i - 1) /\ f[j] = j
      BY <1>8, <2>1
    <3> QED BY <2>1, <3>1, SameKeeps DEF HasParts
  <2>2. CASE j = s
    <3>1. f[j] = s
      BY <1>8, <2>2
    <3> QED BY <2>2, <3>1, JoinsKeeps DEF HasParts
  <2>3. CASE j = i
    <3>1. f[j] = slot
      BY <1>8, <2>3
    <3> QED BY <2>3, <3>1, JoinsKeeps DEF HasParts
  <2>4. CASE i < j /\ j <= last
    <3>1. j - i \in 1..(last - i) /\ i + (j - i) = j /\ f[j] = own + (j - i)
      BY <1>8, <2>4
    <3> QED BY <3>1, SameKeeps DEF HasParts
  <2>5. CASE last < j
    <3>1. j - last \in 1..(n - last) /\ last + (j - last) = j /\ f[j] = tail + (j - last)
      BY <1>8, <2>5
    <3> QED BY <3>1, SameKeeps DEF HasParts
  <2>6. j < i \/ j = i \/ (i < j /\ j <= last) \/ last < j
    OBVIOUS
  <2> QED BY <2>1, <2>2, <2>3, <2>4, <2>5, <2>6
<1>6. ASSUME NEW k \in 1..m PROVE FieldsKept(body[k], new[g[k]])
  <2>1. CASE k = 1
    <3>1. g[k] = s
      BY <1>9, <2>1
    <3> QED BY <2>1, <3>1, JoinsKeeps DEF HasParts
  <2>2. CASE 1 < k /\ k < target
    <3>1. k - 1 \in 1..(target - 2) /\ (k - 1) + 1 = k /\ g[k] = i - 1 + (k - 1)
      BY <1>9, <2>2
    <3> QED BY <3>1, SameKeeps DEF HasParts
  <2>3. CASE k = target
    <3>1. g[k] = slot
      BY <1>9, <1>9, <2>3
    <3> QED BY <2>3, <3>1, JoinsKeeps DEF HasParts
  <2>4. CASE target < k /\ k <= below
    <3>1. /\ k - target \in 1..(below - target) /\ target + (k - target) = k
          /\ g[k] = slot + (k - target)
      BY <1>9, <1>9, <2>4
    <3> QED BY <3>1, SameKeeps DEF HasParts
  <2>5. CASE below < k
    <3>1. k - below \in 1..(m - below) /\ below + (k - below) = k /\ g[k] = rest + (k - below)
      BY <1>9, <2>5
    <3> QED BY <3>1, SameKeeps DEF HasParts
  <2>6. k = 1 \/ (1 < k /\ k < target) \/ k = target \/ (target < k /\ k <= below) \/ below < k
    OBVIOUS
  <2> QED BY <2>1, <2>2, <2>3, <2>4, <2>5, <2>6
<1>7. ASSUME NEW x \in 1..w PROVE Origin(new, a, body, f, g, x)
  <2>1. CASE x < i /\ x # s
    <3>1. x \in 1..(i - 1) /\ x \in 1..n /\ f[x] = x
      BY <1>8, <2>1
    <3>2. SameVertex(new[x], a[x])
      BY <2>1, <3>1 DEF HasParts
    <3> QED BY <3>1, <3>2 DEF Origin
  <2>2. CASE x = s
    <3>1. s \in 1..n /\ f[s] = s /\ 1 \in 1..m /\ g[1] = s
      BY <1>9, <1>8
    <3> QED BY <2>2, <3>1 DEF Origin, HasParts
  <2>3. CASE i <= x /\ x < slot
    <3>1. /\ x - (i - 1) \in 1..(target - 2) /\ i - 1 + (x - (i - 1)) = x
          /\ x - (i - 1) + 1 \in 1..m /\ g[x - (i - 1) + 1] = x
      BY <1>9, <2>3
    <3>2. SameVertex(new[x], body[x - (i - 1) + 1])
      BY <3>1 DEF HasParts
    <3> QED BY <3>1, <3>2 DEF Origin
  <2>4. CASE x = slot
    <3>1. i \in 1..n /\ f[i] = slot /\ target \in 1..m /\ g[target] = slot
      BY <1>9, <1>8
    <3> QED BY <2>4, <3>1 DEF Origin, HasParts
  <2>5. CASE slot < x /\ x <= own
    <3>1. /\ x - slot \in 1..(below - target) /\ slot + (x - slot) = x
          /\ target + (x - slot) \in 1..m /\ g[target + (x - slot)] = x
      BY <1>9, <2>5
    <3>2. SameVertex(new[x], body[target + (x - slot)])
      BY <3>1 DEF HasParts
    <3> QED BY <3>1, <3>2 DEF Origin
  <2>6. CASE own < x /\ x <= rest
    <3>1. /\ x - own \in 1..(last - i) /\ own + (x - own) = x
          /\ i + (x - own) \in 1..n /\ f[i + (x - own)] = x
      BY <1>8, <2>6
    <3>2. SameVertex(new[x], a[i + (x - own)])
      BY <3>1 DEF HasParts
    <3> QED BY <3>1, <3>2 DEF Origin
  <2>7. CASE rest < x /\ x <= tail
    <3>1. /\ x - rest \in 1..(m - below) /\ rest + (x - rest) = x
          /\ below + (x - rest) \in 1..m /\ g[below + (x - rest)] = x
      BY <1>9, <2>7
    <3>2. SameVertex(new[x], body[below + (x - rest)])
      BY <3>1 DEF HasParts
    <3> QED BY <3>1, <3>2 DEF Origin
  <2>8. CASE tail < x
    <3>1. /\ x - tail \in 1..(n - last) /\ tail + (x - tail) = x
          /\ last + (x - tail) \in 1..n
      BY <2>8
    <3>3. f[last + (x - tail)] = x
      <4>1. PICK j \in 1..n : j = last + (x - tail)
        BY <3>1
      <4>2. ~(j < i) /\ j # i /\ ~(j <= last) /\ tail + (j - last) = x
        <5>1. j \in Nat /\ last \in Nat /\ tail \in Nat /\ x \in Nat /\ i \in Nat /\ i <= last
          OBVIOUS
        <5>2. last < j
          BY <2>8, <4>1, <5>1
        <5> QED BY <4>1, <5>1, <5>2
      <4> QED BY <1>8, <4>1, <4>2
    <3>2. SameVertex(new[x], a[last + (x - tail)])
      BY <3>1 DEF HasParts
    <3> QED BY <3>1, <3>2, <3>3 DEF Origin
  <2>9. \/ x < i
        \/ i <= x /\ x < slot
        \/ x = slot
        \/ slot < x /\ x <= own
        \/ own < x /\ x <= rest
        \/ rest < x /\ x <= tail
        \/ tail < x
    OBVIOUS
  <2> QED BY <2>1, <2>2, <2>3, <2>4, <2>5, <2>6, <2>7, <2>8, <2>9
<1>10. Weave(new, a, body, f, g)
  BY <1>3, <1>4, <1>5, <1>6, <1>7 DEF Weave
<1> QED BY <1>10 DEF f, g

LEMMA LastUnderIs ==
    ASSUME NEW a, TreeOf(a), NEW i \in DOMAIN a
    PROVE  /\ LastUnder(a, i) \in DOMAIN a /\ i <= LastUnder(a, i)
           /\ \A j \in DOMAIN a : Starts(a[i].path, a[j].path) <=> j \in i..LastUnder(a, i)
<1> DEFINE Under == {j \in DOMAIN a : IsPrefix(a[i].path, a[j].path)}
<1>1. Len(a) \in Nat /\ DOMAIN a = 1..Len(a)
  BY ListParts DEF TreeOf, AreVertices
<1>2. i \in Under
  <2>1. IsList(a[i].path)
    BY DEF TreeOf, AreVertices, IsVertex
  <2>2. PICK p : p = a[i].path
    OBVIOUS
  <2>3. Len(p) \in Nat /\ IsPrefix(p, p)
    BY <2>1, <2>2, ListParts DEF IsPrefix
  <2> QED BY <2>2, <2>3
<1>3. Under \in SUBSET (1..Len(a)) /\ Under # {}
  BY <1>1, <1>2
<1> DEFINE IsLast(j) == j \in Under /\ \A k \in Under : k <= j
<1>4. \E j : IsLast(j)
  <2> HIDE DEF Under
  <2> QED BY <1>1, <1>3, GreatestIndex
<1>5. LastUnder(a, i) = CHOOSE j \in DOMAIN a : IsLast(j)
  <2>1. \A j \in DOMAIN a :
            IsLast(j) <=> /\ IsPrefix(a[i].path, a[j].path)
                          /\ \A k \in DOMAIN a : IsPrefix(a[i].path, a[k].path) => k <= j
    OBVIOUS
  <2> HIDE DEF IsLast
  <2> QED BY <2>1 DEF LastUnder
<1>6. \E j \in DOMAIN a : IsLast(j)
  BY <1>4
<1> HIDE DEF IsLast
<1>7. IsLast(LastUnder(a, i))
  BY <1>5, <1>6
<1> USE DEF IsLast
<1>8. LastUnder(a, i) \in Under /\ \A k \in Under : k <= LastUnder(a, i)
  BY <1>7
<1> DEFINE last == LastUnder(a, i)
<1>9. last \in DOMAIN a /\ i <= last /\ Starts(a[i].path, a[last].path)
  <2>1. last \in Under /\ i <= last
    BY <1>2, <1>8
  <2> QED BY <2>1, <1>1, TreePaths, PrefixIs
<1>10. ASSUME NEW j \in DOMAIN a PROVE Starts(a[i].path, a[j].path) <=> j \in i..last
  <2>1. IsList(a[i].path) /\ IsList(a[j].path) /\ j \in Nat /\ last \in Nat /\ i \in Nat
    BY <1>1, <1>9, TreePaths
  <2>2. ASSUME Starts(a[i].path, a[j].path) PROVE j \in i..last
    <3>1. j \in Under
      BY <2>1, <2>2, PrefixIs
    <3>2. j <= last
      BY <1>8, <3>1
    <3>3. i <= j
      BY <1>1, <2>2, TopComesFirst
    <3> QED BY <2>1, <3>2, <3>3
  <2>3. ASSUME j \in i..last PROVE Starts(a[i].path, a[j].path)
    <3>1. i \in 1..Len(a) /\ j \in 1..Len(a) /\ last \in 1..Len(a) /\ i <= j /\ j <= last
      BY <1>1, <1>9, <2>1, <2>3
    <3> HIDE DEF last
    <3> QED BY <1>9, <3>1, NoGap
  <2> QED BY <2>2, <2>3
<1> QED BY <1>9, <1>10

(* The next macro edge and the vertex that it starts from.                    *)
LEMMA NextMacroEdgeIs ==
    ASSUME NEW a, AreVertices(a), MacroEdges(a) # {}
    PROVE  /\ NextMacroEdge(a) \in MacroEdges(a)
           /\ \E s \in DOMAIN a : /\ s < NextMacroEdge(a)
                                  /\ a[s].path = Parent(a[NextMacroEdge(a)].path)
<1>1. Len(a) \in Nat /\ DOMAIN a = 1..Len(a)
  BY ListParts DEF AreVertices
<1>2. MacroEdges(a) \in SUBSET Nat
  BY <1>1 DEF MacroEdges
<1>3. \E i \in MacroEdges(a) : \A j \in MacroEdges(a) : i <= j
  BY <1>2, LeastNatural
<1>4. NextMacroEdge(a) \in MacroEdges(a)
  BY <1>3 DEF NextMacroEdge
<1>5. PICK i : i = NextMacroEdge(a)
  OBVIOUS
<1>6. i \in DOMAIN a /\ IsMacroEdge(a, i)
  BY <1>4, <1>5 DEF MacroEdges
<1>7. PICK s \in 1..(i - 1) : a[s].path = Parent(a[i].path)
  BY <1>6 DEF IsMacroEdge, Sources
<1>8. s \in DOMAIN a /\ s < i
  BY <1>1, <1>6, <1>7
<1> QED BY <1>4, <1>5, <1>7, <1>8

(* Which vertices of the query, where i is the macro edge, s the vertex it    *)
(* starts from and last the last one under it, and of the body, where below   *)
(* is the last one under the target, the parts of the new one hold.           *)
Assembled(new, a, body, i, s, last, target, below) ==
    LET n == Len(a)
        m == Len(body)
        slot == i + target - 2
        own == slot + (below - target)
        rest == own + (last - i)
        tail == rest + (m - below)
        source == a[s].path
        goal == new[slot].path
    IN  /\ AreVertices(new) /\ Len(new) = tail + (n - last)
        /\ i \in 2..n /\ s \in 1..(i - 1) /\ last \in i..n /\ target \in 2..m /\ below \in target..m
        /\ source = Parent(a[i].path)
        /\ \A j \in 1..n : Starts(a[i].path, a[j].path) <=> j \in i..last
        /\ \A k \in 1..m : Starts(body[target].path, body[k].path) <=> k \in target..below
        /\ \A j \in 1..(i - 1) : j # s => new[j] = a[j]
        /\ Widens(new[s], a[s], body[1])
        /\ \A k \in 1..(target - 2) : Copied(new[i - 1 + k], body[k + 1], 0, source)
        /\ Meets(new[slot], body[target], a[i]) /\ Joined(goal, source, body[target].path, 0)
        /\ \A k \in 1..(below - target) : Copied(new[slot + k], body[target + k], 0, source)
        /\ \A k \in 1..(last - i) : Copied(new[own + k], a[i + k], Len(a[i].path), goal)
        /\ \A k \in 1..(m - below) : Copied(new[rest + k], body[below + k], 0, source)
        /\ \A k \in 1..(n - last) : new[tail + k] = a[last + k]

(* A macro edge is replaced by its body.                                      *)
LEMMA ExpandedIs ==
    ASSUME NEW a, TreeOf(a), MacroEdges(a) # {}, NEW body, TreeOf(body), NEW target \in 2..Len(body)
    PROVE  \E s, last, below :
               Assembled(Expanded(a, body, target), a, body, NextMacroEdge(a), s, last, target, below)
<1>36. AreVertices(a) /\ AreVertices(body) /\ PathsDiffer(a)
  BY DEF TreeOf
<1> DEFINE n == Len(a)
           m == Len(body)
<1>1. n \in Nat /\ DOMAIN a = 1..n /\ m \in Nat /\ DOMAIN body = 1..m
  BY <1>36, ListParts DEF AreVertices
<1>2. PICK i : i = NextMacroEdge(a)
  OBVIOUS
<1>3. PICK source : source = Parent(a[i].path)
  OBVIOUS
<1>4. PICK s \in DOMAIN a : s < i /\ a[s].path = source
  BY <1>2, <1>3, <1>36, NextMacroEdgeIs
<1>5. i \in DOMAIN a
  BY <1>2, <1>36, NextMacroEdgeIs DEF MacroEdges
<1>6. PICK last : last = LastUnder(a, i)
  OBVIOUS
<1>7. /\ last \in DOMAIN a /\ i <= last
      /\ \A j \in DOMAIN a : Starts(a[i].path, a[j].path) <=> j \in i..last
  BY <1>5, <1>6, LastUnderIs
<1>8. target \in DOMAIN body
  BY <1>1
<1>9. PICK below : below = LastUnder(body, target)
  OBVIOUS
<1>10. /\ below \in DOMAIN body /\ target <= below
       /\ \A k \in DOMAIN body : Starts(body[target].path, body[k].path) <=> k \in target..below
  BY <1>8, <1>9, LastUnderIs
<1>11. PICK goal : goal = source \o body[target].path
  OBVIOUS
<1>12. /\ IsVertex(a[s]) /\ IsVertex(a[i]) /\ IsVertex(body[1]) /\ IsVertex(body[target])
       /\ IsList(source) /\ IsList(goal) /\ Len(a[i].path) \in Nat
       /\ Joined(goal, source, body[target].path, 0)
       /\ \A j \in i..last : Len(a[i].path) <= Len(a[j].path)
       /\ \A k \in 1..m : 0 <= Len(body[k].path)
  <2>1. IsVertex(a[s]) /\ IsVertex(a[i]) /\ IsVertex(body[1]) /\ IsVertex(body[target])
    <3>1. 1 \in DOMAIN body
      BY <1>1
    <3> QED BY <1>4, <1>5, <1>8, <1>36, <3>1 DEF AreVertices
  <2>2. IsList(source) /\ IsList(body[target].path) /\ IsList(a[i].path)
    BY <1>4, <2>1 DEF IsVertex
  <2>3. IsList(goal)
    BY <1>11, <2>2, ListConcat
  <2>4. Joined(goal, source, body[target].path, 0)
    <3>1. PICK p : p = body[target].path
      OBVIOUS
    <3>2. /\ IsList(p) /\ Len(p) \in Nat /\ Len(goal) = Len(source) + Len(p)
          /\ \A k \in 1..Len(source) : goal[k] = source[k]
          /\ \A k \in 1..Len(p) : goal[Len(source) + k] = p[k]
      BY <1>11, <2>2, <3>1, ListConcat, ListParts
    <3>3. Len(p) - 0 = Len(p) /\ \A k \in 1..Len(p) : 0 + k = k
      BY <3>2
    <3> QED BY <2>3, <3>1, <3>2, <3>3 DEF Joined
  <2>5. \A j \in i..last : Len(a[i].path) <= Len(a[j].path)
    BY <1>1, <1>5, <1>7 DEF Starts
  <2>6. \A k \in 1..m : 0 <= Len(body[k].path)
    <3>1. \A k \in 1..m : IsList(body[k].path)
      BY <1>1, <1>36 DEF AreVertices, IsVertex
    <3> QED BY <3>1, ListParts
  <2> QED BY <2>1, <2>2, <2>3, <2>4, <2>5, <2>6, ListParts
<1>38. /\ n \in Nat /\ m \in Nat /\ i \in 1..n /\ last \in i..n
       /\ target \in 2..m /\ below \in target..m
  BY <1>1, <1>5, <1>7, <1>8, <1>10
<1>39. Len(a[i].path) \in Nat
  BY <1>12
<1>13. PICK before : before = [j \in 1..(i - 1) |->
           IF a[j].path = source
           THEN [a[j] EXCEPT !.fields = MergedFields(@, body[1].fields)] ELSE a[j]]
  OBVIOUS
<1>14. /\ AreVertices(before) /\ Len(before) = i - 1
       /\ \A j \in 1..(i - 1) : j # s => before[j] = a[j]
       /\ Widens(before[s], a[s], body[1])
  <2> DEFINE w == [a[s] EXCEPT !.fields = MergedFields(a[s].fields, body[1].fields)]
  <2>1. IsVertex(w) /\ Widens(w, a[s], body[1])
    BY <1>12, WithFieldsIs
  <2>2. before[s] = w
    <3>1. s \in 1..(i - 1)
      BY <1>1, <1>4, <1>5
    <3> QED BY <1>4, <1>13, <3>1
  <2> HIDE DEF w
  <2>3. ASSUME NEW j \in 1..(i - 1), j # s PROVE before[j] = a[j] /\ j \in DOMAIN a
    <3>1. j \in DOMAIN a
      BY <1>1, <1>5
    <3>2. a[j].path # source
      BY <1>4, <1>36, <2>3, <3>1 DEF PathsDiffer
    <3> QED BY <1>13, <3>1, <3>2
  <2>4. \A j \in 1..(i - 1) : IsVertex(before[j])
    BY <1>36, <2>1, <2>2, <2>3 DEF AreVertices
  <2>5. IsList(before) /\ Len(before) = i - 1 /\ DOMAIN before = 1..(i - 1)
    <3>1. DOMAIN before = 1..(i - 1) /\ before = [j \in DOMAIN before |-> before[j]]
      BY <1>13
    <3>2. i - 1 \in Nat
      BY <1>1, <1>5
    <3> QED BY <3>1, <3>2, ListOf
  <2> QED BY <2>1, <2>2, <2>3, <2>4, <2>5 DEF AreVertices
<1>15. PICK way : way = Replanted(body, 2, target - 1, 0, source)
  OBVIOUS
<1>16. /\ AreVertices(way) /\ Len(way) = target - 2
       /\ \A k \in 1..(target - 2) : Copied(way[k], body[k + 1], 0, source)
  <2>1. PICK lo, hi, l : lo = 2 /\ hi = target - 1 /\ l = target - 2
    OBVIOUS
  <2>2. Within(body, lo, hi, l) /\ 0 \in Nat
    BY <2>1, <1>38, <1>39 DEF Within
  <2>3. way = Replanted(body, lo, hi, 0, source)
    BY <2>1, <1>15
  <2>6. \A j \in lo..hi : 0 <= Len(body[j].path)
    BY <2>1, <1>12, <1>38
  <2>4. Copies(way, body, lo, l, 0, source)
    BY <1>12, <1>36, <2>2, <2>3, <2>6, ReplantedIs
  <2>5. \A k \in 1..l : lo + k - 1 = k + 1
    BY <2>1, <1>38
  <2> QED BY <2>1, <2>4, <2>5 DEF Copies
<1>17. PICK goalVertex : goalVertex = MergedIntoTarget([body[target] EXCEPT !.path = goal], a[i])
  OBVIOUS
<1>18. IsVertex(goalVertex) /\ goalVertex.path = goal /\ Meets(goalVertex, body[target], a[i])
  <2>1. PICK v : v = WithPath(body[target], goal)
    OBVIOUS
  <2>2. IsVertex(v) /\ v.path = goal /\ SameVertex(v, body[target])
    BY <1>12, <2>1, WithPathIs
  <2>3. goalVertex = MergedIntoTarget(v, a[i])
    BY <1>17, <2>1 DEF WithPath
  <2>4. IsVertex(goalVertex) /\ goalVertex.path = v.path /\ Meets(goalVertex, v, a[i])
    BY <1>12, <2>2, <2>3, MergedIs
  <2>5. Meets(goalVertex, body[target], a[i])
    BY <2>2, <2>4 DEF Joins, SameVertex, Meets
  <2> QED BY <2>2, <2>4, <2>5
<1>19. PICK under : under = Replanted(body, target + 1, below, 0, source)
  OBVIOUS
<1>20. /\ AreVertices(under) /\ Len(under) = below - target
       /\ \A k \in 1..(below - target) : Copied(under[k], body[target + k], 0, source)
  <2>1. PICK lo, hi, l : lo = target + 1 /\ hi = below /\ l = below - target
    OBVIOUS
  <2>2. Within(body, lo, hi, l) /\ 0 \in Nat
    BY <2>1, <1>38, <1>39 DEF Within
  <2>3. under = Replanted(body, lo, hi, 0, source)
    BY <2>1, <1>19
  <2>6. \A j \in lo..hi : 0 <= Len(body[j].path)
    BY <2>1, <1>12, <1>38
  <2>4. Copies(under, body, lo, l, 0, source)
    BY <1>12, <1>36, <2>2, <2>3, <2>6, ReplantedIs
  <2>5. \A k \in 1..l : lo + k - 1 = target + k
    BY <2>1, <1>38
  <2> QED BY <2>1, <2>4, <2>5 DEF Copies
<1>21. PICK selections : selections = Replanted(a, i + 1, last, Len(a[i].path), goal)
  OBVIOUS
<1>22. /\ AreVertices(selections) /\ Len(selections) = last - i
       /\ \A k \in 1..(last - i) : Copied(selections[k], a[i + k], Len(a[i].path), goal)
  <2>1. PICK lo, hi, l : lo = i + 1 /\ hi = last /\ l = last - i
    OBVIOUS
  <2>2. Within(a, lo, hi, l) /\ Len(a[i].path) \in Nat
    BY <2>1, <1>38, <1>39 DEF Within
  <2>3. selections = Replanted(a, lo, hi, Len(a[i].path), goal)
    BY <2>1, <1>21
  <2>6. \A j \in lo..hi : Len(a[i].path) <= Len(a[j].path)
    BY <2>1, <1>12, <1>38
  <2>4. Copies(selections, a, lo, l, Len(a[i].path), goal)
    BY <1>12, <1>36, <2>2, <2>3, <2>6, ReplantedIs
  <2>5. \A k \in 1..l : lo + k - 1 = i + k
    BY <2>1, <1>38
  <2> QED BY <2>1, <2>4, <2>5 DEF Copies
<1>23. PICK siblings : siblings = Replanted(body, below + 1, Len(body), 0, source)
  OBVIOUS
<1>24. /\ AreVertices(siblings) /\ Len(siblings) = m - below
       /\ \A k \in 1..(m - below) : Copied(siblings[k], body[below + k], 0, source)
  <2>1. PICK lo, hi, l : lo = below + 1 /\ hi = Len(body) /\ l = m - below
    OBVIOUS
  <2>2. Within(body, lo, hi, l) /\ 0 \in Nat
    BY <2>1, <1>38, <1>39 DEF Within
  <2>3. siblings = Replanted(body, lo, hi, 0, source)
    BY <2>1, <1>23
  <2>6. \A j \in lo..hi : 0 <= Len(body[j].path)
    BY <2>1, <1>12, <1>38
  <2>4. Copies(siblings, body, lo, l, 0, source)
    BY <1>12, <1>36, <2>2, <2>3, <2>6, ReplantedIs
  <2>5. \A k \in 1..l : lo + k - 1 = below + k
    BY <2>1, <1>38
  <2> QED BY <2>1, <2>4, <2>5 DEF Copies
<1>25. PICK after : after = [j \in 1..(Len(a) - last) |-> a[last + j]]
  OBVIOUS
<1>26. /\ AreVertices(after) /\ Len(after) = n - last
       /\ \A k \in 1..(n - last) : after[k] = a[last + k]
  <2>1. n - last \in Nat /\ \A k \in 1..(n - last) : last + k \in DOMAIN a
    BY <1>1, <1>7
  <2>2. DOMAIN after = 1..(n - last) /\ after = [j \in DOMAIN after |-> after[j]]
    BY <1>25
  <2>3. IsList(after) /\ Len(after) = n - last
    BY <2>1, <2>2, ListOf
  <2>4. \A k \in 1..(n - last) : after[k] = a[last + k]
    BY <1>25
  <2> QED BY <1>36, <2>1, <2>2, <2>3, <2>4 DEF AreVertices
<1>27. PICK new : new = Expanded(a, body, target)
  OBVIOUS
<1>28. new = Arranged(before, way, goalVertex, under, selections, siblings, after)
  BY <1>2, <1>3, <1>6, <1>9, <1>11, <1>13, <1>15, <1>17, <1>19, <1>21, <1>23, <1>25, <1>27
     DEF Expanded

<1> DEFINE slot == i + target - 2
           own == slot + (below - target)
           rest == own + (last - i)
           tail == rest + (m - below)
           w == tail + (n - last)
<1>29. slot \in Nat /\ own \in Nat /\ rest \in Nat /\ tail \in Nat /\ w \in Nat
  <2>1. /\ n \in Nat /\ m \in Nat /\ i \in Nat /\ last \in Nat /\ target \in Nat /\ below \in Nat
        /\ 1 <= i /\ i <= last /\ last <= n /\ 2 <= target /\ target <= below /\ below <= m
    BY <1>1, <1>5, <1>7, <1>10
  <2> HIDE DEF n, m
  <2> QED BY <2>1
<1>30. /\ Len(before) + Len(way) + 1 = slot /\ slot + Len(under) = own
       /\ own + Len(selections) = rest /\ rest + Len(siblings) = tail /\ tail + Len(after) = w
  <2>1. /\ Len(before) = i - 1 /\ Len(way) = target - 2 /\ Len(under) = below - target
        /\ Len(selections) = last - i /\ Len(siblings) = m - below /\ Len(after) = n - last
    BY <1>14, <1>16, <1>20, <1>22, <1>24, <1>26
  <2>2. /\ n \in Nat /\ m \in Nat /\ i \in Nat /\ last \in Nat /\ target \in Nat /\ below \in Nat
    BY <1>1, <1>5, <1>7, <1>10
  <2> HIDE DEF n, m
  <2> QED BY <2>1, <2>2
<1>31. /\ AreVertices(new) /\ Len(new) = w
       /\ \A k \in 1..(i - 1) : new[k] = before[k]
       /\ \A k \in 1..(target - 2) : new[i - 1 + k] = way[k]
       /\ new[slot] = goalVertex
       /\ \A k \in 1..(below - target) : new[slot + k] = under[k]
       /\ \A k \in 1..(last - i) : new[own + k] = selections[k]
       /\ \A k \in 1..(m - below) : new[rest + k] = siblings[k]
       /\ \A k \in 1..(n - last) : new[tail + k] = after[k]
  <2> HIDE DEF slot, own, rest, tail, w
  <2>1. HoldsParts(new, before, way, goalVertex, under, selections, siblings, after)
    BY <1>14, <1>16, <1>18, <1>20, <1>22, <1>24, <1>26, <1>28, ArrangedIs
  <2>2. /\ Len(before) = i - 1 /\ Len(way) = target - 2 /\ Len(under) = below - target
        /\ Len(selections) = last - i /\ Len(siblings) = m - below /\ Len(after) = n - last
    BY <1>14, <1>16, <1>20, <1>22, <1>24, <1>26
  <2> QED BY <1>30, <2>1, <2>2 DEF HoldsParts
<1>32. i \in 2..n /\ s \in 1..(i - 1) /\ last \in i..n /\ target \in 2..m /\ below \in target..m
  BY <1>1, <1>4, <1>5, <1>7, <1>8, <1>10
<1>33. \A k \in 1..(i - 1) : k # s => new[k] = a[k]
  BY <1>14, <1>31
<1>34. /\ Widens(new[s], a[s], body[1]) /\ new[slot].path = goal
       /\ Meets(new[slot], body[target], a[i])
  BY <1>14, <1>18, <1>31, <1>32
<1>35. /\ \A k \in 1..(target - 2) : Copied(new[i - 1 + k], body[k + 1], 0, source)
       /\ \A k \in 1..(below - target) : Copied(new[slot + k], body[target + k], 0, source)
       /\ \A k \in 1..(last - i) : Copied(new[own + k], a[i + k], Len(a[i].path), goal)
       /\ \A k \in 1..(m - below) : Copied(new[rest + k], body[below + k], 0, source)
       /\ \A k \in 1..(n - last) : new[tail + k] = a[last + k]
  <2> HIDE DEF slot, own, rest, tail, w, n, m
  <2> QED BY <1>16, <1>20, <1>22, <1>24, <1>26, <1>31
<1>37. Assembled(new, a, body, i, s, last, target, below)
  <2>1. goal = new[slot].path /\ source = a[s].path
    BY <1>4, <1>34
  <2>2. /\ \A j \in 1..n : Starts(a[i].path, a[j].path) <=> j \in i..last
        /\ \A k \in 1..m : Starts(body[target].path, body[k].path) <=> k \in target..below
    BY <1>1, <1>7, <1>10
  <2> HIDE DEF slot, own, rest, tail, w, n, m
  <2>3. AreVertices(new) /\ Len(new) = tail + (n - last)
    BY <1>31 DEF w
  <2> USE DEF slot, own, rest, tail, w, n, m
  <2> QED BY <1>3, <1>12, <1>32, <1>33, <1>34, <1>35, <2>1, <2>2, <2>3, Zenon DEF Assembled
<1> QED BY <1>2, <1>27, <1>37

(* It is woven into the query.                                                *)
LEMMA AssembledWeaves ==
    ASSUME NEW a, TreeOf(a), NEW body, TreeOf(body), NEW new, NEW i, NEW s, NEW last,
           NEW target, NEW below, Assembled(new, a, body, i, s, last, target, below)
    PROVE  LET slot == i + target - 2
               own == slot + (below - target)
               rest == own + (last - i)
               tail == rest + (Len(body) - below)
           IN  Weave(new, a, body, Places(Len(a), i, last, slot, own, tail),
                     PlacesOfBody(Len(body), s, i, target, below, slot, rest))
<1> DEFINE n == Len(a)
           m == Len(body)
           slot == i + target - 2
           own == slot + (below - target)
           rest == own + (last - i)
           tail == rest + (m - below)
           w == tail + (n - last)
           source == a[s].path
           goal == new[slot].path
<1>1. n \in Nat /\ DOMAIN a = 1..n /\ m \in Nat /\ DOMAIN body = 1..m
  BY ListParts DEF TreeOf, AreVertices
<1>2. i \in 2..n /\ s \in 1..(i - 1) /\ last \in i..n /\ target \in 2..m /\ below \in target..m
  BY DEF Assembled
<1>3. AreVertices(new) /\ Len(new) = w /\ DOMAIN new = 1..w
  <2>1. AreVertices(new) /\ Len(new) = w
    BY DEF Assembled
  <2> HIDE DEF w
  <2> QED BY <2>1, ListParts DEF AreVertices
<1>4. HasParts(new, a, body, n, m, i, s, last, target, below, slot, own, rest, tail)
  <2>1. /\ \A j \in 1..(i - 1) : j # s => new[j] = a[j]
        /\ Widens(new[s], a[s], body[1])
        /\ \A k \in 1..(target - 2) : Copied(new[i - 1 + k], body[k + 1], 0, source)
        /\ Meets(new[slot], body[target], a[i])
        /\ \A k \in 1..(below - target) : Copied(new[slot + k], body[target + k], 0, source)
        /\ \A k \in 1..(last - i) : Copied(new[own + k], a[i + k], Len(a[i].path), goal)
        /\ \A k \in 1..(m - below) : Copied(new[rest + k], body[below + k], 0, source)
        /\ \A k \in 1..(n - last) : new[tail + k] = a[last + k]
    BY DEF Assembled
  <2> HIDE DEF slot, own, rest, tail, w, n, m, source, goal
  <2>2. \A v, u, k, p : Copied(v, u, k, p) => SameVertex(v, u)
    BY DEF Copied
  <2>3. \A v : SameVertex(v, v)
    BY DEF SameVertex
  <2>4. Joins(new[s], a[s], body[1]) /\ Joins(new[slot], body[target], a[i])
    BY <2>1 DEF Widens, Meets
  <2> QED BY <2>1, <2>2, <2>3, <2>4 DEF HasParts
<1>5. slot \in Nat /\ own \in Nat /\ rest \in Nat /\ tail \in Nat /\ w \in Nat
  <2> HIDE DEF n, m
  <2> QED BY <1>1, <1>2
<1>6. /\ i \in Nat /\ i <= n /\ s \in Nat /\ 1 <= s /\ s < i /\ last \in Nat /\ i <= last /\ last <= n
      /\ target \in Nat /\ 2 <= target /\ below \in Nat /\ target <= below /\ below <= m
  <2> HIDE DEF n, m
  <2> QED BY <1>1, <1>2
<1>7. Weave(new, a, body, Places(n, i, last, slot, own, tail),
            PlacesOfBody(m, s, i, target, below, slot, rest))
  <2> HIDE DEF n, m
  <2> QED BY <1>1, <1>3, <1>4, <1>5, <1>6, PlacesWeave
<1> QED BY <1>7

-----------------------------------------------------------------------------
(* The paths of the expanded query                                            *)

(* The paths of the new vertices.                                             *)
LEMMA AssembledPaths ==
    ASSUME NEW a, TreeOf(a), NEW body, TreeOf(body), NEW new, NEW i, NEW s, NEW last,
           NEW target, NEW below, Assembled(new, a, body, i, s, last, target, below)
    PROVE  LET n == Len(a)
               m == Len(body)
               slot == i + target - 2
               own == slot + (below - target)
               rest == own + (last - i)
               tail == rest + (m - below)
               source == a[s].path
               goal == new[slot].path
           IN  /\ \A j \in 1..(i - 1) : new[j].path = a[j].path
               /\ \A k \in 2..below : Joined(new[i - 2 + k].path, source, body[k].path, 0)
               /\ \A j \in (i + 1)..last :
                     Joined(new[own + (j - i)].path, goal, a[j].path, Len(a[i].path))
               /\ \A k \in (below + 1)..m : Joined(new[rest + (k - below)].path, source, body[k].path, 0)
               /\ \A j \in (last + 1)..n : new[tail + (j - last)].path = a[j].path
<1> DEFINE n == Len(a)
           m == Len(body)
           slot == i + target - 2
           own == slot + (below - target)
           rest == own + (last - i)
           tail == rest + (m - below)
           source == a[s].path
           goal == new[slot].path
<1>1. /\ n \in Nat /\ m \in Nat /\ i \in 2..n /\ s \in 1..(i - 1) /\ last \in i..n
      /\ target \in 2..m /\ below \in target..m
  BY TreePaths DEF Assembled
<1>2. /\ \A j \in 1..(i - 1) : j # s => new[j] = a[j]
      /\ Widens(new[s], a[s], body[1])
      /\ \A k \in 1..(target - 2) : Copied(new[i - 1 + k], body[k + 1], 0, source)
      /\ Joined(goal, source, body[target].path, 0)
      /\ \A k \in 1..(below - target) : Copied(new[slot + k], body[target + k], 0, source)
      /\ \A k \in 1..(last - i) : Copied(new[own + k], a[i + k], Len(a[i].path), goal)
      /\ \A k \in 1..(m - below) : Copied(new[rest + k], body[below + k], 0, source)
      /\ \A k \in 1..(n - last) : new[tail + k] = a[last + k]
  BY DEF Assembled
<1> DEFINE at(k) == new[k].path
<1> HIDE DEF n, m, own, rest, tail, source
<1>3. \A j \in 1..(i - 1) : new[j].path = a[j].path
  BY <1>2 DEF Widens
<1>4. ASSUME NEW k \in 2..below PROVE Joined(new[i - 2 + k].path, source, body[k].path, 0)
  <2>1. CASE k < target
    <3>1. k - 1 \in 1..(target - 2) /\ i - 1 + (k - 1) = i - 2 + k /\ (k - 1) + 1 = k
      BY <1>1, <2>1
    <3> QED BY <1>2, <3>1 DEF Copied
  <2>2. CASE k = target
    <3>1. i - 2 + k = slot
      BY <1>1, <2>2
    <3> QED BY <1>2, <2>2, <3>1
  <2>3. CASE target < k
    <3>1. k - target \in 1..(below - target) /\ slot + (k - target) = i - 2 + k /\ target + (k - target) = k
      BY <1>1, <2>3
    <3> QED BY <1>2, <3>1 DEF Copied
  <2>4. k < target \/ k = target \/ target < k
    BY <1>1
  <2> QED BY <2>1, <2>2, <2>3, <2>4
<1> HIDE DEF slot, goal
<1>5. ASSUME NEW j \in (i + 1)..last
      PROVE  Joined(new[own + (j - i)].path, goal, a[j].path, Len(a[i].path))
  <2>1. j - i \in 1..(last - i) /\ i + (j - i) = j
    BY <1>1
  <2> QED BY <1>2, <2>1 DEF Copied
<1>6. ASSUME NEW k \in (below + 1)..m PROVE Joined(new[rest + (k - below)].path, source, body[k].path, 0)
  <2>1. k - below \in 1..(m - below) /\ below + (k - below) = k
    BY <1>1
  <2> QED BY <1>2, <2>1 DEF Copied
<1>7. ASSUME NEW j \in (last + 1)..n PROVE new[tail + (j - last)].path = a[j].path
  <2>1. j - last \in 1..(n - last) /\ last + (j - last) = j
    BY <1>1
  <2> QED BY <1>2, <2>1
<1> USE DEF n, m, own, rest, tail, source, slot, goal
<1> QED BY <1>3, <1>4, <1>5, <1>6, <1>7

(* The new query is in document order.                                        *)
LEMMA AssembledTree ==
    ASSUME NEW a, TreeOf(a), NEW body, TreeOf(body), NEW new, NEW i, NEW s, NEW last,
           NEW target, NEW below, Assembled(new, a, body, i, s, last, target, below),
           PathsDiffer(new)
    PROVE  TreeOf(new)
<1> DEFINE n == Len(a)
           m == Len(body)
           slot == i + target - 2
           own == slot + (below - target)
           rest == own + (last - i)
           tail == rest + (m - below)
           source == a[s].path
           goal == new[slot].path
           depth == Len(a[i].path)
<1>1. /\ n \in Nat /\ m \in Nat /\ i \in 2..n /\ s \in 1..(i - 1) /\ last \in i..n
      /\ target \in 2..m /\ below \in target..m
  BY TreePaths DEF Assembled
<1>2. AreVertices(new) /\ Len(new) = tail + (n - last)
  BY DEF Assembled
<1>3. /\ \A j \in 1..(i - 1) : new[j].path = a[j].path
      /\ \A k \in 2..below : Joined(new[i - 2 + k].path, source, body[k].path, 0)
      /\ \A j \in (i + 1)..last : Joined(new[own + (j - i)].path, goal, a[j].path, depth)
      /\ \A k \in (below + 1)..m : Joined(new[rest + (k - below)].path, source, body[k].path, 0)
      /\ \A j \in (last + 1)..n : new[tail + (j - last)].path = a[j].path
  BY AssembledPaths
<1>4. /\ source = Parent(a[i].path)
      /\ \A j \in 1..n : Starts(a[i].path, a[j].path) <=> j \in i..last
      /\ \A k \in 1..m : Starts(body[target].path, body[k].path) <=> k \in target..below
      /\ Joined(goal, source, body[target].path, 0)
  BY DEF Assembled
<1>5. /\ \A j \in 1..n : IsList(a[j].path) /\ Len(a[j].path) \in Nat
      /\ a[1].path = <<>>
      /\ \A j \in 2..n :
            /\ a[j].path # <<>> /\ IsList(Parent(a[j].path))
            /\ Starts(Parent(a[j].path), a[j - 1].path)
      /\ \A j, k \in 1..n : a[j].path = a[k].path => j = k
  BY TreePaths, ListParts
<1>6. /\ \A k \in 1..m : IsList(body[k].path) /\ Len(body[k].path) \in Nat
      /\ Len(body[1].path) = 0
      /\ \A k \in 2..m :
            /\ body[k].path # <<>> /\ IsList(Parent(body[k].path))
            /\ Starts(Parent(body[k].path), body[k - 1].path)
  BY TreePaths, ListParts
<1>8. slot \in Nat /\ own \in Nat /\ rest \in Nat /\ tail \in Nat
  <2> HIDE DEF n, m
  <2> QED BY <1>1
<1>9. slot = i - 2 + target /\ own = i - 2 + below
  <2> HIDE DEF n, m
  <2> QED BY <1>1
<1>10. rest = own + (last - i) /\ tail = rest + (m - below)
  OBVIOUS
<1> DEFINE w == tail + (n - last)
<1>7. w \in Nat /\ Len(new) = w /\ DOMAIN new = 1..w /\ slot \in 1..w
  <2>1. w \in Nat /\ slot \in 1..w
    <3> HIDE DEF n, m, slot, own, rest, tail
    <3> QED BY <1>1, <1>8, <1>9, <1>10
  <2> HIDE DEF w
  <2> QED BY <1>2, <2>1, ListParts DEF AreVertices, w
<1> HIDE DEF n, m, slot, own, rest, tail, source, depth, w
<1>11. /\ IsList(source) /\ Len(source) \in Nat /\ IsList(goal) /\ Len(goal) \in Nat
       /\ depth \in Nat /\ 1 <= depth /\ Len(source) = depth - 1
       /\ \A x \in 1..w : IsList(new[x].path)
  <2>1. IsList(a[s].path) /\ s \in 1..n /\ i \in 1..n
    BY <1>1, <1>5
  <2>2. Len(a[i].path) \in Nat /\ 1 <= Len(a[i].path) /\ Len(Parent(a[i].path)) = Len(a[i].path) - 1
    BY <1>1, <1>5, <2>1, ParentIs
  <2>3. \A x \in 1..w : IsList(new[x].path)
    BY <1>2, <1>7 DEF AreVertices, IsVertex
  <2>4. IsList(goal)
    BY <1>7, <2>3
  <2> QED BY <1>4, <2>1, <2>2, <2>3, <2>4, ListParts DEF source, depth
<1> HIDE DEF goal
(* Paths under the source, and under the target.                              *)
<1>12. /\ Starts(source, goal)
       /\ \A x \in i..tail : Starts(source, new[x].path)
       /\ \A x \in slot..rest : Starts(goal, new[x].path)
  <2>0. 0 \in Nat /\ \A k \in 1..m : 0 <= Len(body[k].path)
    BY <1>6
  <2>1. Starts(source, goal)
    <3>1. target \in 1..m
      BY <1>1
    <3> QED BY <1>4, <1>6, <1>11, <2>0, <3>1, JoinedMeans
  <2>2. ASSUME NEW k \in 2..below PROVE Starts(source, new[i - 2 + k].path)
    <3>1. k \in 1..m
      BY <1>1
    <3> QED BY <1>3, <1>6, <1>11, <2>0, <3>1, JoinedMeans
  <2>3. ASSUME NEW k \in target..below PROVE Starts(goal, new[i - 2 + k].path)
    <3>1. k \in 1..m /\ target \in 1..m /\ k \in 2..below
      BY <1>1
    <3>2. Starts(body[target].path, body[k].path)
      BY <1>4, <3>1
    <3> QED BY <1>3, <1>4, <1>6, <1>11, <2>0, <3>1, <3>2, JoinedStarts
  <2>4. ASSUME NEW j \in (i + 1)..last
        PROVE  Starts(goal, new[own + (j - i)].path) /\ Starts(source, new[own + (j - i)].path)
    <3>1. j \in 1..n /\ own + (j - i) \in 1..w
      BY <1>1, <1>8, <1>10 DEF w
    <3>2. depth <= Len(a[j].path)
      <4>1. Starts(a[i].path, a[j].path)
        BY <1>1, <1>4, <3>1
      <4> QED BY <4>1 DEF Starts, depth
    <3>3. Starts(goal, new[own + (j - i)].path)
      BY <1>3, <1>5, <1>11, <3>1, <3>2, JoinedMeans
    <3> QED BY <1>11, <2>1, <3>1, <3>3, StartsTransitive
  <2>5. ASSUME NEW k \in (below + 1)..m PROVE Starts(source, new[rest + (k - below)].path)
    <3>1. k \in 1..m
      BY <1>1
    <3> QED BY <1>3, <1>6, <1>11, <2>0, <3>1, JoinedMeans
  <2>6. ASSUME NEW x \in i..own PROVE Starts(source, new[x].path) /\ (slot <= x => Starts(goal, new[x].path))
    <3>1. PICK k \in 2..below : x = i - 2 + k
      <4>1. x - i + 2 \in 2..below /\ x = i - 2 + (x - i + 2)
        BY <1>1, <1>8, <1>9
      <4> QED BY <4>1
    <3>2. slot <= x => k \in target..below
      BY <1>1, <1>9, <3>1
    <3> QED BY <2>2, <2>3, <3>1, <3>2
  <2>7. ASSUME NEW x \in (own + 1)..rest PROVE Starts(source, new[x].path) /\ Starts(goal, new[x].path)
    <3>1. PICK j \in (i + 1)..last : x = own + (j - i)
      <4>1. x - own + i \in (i + 1)..last /\ x = own + ((x - own + i) - i)
        BY <1>1, <1>8, <1>10
      <4> QED BY <4>1
    <3> QED BY <2>4, <3>1
  <2>8. ASSUME NEW x \in (rest + 1)..tail PROVE Starts(source, new[x].path)
    <3>1. PICK k \in (below + 1)..m : x = rest + (k - below)
      <4>1. x - rest + below \in (below + 1)..m /\ x = rest + ((x - rest + below) - below)
        BY <1>1, <1>8, <1>10
      <4> QED BY <4>1
    <3> QED BY <2>5, <3>1
  <2>9. slot <= own
    BY <1>1, <1>9
  <2>10. \A x \in i..tail : x \in i..own \/ x \in (own + 1)..rest \/ x \in (rest + 1)..tail
    BY <1>1, <1>8
  <2>11. \A x \in slot..rest : (x \in i..own /\ slot <= x) \/ x \in (own + 1)..rest
    BY <1>1, <1>8, <1>9
  <2> QED BY <2>1, <2>6, <2>7, <2>8, <2>10, <2>11
(* Each vertex follows one that is at, or under, where it starts from.        *)
<1> DEFINE Follows(x) == new[x].path # <<>> /\ Starts(Parent(new[x].path), new[x - 1].path)
<1>13. ASSUME NEW x \in 2..(i - 1) PROVE Follows(x)
  <2>1. x - 1 \in 1..(i - 1) /\ x \in 1..(i - 1) /\ x \in 2..n
    BY <1>1
  <2> QED BY <1>3, <1>5, <2>1
<1>14. ASSUME NEW k \in 2..below PROVE Follows(i - 2 + k)
  <2>1. k \in 2..m /\ k \in 1..m /\ k - 1 \in 1..m /\ IsList(body[k].path) /\ 1 <= Len(body[k].path)
        /\ IsList(Parent(body[k].path)) /\ Len(Parent(body[k].path)) = Len(body[k].path) - 1
    <3>1. k \in 2..m /\ k \in 1..m /\ k - 1 \in 1..m
      BY <1>1
    <3> QED BY <1>6, <3>1, ParentIs
  <2>2. PICK r : r = new[i - 2 + k].path
    OBVIOUS
  <2>3. Joined(r, source, body[k].path, 0)
    BY <1>3, <2>2
  <2>4. r # <<>> /\ Joined(Parent(r), source, Parent(body[k].path), 0)
    <3>1. 0 \in Nat /\ 0 < Len(body[k].path)
      BY <1>6, <2>1
    <3> QED BY <1>11, <2>1, <2>3, <3>1, JoinedParent
  <2>5. 0 \in Nat /\ 0 <= Len(Parent(body[k].path))
    BY <1>6, <2>1
  <2>6. CASE k = 2
    <3>1. Starts(Parent(body[k].path), body[1].path)
      BY <1>6, <2>1, <2>6
    <3>2. Len(Parent(body[k].path)) = 0
      <4>1. PICK p : p = Parent(body[k].path)
        OBVIOUS
      <4>2. Len(p) \in Nat /\ Starts(p, body[1].path) /\ Len(body[1].path) = 0
        BY <1>6, <2>1, <3>1, <4>1, ListParts
      <4>3. Len(p) = 0
        BY <4>2 DEF Starts
      <4> QED BY <4>1, <4>3
    <3>3. Parent(r) = source
      BY <1>11, <2>1, <2>4, <2>5, <3>2, JoinedMeans
    <3>4. Starts(source, a[i - 1].path) /\ i - 1 \in 1..(i - 1) /\ (i - 2 + k) - 1 = i - 1
      BY <1>1, <1>4, <1>5, <2>6
    <3>5. new[(i - 2 + k) - 1].path = a[i - 1].path
      BY <1>3, <3>4
    <3> QED BY <2>2, <2>4, <3>3, <3>4, <3>5
  <2>7. CASE k # 2
    <3>1. k - 1 \in 2..below /\ (i - 2 + k) - 1 = i - 2 + (k - 1)
      BY <1>1, <2>7
    <3>2. Joined(new[(i - 2 + k) - 1].path, source, body[k - 1].path, 0)
      BY <1>3, <3>1
    <3>3. Starts(Parent(body[k].path), body[k - 1].path) /\ IsList(body[k - 1].path)
      BY <1>6, <2>1
    <3>4. Starts(Parent(r), new[(i - 2 + k) - 1].path)
      BY <1>11, <2>1, <2>4, <2>5, <3>2, <3>3, JoinedStarts
    <3> QED BY <2>2, <2>4, <3>4
  <2> QED BY <2>6, <2>7
<1>15. ASSUME NEW j \in (i + 1)..last PROVE Follows(own + (j - i))
  <2>1. j \in 2..n /\ j \in 1..n /\ j - 1 \in 1..n /\ i \in 1..n /\ j # i /\ j - 1 \in i..last
    BY <1>1
  <2>2. Starts(a[i].path, a[j].path) /\ Starts(a[i].path, Parent(a[j].path))
    <3>1. Starts(a[i].path, a[j].path) /\ a[i].path # a[j].path
      BY <1>1, <1>4, <1>5, <2>1
    <3> QED BY <1>5, <2>1, <3>1, StepDown
  <2>3. /\ IsList(a[j].path) /\ Len(a[j].path) \in Nat /\ IsList(Parent(a[j].path))
        /\ Len(Parent(a[j].path)) = Len(a[j].path) - 1
        /\ depth <= Len(Parent(a[j].path)) /\ depth < Len(a[j].path)
    <3>1. /\ IsList(a[j].path) /\ Len(a[j].path) \in Nat /\ IsList(Parent(a[j].path))
          /\ Len(Parent(a[j].path)) = Len(a[j].path) - 1
      BY <1>5, <2>1, ParentIs
    <3>2. depth <= Len(Parent(a[j].path))
      BY <2>2 DEF Starts, depth
    <3> QED BY <1>11, <3>1, <3>2
  <2>4. PICK r : r = new[own + (j - i)].path
    OBVIOUS
  <2>5. Joined(r, goal, a[j].path, depth)
    BY <1>3, <2>4
  <2>6. r # <<>> /\ Joined(Parent(r), goal, Parent(a[j].path), depth)
    BY <1>11, <2>3, <2>5, JoinedParent
  <2>7. CASE j = i + 1
    <3>1. Starts(Parent(a[j].path), a[i].path)
      <4>1. j - 1 = i
        BY <1>1, <2>7
      <4> QED BY <1>5, <2>1, <4>1
    <3>2. Len(Parent(a[j].path)) = depth
      BY <1>11, <2>3, <3>1 DEF Starts, depth
    <3>3. Parent(r) = goal
      BY <1>11, <2>3, <2>6, <3>2, JoinedMeans
    <3>4. (own + (j - i)) - 1 = own /\ own \in slot..rest
      BY <1>1, <1>8, <1>9, <1>10, <2>7
    <3> QED BY <1>12, <2>4, <2>6, <3>3, <3>4
  <2>8. CASE j # i + 1
    <3>1. j - 1 \in (i + 1)..last /\ (own + (j - i)) - 1 = own + ((j - 1) - i)
      BY <1>1, <1>8, <2>8
    <3>2. Joined(new[(own + (j - i)) - 1].path, goal, a[j - 1].path, depth)
      BY <1>3, <3>1
    <3>3. Starts(Parent(a[j].path), a[j - 1].path) /\ IsList(a[j - 1].path)
      BY <1>5, <2>1
    <3>4. Starts(Parent(r), new[(own + (j - i)) - 1].path)
      BY <1>11, <2>3, <2>6, <3>2, <3>3, JoinedStarts
    <3> QED BY <2>4, <2>6, <3>4
  <2> QED BY <2>7, <2>8
<1>16. ASSUME NEW k \in (below + 1)..m PROVE Follows(rest + (k - below))
  <2>1. k \in 2..m /\ k \in 1..m /\ k - 1 \in 1..m /\ IsList(body[k].path) /\ 1 <= Len(body[k].path)
        /\ IsList(Parent(body[k].path)) /\ Len(Parent(body[k].path)) = Len(body[k].path) - 1
    <3>1. k \in 2..m /\ k \in 1..m /\ k - 1 \in 1..m
      BY <1>1
    <3> QED BY <1>6, <3>1, ParentIs
  <2>2. PICK r : r = new[rest + (k - below)].path
    OBVIOUS
  <2>3. Joined(r, source, body[k].path, 0)
    BY <1>3, <2>2
  <2>4. r # <<>> /\ Joined(Parent(r), source, Parent(body[k].path), 0)
    <3>1. 0 \in Nat /\ 0 < Len(body[k].path)
      BY <1>6, <2>1
    <3> QED BY <1>11, <2>1, <2>3, <3>1, JoinedParent
  <2>5. 0 \in Nat /\ 0 <= Len(Parent(body[k].path))
    BY <1>6, <2>1
  <2>6. CASE k = below + 1
    <3>1. /\ Starts(Parent(body[k].path), body[below].path) /\ below \in 1..m /\ target \in 1..m
          /\ Starts(body[target].path, body[below].path) /\ ~Starts(body[target].path, body[k].path)
      <4>1. k - 1 = below /\ below \in 1..m /\ target \in 1..m /\ below \in target..below
            /\ k \notin target..below
        BY <1>1, <2>6
      <4> QED BY <1>4, <1>6, <2>1, <4>1
    <3>2. Starts(Parent(body[k].path), body[target].path)
      BY <1>6, <2>1, <3>1, NextIsAbove
    <3>3. Starts(Parent(r), goal)
      BY <1>4, <1>6, <1>11, <2>1, <2>4, <2>5, <3>1, <3>2, JoinedStarts
    <3>4. (rest + (k - below)) - 1 = rest /\ rest \in slot..rest /\ rest \in 1..w
      BY <1>1, <1>8, <1>9, <1>10, <2>6 DEF w
    <3>5. Starts(goal, new[rest].path)
      BY <1>12, <3>4
    <3>6. IsList(Parent(r)) /\ IsList(new[rest].path)
      BY <1>11, <2>4, <3>4 DEF Joined
    <3>7. Starts(Parent(r), new[rest].path)
      BY <1>11, <3>3, <3>5, <3>6, StartsTransitive
    <3> QED BY <2>2, <2>4, <3>4, <3>7
  <2>7. CASE k # below + 1
    <3>1. k - 1 \in (below + 1)..m /\ (rest + (k - below)) - 1 = rest + ((k - 1) - below)
      BY <1>1, <1>8, <2>7
    <3>2. Joined(new[(rest + (k - below)) - 1].path, source, body[k - 1].path, 0)
      BY <1>3, <3>1
    <3>3. Starts(Parent(body[k].path), body[k - 1].path) /\ IsList(body[k - 1].path)
      BY <1>6, <2>1
    <3>4. Starts(Parent(r), new[(rest + (k - below)) - 1].path)
      BY <1>11, <2>1, <2>4, <2>5, <3>2, <3>3, JoinedStarts
    <3> QED BY <2>2, <2>4, <3>4
  <2> QED BY <2>6, <2>7
<1>17. ASSUME NEW j \in (last + 1)..n PROVE Follows(tail + (j - last))
  <2>1. j \in 2..n /\ j \in 1..n /\ j - 1 \in 1..n /\ i \in 1..n
    BY <1>1
  <2>2. new[tail + (j - last)].path = a[j].path
    BY <1>3
  <2>3. CASE j = last + 1
    <3>1. /\ Starts(Parent(a[j].path), a[last].path) /\ last \in 1..n
          /\ Starts(a[i].path, a[last].path) /\ ~Starts(a[i].path, a[j].path)
      <4>1. j - 1 = last /\ last \in 1..n /\ last \in i..last /\ j \notin i..last
        BY <1>1, <2>3
      <4> QED BY <1>4, <1>5, <2>1, <4>1
    <3>2. Starts(Parent(a[j].path), a[i].path) /\ Parent(a[j].path) # a[i].path
      BY <1>5, <2>1, <3>1, NextIsAbove
    <3>3. Starts(Parent(a[j].path), source)
      BY <1>1, <1>4, <1>5, <2>1, <3>2, StepDown
    <3>4. (tail + (j - last)) - 1 = tail /\ tail \in i..tail /\ tail \in 1..w
      BY <1>1, <1>8, <1>9, <1>10, <2>3 DEF w
    <3>5. Starts(source, new[tail].path) /\ IsList(new[tail].path)
      BY <1>11, <1>12, <3>4
    <3>6. Starts(Parent(a[j].path), new[tail].path)
      BY <1>5, <1>11, <2>1, <3>3, <3>5, StartsTransitive
    <3> QED BY <1>5, <2>1, <2>2, <3>4, <3>6
  <2>4. CASE j # last + 1
    <3>1. j - 1 \in (last + 1)..n /\ (tail + (j - last)) - 1 = tail + ((j - 1) - last)
      BY <1>1, <1>8, <2>4
    <3>2. new[(tail + (j - last)) - 1].path = a[j - 1].path
      BY <1>3, <3>1
    <3> QED BY <1>5, <2>1, <2>2, <3>2
  <2> QED BY <2>3, <2>4
<1> HIDE DEF Follows
<1>18. ASSUME NEW x \in 2..w PROVE Follows(x)
  <2>1. CASE x < i
    BY <1>1, <1>13, <2>1
  <2>2. CASE i <= x /\ x <= own
    <3>1. x - i + 2 \in 2..below /\ i - 2 + (x - i + 2) = x
      BY <1>1, <1>8, <1>9, <2>2
    <3> QED BY <1>14, <3>1
  <2>3. CASE own < x /\ x <= rest
    <3>1. x - own + i \in (i + 1)..last /\ own + ((x - own + i) - i) = x
      BY <1>1, <1>8, <1>10, <2>3
    <3> QED BY <1>15, <3>1
  <2>4. CASE rest < x /\ x <= tail
    <3>1. x - rest + below \in (below + 1)..m /\ rest + ((x - rest + below) - below) = x
      BY <1>1, <1>8, <1>10, <2>4
    <3> QED BY <1>16, <3>1
  <2>5. CASE tail < x
    <3>1. x - tail + last \in (last + 1)..n /\ tail + ((x - tail + last) - last) = x
      BY <1>1, <1>8, <2>5 DEF w
    <3> QED BY <1>17, <3>1
  <2>6. x < i \/ (i <= x /\ x <= own) \/ (own < x /\ x <= rest) \/ (rest < x /\ x <= tail) \/ tail < x
    BY <1>1, <1>7, <1>8
  <2> QED BY <2>1, <2>2, <2>3, <2>4, <2>5, <2>6
<1>19. new[1].path = <<>>
  <2>1. 1 \in 1..(i - 1)
    BY <1>1
  <2> QED BY <1>3, <1>5, <2>1
<1>20. new # <<>>
  <2>1. PICK e : e = <<>>
    OBVIOUS
  <2>2. Len(e) = 0 /\ Len(new) # 0
    BY <1>1, <1>7, <2>1
  <2> QED BY <2>1, <2>2
<1>21. ASSUME NEW x \in 2..w PROVE new[x].path # <<>> /\ IsPrefix(Parent(new[x].path), new[x - 1].path)
  <2>1. x \in 1..w /\ x - 1 \in 1..w /\ Follows(x)
    BY <1>7, <1>18
  <2>2. new[x].path # <<>> /\ Starts(Parent(new[x].path), new[x - 1].path)
    BY <2>1 DEF Follows
  <2>3. IsList(Parent(new[x].path)) /\ IsList(new[x - 1].path)
    BY <1>11, <2>1, <2>2, ParentIs
  <2> QED BY <2>2, <2>3, PrefixIs
<1> QED BY <1>2, <1>7, <1>19, <1>20, <1>21 DEF TreeOf, IsTree

(* What becomes of the query when body is woven in for macro edge i: what is  *)
(* under i goes under the target, its other vertices stay where they are, and *)
(* none but i, which is put together with the target, changes more than its   *)
(* property fields.                                                           *)
Grown(new, a, body, i, target, f, g) ==
    LET source == Parent(a[i].path)
        goal == new[f[i]].path
        depth == Len(a[i].path)
    IN  /\ Weave(new, a, body, f, g)
        /\ i \in 2..Len(a) /\ target \in 2..Len(body) /\ g[target] = f[i]
        /\ \E s \in 1..(i - 1) : a[s].path = source /\ g[1] = f[s]
        /\ \A j \in DOMAIN a :
              IF Starts(a[i].path, a[j].path) THEN Joined(new[f[j]].path, goal, a[j].path, depth)
              ELSE new[f[j]].path = a[j].path
        /\ \A k \in 2..Len(body) : Joined(new[g[k]].path, source, body[k].path, 0)
        /\ \A j \in DOMAIN a : j # i =>
              /\ new[f[j]].type = a[j].type /\ new[f[j]].coerced = a[j].coerced
              /\ new[f[j]].directives = a[j].directives
              /\ new[f[j]].on_coercion = a[j].on_coercion
        /\ \A k \in 2..Len(body) : k # target => SameVertex(new[g[k]], body[k])
        /\ Meets(new[f[i]], body[target], a[i])

(* How the query grows is what the parts of the new one say.                  *)
LEMMA AssembledGrows ==
    ASSUME NEW a, TreeOf(a), NEW body, TreeOf(body), NEW new, NEW i, NEW s, NEW last,
           NEW target, NEW below, Assembled(new, a, body, i, s, last, target, below)
    PROVE  LET slot == i + target - 2
               own == slot + (below - target)
               rest == own + (last - i)
               tail == rest + (Len(body) - below)
           IN  Grown(new, a, body, i, target, Places(Len(a), i, last, slot, own, tail),
                     PlacesOfBody(Len(body), s, i, target, below, slot, rest))
<1> DEFINE n == Len(a)
           m == Len(body)
           slot == i + target - 2
           own == slot + (below - target)
           rest == own + (last - i)
           tail == rest + (m - below)
           source == a[s].path
           goal == new[slot].path
           depth == Len(a[i].path)
           f == Places(n, i, last, slot, own, tail)
           g == PlacesOfBody(m, s, i, target, below, slot, rest)
<1>1. /\ n \in Nat /\ m \in Nat /\ i \in 2..n /\ s \in 1..(i - 1) /\ last \in i..n
      /\ target \in 2..m /\ below \in target..m
  BY TreePaths DEF Assembled
<1>2. Weave(new, a, body, f, g)
  BY AssembledWeaves
<1>3. /\ \A j \in 1..(i - 1) : new[j].path = a[j].path
      /\ \A k \in 2..below : Joined(new[i - 2 + k].path, source, body[k].path, 0)
      /\ \A j \in (i + 1)..last : Joined(new[own + (j - i)].path, goal, a[j].path, depth)
      /\ \A k \in (below + 1)..m : Joined(new[rest + (k - below)].path, source, body[k].path, 0)
      /\ \A j \in (last + 1)..n : new[tail + (j - last)].path = a[j].path
  BY AssembledPaths
<1>4. /\ source = Parent(a[i].path)
      /\ \A j \in 1..n : Starts(a[i].path, a[j].path) <=> j \in i..last
      /\ \A j \in 1..(i - 1) : j # s => new[j] = a[j]
      /\ Widens(new[s], a[s], body[1])
      /\ \A k \in 1..(target - 2) : Copied(new[i - 1 + k], body[k + 1], 0, source)
      /\ Meets(new[slot], body[target], a[i]) /\ Joined(goal, source, body[target].path, 0)
      /\ \A k \in 1..(below - target) : Copied(new[slot + k], body[target + k], 0, source)
      /\ \A k \in 1..(last - i) : Copied(new[own + k], a[i + k], Len(a[i].path), goal)
      /\ \A k \in 1..(m - below) : Copied(new[rest + k], body[below + k], 0, source)
      /\ \A k \in 1..(n - last) : new[tail + k] = a[last + k]
  BY DEF Assembled
<1>5. /\ DOMAIN a = 1..n /\ DOMAIN body = 1..m
      /\ \A j \in 1..n : IsList(a[j].path)
  BY TreePaths
<1>6. f = [j \in 1..n |-> IF j < i THEN j ELSE IF j = i THEN slot
                          ELSE IF j <= last THEN own + (j - i) ELSE tail + (j - last)]
  BY DEF Places
<1>7. g = [k \in 1..m |-> IF k = 1 THEN s ELSE IF k < target THEN i - 2 + k
                          ELSE IF k <= below THEN slot + (k - target) ELSE rest + (k - below)]
  BY DEF PlacesOfBody
<1>8. slot \in Nat /\ own \in Nat /\ rest \in Nat /\ tail \in Nat
  <2> HIDE DEF n, m
  <2> QED BY <1>1
<1>9. slot = i - 2 + target /\ own = i - 2 + below
  <2> HIDE DEF n, m
  <2> QED BY <1>1
<1>10. /\ IsList(goal) /\ Len(goal) \in Nat
       /\ Len(a[i].path) \in Nat
  <2>1. IsList(goal)
    BY <1>4 DEF Joined
  <2> QED BY <1>1, <1>5, <2>1, ListParts
<1> HIDE DEF f, g, n, m, slot, own, rest, tail, source, goal, depth
<1>11. f[i] = slot /\ g[target] = slot /\ g[1] = s /\ f[s] = s
  BY <1>1, <1>6, <1>7, <1>8
<1>12. ASSUME NEW j \in 1..n, ~Starts(a[i].path, a[j].path) PROVE new[f[j]].path = a[j].path
  <2>1. j \notin i..last
    BY <1>4, <1>12
  <2>2. CASE j < i
    <3>1. j \in 1..(i - 1) /\ f[j] = j
      BY <1>1, <1>6, <2>2
    <3> QED BY <1>3, <3>1
  <2>3. CASE last < j
    <3>1. j \in (last + 1)..n /\ f[j] = tail + (j - last)
      BY <1>1, <1>6, <2>3
    <3> QED BY <1>3, <3>1
  <2> QED BY <1>1, <2>1, <2>2, <2>3
<1>13. ASSUME NEW j \in 1..n, Starts(a[i].path, a[j].path)
       PROVE  Joined(new[f[j]].path, goal, a[j].path, depth)
  <2>1. j \in i..last
    BY <1>4, <1>13
  <2>2. CASE j = i
    <3>1. f[j] = slot /\ depth = Len(a[j].path)
      BY <1>11, <2>2 DEF depth
    <3>2. Len(goal) = Len(goal) + (Len(a[j].path) - depth) /\ ~ \E k : k \in 1..(Len(a[j].path) - depth)
      BY <1>10, <2>2, <3>1
    <3> QED BY <1>10, <3>1, <3>2 DEF Joined, goal
  <2>3. CASE j # i
    <3>1. j \in (i + 1)..last /\ f[j] = own + (j - i)
      BY <1>1, <1>6, <2>1, <2>3
    <3> QED BY <1>3, <3>1
  <2> QED BY <2>2, <2>3
<1>14. ASSUME NEW k \in 2..m
       PROVE  /\ Joined(new[g[k]].path, source, body[k].path, 0)
              /\ k # target => SameVertex(new[g[k]], body[k])
  <2>1. CASE k < target
    <3>1. /\ g[k] = i - 2 + k /\ k \in 2..below /\ k - 1 \in 1..(target - 2)
          /\ i - 1 + (k - 1) = i - 2 + k /\ (k - 1) + 1 = k
      BY <1>1, <1>7, <2>1
    <3> QED BY <1>3, <1>4, <3>1 DEF Copied
  <2>2. CASE k = target
    <3>1. g[k] = slot
      BY <1>11, <2>2
    <3> QED BY <1>4, <2>2, <3>1 DEF goal
  <2>3. CASE target < k /\ k <= below
    <3>1. /\ g[k] = slot + (k - target) /\ k - target \in 1..(below - target) /\ target + (k - target) = k
      BY <1>1, <1>7, <2>3
    <3> QED BY <1>4, <2>3, <3>1 DEF Copied
  <2>4. CASE below < k
    <3>1. g[k] = rest + (k - below) /\ k - below \in 1..(m - below) /\ below + (k - below) = k
      BY <1>1, <1>7, <2>4
    <3> QED BY <1>4, <2>4, <3>1 DEF Copied
  <2>5. k < target \/ k = target \/ (target < k /\ k <= below) \/ below < k
    BY <1>1
  <2> QED BY <2>1, <2>2, <2>3, <2>4, <2>5
<1>15. ASSUME NEW j \in 1..n, j # i
       PROVE  /\ new[f[j]].type = a[j].type /\ new[f[j]].coerced = a[j].coerced
              /\ new[f[j]].directives = a[j].directives
              /\ new[f[j]].on_coercion = a[j].on_coercion
  <2>1. CASE j < i /\ j # s
    <3>1. j \in 1..(i - 1) /\ f[j] = j
      BY <1>1, <1>6, <2>1
    <3> QED BY <1>4, <2>1, <3>1
  <2>2. CASE j = s
    <3>1. f[j] = s
      BY <1>11, <2>2
    <3> QED BY <1>4, <2>2, <3>1 DEF Widens
  <2>3. CASE i < j /\ j <= last
    <3>1. f[j] = own + (j - i) /\ j - i \in 1..(last - i) /\ i + (j - i) = j
      BY <1>1, <1>6, <2>3
    <3> QED BY <1>4, <3>1 DEF Copied, SameVertex
  <2>4. CASE last < j
    <3>1. f[j] = tail + (j - last) /\ j - last \in 1..(n - last) /\ last + (j - last) = j
      BY <1>1, <1>6, <2>4
    <3> QED BY <1>4, <3>1
  <2>5. (j < i /\ j # s) \/ j = s \/ (i < j /\ j <= last) \/ last < j
    BY <1>1, <1>15
  <2> QED BY <2>1, <2>2, <2>3, <2>4, <2>5
<1>16. Meets(new[f[i]], body[target], a[i]) /\ new[f[i]].path = goal
  BY <1>4, <1>11 DEF goal
<1>17. Grown(new, a, body, i, target, f, g)
  <2>1. \E t \in 1..(i - 1) : a[t].path = Parent(a[i].path) /\ g[1] = f[t]
    BY <1>1, <1>4, <1>11 DEF source
  <2>2. i \in 2..Len(a) /\ target \in 2..Len(body)
    BY <1>1 DEF n, m
  <2>3. source = Parent(a[i].path) /\ depth = Len(a[i].path) /\ goal = new[f[i]].path
    BY <1>4, <1>16 DEF depth
  <2>4. DOMAIN a = 1..n /\ m = Len(body) /\ g[target] = f[i]
    BY <1>5, <1>11 DEF m
  <2> QED BY <1>2, <1>12, <1>13, <1>14, <1>15, <1>16, <2>1, <2>2, <2>3, <2>4 DEF Grown
<1> QED BY <1>17 DEF f, g, n, m, slot, own, rest, tail

(* The expanded query is a tree and is the query grown.                       *)
LEMMA ExpandedGrows ==
    ASSUME NEW a, TreeOf(a), MacroEdges(a) # {}, NEW body, TreeOf(body), NEW target \in 2..Len(body),
           NEW new, new = Expanded(a, body, target), PathsDiffer(new)
    PROVE  TreeOf(new) /\ \E f, g : Grown(new, a, body, NextMacroEdge(a), target, f, g)
<1>1. PICK i, s, last, below : i = NextMacroEdge(a) /\ Assembled(new, a, body, i, s, last, target, below)
  BY ExpandedIs
<1>2. TreeOf(new)
  BY <1>1, AssembledTree
<1>3. \E f, g : Grown(new, a, body, i, target, f, g)
  BY <1>1, AssembledGrows
<1> QED BY <1>1, <1>2, <1>3

(* What is selected below a vertex stays below it.                            *)
LEMMA GrownKeepsPaths ==
    ASSUME NEW a, TreeOf(a), NEW body, TreeOf(body), NEW new, TreeOf(new), NEW i, NEW target, NEW f, NEW g,
           Grown(new, a, body, i, target, f, g),
           NEW p \in DOMAIN a, NEW q \in DOMAIN a, Starts(a[p].path, a[q].path)
    PROVE  Starts(new[f[p]].path, new[f[q]].path)
<1> DEFINE source == Parent(a[i].path)
           goal == new[f[i]].path
           depth == Len(a[i].path)
<1>1. /\ Weave(new, a, body, f, g) /\ i \in 2..Len(a) /\ target \in 2..Len(body) /\ g[target] = f[i]
      /\ \A j \in DOMAIN a :
            IF Starts(a[i].path, a[j].path) THEN Joined(new[f[j]].path, goal, a[j].path, depth)
            ELSE new[f[j]].path = a[j].path
      /\ \A k \in 2..Len(body) : Joined(new[g[k]].path, source, body[k].path, 0)
  BY DEF Grown
<1>2. /\ \A j \in DOMAIN a : IsList(a[j].path) /\ Len(a[j].path) \in Nat
      /\ i \in DOMAIN a /\ a[i].path # <<>> /\ \A j \in DOMAIN new : IsList(new[j].path)
  <2>1. /\ DOMAIN a = 1..Len(a) /\ Len(a) \in Nat /\ \A j \in 1..Len(a) : IsList(a[j].path)
        /\ \A j \in 2..Len(a) : a[j].path # <<>>
    BY TreePaths
  <2>2. DOMAIN new = 1..Len(new) /\ \A j \in 1..Len(new) : IsList(new[j].path)
    BY TreePaths
  <2>3. i \in 1..Len(a)
    BY <1>1, <2>1
  <2> QED BY <1>1, <2>1, <2>2, <2>3, ListParts
<1>3. IsList(goal) /\ IsList(source) /\ IsList(new[f[p]].path) /\ IsList(new[f[q]].path) /\ depth \in Nat
  BY <1>1, <1>2, ParentIs DEF Weave
<1>4. CASE Starts(a[i].path, a[p].path)
  <2>1. Starts(a[i].path, a[q].path)
    BY <1>2, <1>4, StartsTransitive
  <2>2. depth <= Len(a[p].path)
    BY <1>4 DEF Starts
  <2>3. Joined(new[f[p]].path, goal, a[p].path, depth) /\ Joined(new[f[q]].path, goal, a[q].path, depth)
    BY <1>1, <1>4, <2>1
  <2> HIDE DEF depth, goal
  <2> QED BY <1>2, <1>3, <2>2, <2>3, JoinedStarts
<1>5. CASE ~Starts(a[i].path, a[p].path) /\ ~Starts(a[i].path, a[q].path)
  BY <1>1, <1>5
<1>6. CASE ~Starts(a[i].path, a[p].path) /\ Starts(a[i].path, a[q].path)
  <2>1. Starts(a[p].path, a[i].path) /\ a[p].path # a[i].path
    <3>1. ~(Len(a[i].path) <= Len(a[p].path))
      BY <1>2, <1>6, Beginnings
    <3>2. Len(a[p].path) <= Len(a[i].path) /\ a[p].path # a[i].path
      BY <1>2, <3>1
    <3> QED BY <1>2, <1>6, <3>2, Beginnings
  <2>2. Starts(a[p].path, source)
    BY <1>2, <2>1, StepDown
  <2>3. Starts(source, goal)
    <3>1. Joined(goal, source, body[target].path, 0)
      BY <1>1
    <3>2. 0 \in Nat /\ IsList(body[target].path) /\ 0 <= Len(body[target].path)
      BY <1>1, TreePaths, ListParts
    <3> HIDE DEF goal, source
    <3> QED BY <1>3, <3>1, <3>2, JoinedMeans
  <2>4. Starts(goal, new[f[q]].path)
    <3>1. Joined(new[f[q]].path, goal, a[q].path, depth) /\ depth <= Len(a[q].path)
      BY <1>1, <1>6 DEF Starts
    <3> HIDE DEF goal, depth
    <3> QED BY <1>2, <1>3, <3>1, JoinedMeans
  <2>5. Starts(source, new[f[q]].path)
    BY <1>3, <2>3, <2>4, StartsTransitive
  <2>6. new[f[p]].path = a[p].path
    BY <1>1, <1>6
  <2> QED BY <1>2, <1>3, <2>2, <2>5, <2>6, StartsTransitive
<1> QED BY <1>4, <1>5, <1>6

-----------------------------------------------------------------------------
(* The macro edges of the expanded query                                      *)

(* The class that a vertex field starts from is that of its parent.           *)
LEMMA StartsFrom ==
    ASSUME NEW a, TreeOf(a), NEW j \in 2..Len(a), NEW s \in 1..(j - 1), a[s].path = Parent(a[j].path)
    PROVE  Sources(a, j) # {} /\ StartClass(a, j) = a[s].type
<1>1. Len(a) \in Nat /\ \A l, r \in 1..Len(a) : a[l].path = a[r].path => l = r
  BY TreePaths
<1>2. \A r \in Sources(a, j) : r = s
  BY <1>1 DEF Sources
<1>3. s \in Sources(a, j)
  BY DEF Sources
<1>4. (CHOOSE r \in Sources(a, j) : TRUE) = s
  BY <1>2, <1>3
<1> QED BY <1>3, <1>4 DEF StartClass

(* The root is no vertex field.                                               *)
LEMMA RootIsNoMacroEdge ==
    ASSUME NEW a
    PROVE  1 \notin MacroEdges(a)
  BY DEF MacroEdges, IsMacroEdge, Sources

(* The last step of a path.                                                   *)
LEMMA JoinedLast ==
    ASSUME NEW path, IsList(path), NEW q, IsList(q), NEW n \in Nat, n < Len(q), NEW r, Joined(r, path, q, n)
    PROVE  r[Len(r)] = q[Len(q)]
<1>1. Len(path) \in Nat /\ Len(q) \in Nat /\ Len(r) = Len(path) + (Len(q) - n)
  BY ListParts DEF Joined
<1>2. PICK l : l = Len(q) - n /\ l \in 1..(Len(q) - n) /\ n + l = Len(q)
  BY <1>1
<1>3. r[Len(path) + l] = q[n + l]
  BY <1>2 DEF Joined
<1> QED BY <1>1, <1>2, <1>3

(* A macro edge of a, one class of whose target is that of the body's or a    *)
(* subclass of it.                                                            *)
FitsAt(a, i, new, body, target, f) ==
    /\ i \in MacroEdges(a)
    /\ a[i].coerced \/ a[i].type = body[target].type
    /\ StartClass(a, i) \in SubclassSets[body[1].type]
    /\ new[f[i]].type \in SubclassSets[body[target].type]
    /\ HoldsNoMacroEdges(body)
    /\ \A k \in DOMAIN body : body[k].type \in SubclassSets[body[k].type]

(* The types of the vertices of the query do not change.                      *)
LEMMA GrownTypes ==
    ASSUME NEW a, NEW body, NEW new, NEW i, NEW target, NEW f, NEW g,
           Grown(new, a, body, i, target, f, g), FitsAt(a, i, new, body, target, f),
           NEW j \in DOMAIN a
    PROVE  new[f[j]].type = a[j].type
<1>1. CASE j # i
  BY <1>1 DEF Grown
<1>2. CASE j = i
  <2>1. new[f[i]].type = IF a[i].coerced THEN a[i].type ELSE body[target].type
    BY DEF Grown, Meets
  <2> QED BY <1>2, <2>1 DEF FitsAt
<1> QED BY <1>1, <1>2

(* The vertices of the query but i are the macro edges that they were.        *)
LEMMA GrownQueryEdges ==
    ASSUME NEW a, TreeOf(a), NEW body, TreeOf(body), NEW new, TreeOf(new), NEW i, NEW target, NEW f, NEW g,
           Grown(new, a, body, i, target, f, g), FitsAt(a, i, new, body, target, f),
           NEW j \in DOMAIN a, j # i
    PROVE  /\ f[j] \in MacroEdges(new) <=> j \in MacroEdges(a)
           /\ j \in MacroEdges(a) => EdgeAt(new, f[j]) = EdgeAt(a, j)
<1> DEFINE goal == new[f[i]].path
           depth == Len(a[i].path)
<1>1. /\ Weave(new, a, body, f, g) /\ i \in 2..Len(a)
      /\ \A k \in DOMAIN a :
            IF Starts(a[i].path, a[k].path) THEN Joined(new[f[k]].path, goal, a[k].path, depth)
            ELSE new[f[k]].path = a[k].path
  BY DEF Grown
<1>2. /\ DOMAIN a = 1..Len(a) /\ Len(a) \in Nat /\ \A k \in 1..Len(a) : IsList(a[k].path)
      /\ \A k \in 2..Len(a) : a[k].path # <<>>
      /\ \A k, l \in 1..Len(a) : a[k].path = a[l].path => k = l
      /\ a[1].path = <<>>
      /\ DOMAIN new = 1..Len(new) /\ Len(new) \in Nat /\ \A k \in 1..Len(new) : IsList(new[k].path)
      /\ \A k \in 1..Len(new) : new[k].path = <<>> => k = 1
  <2>1. /\ DOMAIN new = 1..Len(new) /\ Len(new) \in Nat /\ \A k \in 1..Len(new) : IsList(new[k].path)
        /\ \A k \in 2..Len(new) : new[k].path # <<>>
    BY TreePaths
  <2>2. \A k \in 1..Len(new) : new[k].path = <<>> => k = 1
    BY <2>1
  <2> QED BY <2>1, <2>2, TreePaths
<1>3. \A k \in DOMAIN a : f[k] \in 1..Len(new) /\ IsList(new[f[k]].path)
  BY <1>1, <1>2 DEF Weave
<1>4. i \in DOMAIN a /\ IsList(a[i].path) /\ IsList(goal) /\ depth \in Nat /\ 1 <= depth
  <2>1. i \in DOMAIN a /\ a[i].path # <<>>
    BY <1>1, <1>2
  <2> QED BY <1>2, <1>3, <2>1, ParentIs
<1>5. CASE j = 1
  <2>1. f[1] = 1
    <3>1. ~Starts(a[i].path, a[1].path)
      BY <1>2, <1>4 DEF Starts
    <3>2. new[f[1]].path = <<>>
      BY <1>1, <1>2, <1>5, <3>1
    <3> QED BY <1>2, <1>3, <1>5, <3>2
  <2> QED BY <1>5, <2>1, RootIsNoMacroEdge
<1>6. CASE j # 1
  <2>1. j \in 2..Len(a)
    BY <1>2, <1>6
  <2>2. PICK s \in 1..(j - 1) : a[s].path = Parent(a[j].path)
    BY <2>1, HasParent
  <2>3. s \in DOMAIN a /\ s < j
    BY <1>2, <2>1, <2>2
  <2>4. /\ IsList(a[j].path) /\ IsList(a[s].path) /\ Len(a[j].path) \in Nat
        /\ Len(a[s].path) = Len(a[j].path) - 1 /\ a[j].path # <<>>
    BY <1>2, <2>1, <2>2, <2>3, ParentIs
  <2>5. f[s] \in 1..(f[j] - 1) /\ f[j] \in 2..Len(new)
    <3>1. f[s] < f[j] /\ f[s] \in 1..Len(new) /\ f[j] \in 1..Len(new)
      BY <1>1, <1>3, <2>3 DEF Weave
    <3> QED BY <1>2, <3>1
  <2>6. new[f[s]].path = Parent(new[f[j]].path) /\ FieldName(new[f[j]]) = FieldName(a[j])
    <3>1. CASE Starts(a[i].path, a[j].path)
      <4>1. Starts(a[i].path, a[s].path)
        <5>1. a[i].path # a[j].path
          BY <1>2, <1>4
        <5> QED BY <1>4, <2>2, <2>4, <3>1, <5>1, StepDown
      <4>2. depth <= Len(a[s].path) /\ depth < Len(a[j].path)
        <5>1. depth <= Len(a[s].path)
          BY <4>1 DEF Starts
        <5> QED BY <1>4, <2>4, <5>1
      <4>3. Joined(new[f[s]].path, goal, a[s].path, depth) /\ Joined(new[f[j]].path, goal, a[j].path, depth)
        BY <1>1, <2>3, <3>1, <4>1
      <4> HIDE DEF goal, depth
      <4>4. Joined(Parent(new[f[j]].path), goal, a[s].path, depth)
        BY <1>4, <2>2, <2>4, <4>2, <4>3, JoinedParent
      <4>5. new[f[s]].path = Parent(new[f[j]].path)
        <5>1. PICK p, q, r : p = new[f[s]].path /\ q = Parent(new[f[j]].path) /\ r = a[s].path
          OBVIOUS
        <5>2. Joined(p, goal, r, depth) /\ Joined(q, goal, r, depth)
          BY <4>3, <4>4, <5>1
        <5>3. Starts(r, r) /\ IsList(r) /\ depth <= Len(r)
          BY <2>4, <4>2, <5>1, ListParts DEF Starts
        <5>4. Starts(p, q)
          BY <1>4, <5>2, <5>3, JoinedStarts
        <5>5. IsList(p) /\ IsList(q) /\ Len(p) = Len(q)
          BY <5>2 DEF Joined
        <5>6. p = q
          BY <5>4, <5>5, ListsEqual DEF Starts
        <5> QED BY <5>1, <5>6
      <4>6. FieldName(new[f[j]]) = FieldName(a[j])
        BY <1>4, <2>4, <4>2, <4>3, JoinedLast DEF FieldName
      <4> QED BY <4>5, <4>6
    <3>2. CASE ~Starts(a[i].path, a[j].path)
      <4>1. ~Starts(a[i].path, a[s].path)
        <5>1. Starts(a[s].path, a[j].path)
          BY <2>2, <2>4, ParentStarts
        <5> QED BY <1>4, <2>4, <3>2, <5>1, StartsTransitive
      <4>2. new[f[s]].path = a[s].path /\ new[f[j]].path = a[j].path
        BY <1>1, <2>3, <3>2, <4>1
      <4> QED BY <2>2, <4>2 DEF FieldName
    <3> QED BY <3>1, <3>2
  <2>7. /\ Sources(a, j) # {} /\ StartClass(a, j) = a[s].type
        /\ Sources(new, f[j]) # {} /\ StartClass(new, f[j]) = new[f[s]].type
    BY <2>1, <2>2, <2>5, <2>6, StartsFrom
  <2>8. new[f[s]].type = a[s].type
    BY <2>3, GrownTypes
  <2>9. IsMacroEdge(new, f[j]) <=> IsMacroEdge(a, j)
    BY <2>6, <2>7, <2>8 DEF IsMacroEdge
  <2>10. EdgeAt(new, f[j]) = EdgeAt(a, j)
    BY <2>6, <2>7, <2>8 DEF EdgeAt
  <2> QED BY <1>2, <1>3, <2>9, <2>10 DEF MacroEdges
<1> QED BY <1>5, <1>6

(* The vertices of the body are none.                                         *)
LEMMA GrownBodyEdges ==
    ASSUME NEW a, TreeOf(a), NEW body, TreeOf(body), NEW new, TreeOf(new), NEW i, NEW target, NEW f, NEW g,
           Grown(new, a, body, i, target, f, g), FitsAt(a, i, new, body, target, f),
           NEW k \in 2..Len(body)
    PROVE  g[k] \notin MacroEdges(new)
<1> DEFINE source == Parent(a[i].path)
<1>1. /\ Weave(new, a, body, f, g) /\ i \in 2..Len(a) /\ target \in 2..Len(body) /\ g[target] = f[i]
      /\ \A l \in 2..Len(body) : Joined(new[g[l]].path, source, body[l].path, 0)
      /\ \A l \in 2..Len(body) : l # target => SameVertex(new[g[l]], body[l])
  BY DEF Grown
<1>2. PICK s \in 1..(i - 1) : a[s].path = source /\ g[1] = f[s]
  BY DEF Grown
<1>3. /\ DOMAIN a = 1..Len(a) /\ Len(a) \in Nat /\ \A l \in 1..Len(a) : IsList(a[l].path)
      /\ a[i].path # <<>>
      /\ DOMAIN new = 1..Len(new) /\ Len(new) \in Nat /\ \A l \in 1..Len(new) : IsList(new[l].path)
      /\ DOMAIN body = 1..Len(body) /\ Len(body) \in Nat /\ \A l \in 1..Len(body) : IsList(body[l].path)
      /\ body[1].path = <<>> /\ Len(body[1].path) = 0
      /\ \A l \in 2..Len(body) : body[l].path # <<>>
  BY <1>1, TreePaths
<1>4. IsList(source) /\ Len(source) \in Nat /\ s \in DOMAIN a
  <2>1. s \in DOMAIN a /\ i \in DOMAIN a
    BY <1>1, <1>2, <1>3
  <2> QED BY <1>3, <2>1, ParentIs, ListParts
<1>5. PICK r \in 1..(k - 1) : body[r].path = Parent(body[k].path)
  BY HasParent
<1>6. r \in DOMAIN body /\ k \in DOMAIN body /\ r < k
  BY <1>3, <1>5
<1>7. g[r] \in 1..(g[k] - 1) /\ g[k] \in 2..Len(new)
  <2>1. g[r] < g[k] /\ g[r] \in 1..Len(new) /\ g[k] \in 1..Len(new)
    BY <1>1, <1>3, <1>6 DEF Weave
  <2> QED BY <1>3, <2>1
<1>8. /\ IsList(body[k].path) /\ Len(body[k].path) \in Nat /\ 1 <= Len(body[k].path)
      /\ IsList(body[r].path) /\ Len(body[r].path) \in Nat
  BY <1>3, <1>6, ParentIs, ListParts
<1>9. /\ Joined(Parent(new[g[k]].path), source, body[r].path, 0)
      /\ FieldName(new[g[k]]) = FieldName(body[k])
  <2>1. 0 \in Nat /\ 0 < Len(body[k].path) /\ Joined(new[g[k]].path, source, body[k].path, 0)
    BY <1>1, <1>8
  <2> HIDE DEF source
  <2> QED BY <1>4, <1>5, <1>8, <2>1, JoinedParent, JoinedLast DEF FieldName
<1>10. new[g[r]].path = Parent(new[g[k]].path)
  <2>1. CASE r = 1
    <3>1. Parent(new[g[k]].path) = source
      <4>1. 0 \in Nat /\ 0 <= Len(body[r].path) /\ Len(body[r].path) = 0
        BY <1>3, <2>1
      <4> HIDE DEF source
      <4> QED BY <1>4, <1>8, <1>9, <4>1, JoinedMeans
    <3>2. new[f[s]].path = a[s].path
      <4>1. ~Starts(a[i].path, a[s].path)
        <5>1. i \in 1..Len(a) /\ s \in 1..Len(a) /\ ~(i <= s)
          BY <1>1, <1>2, <1>3
        <5> QED BY <5>1, TopComesFirst
      <4> QED BY <1>4, <4>1 DEF Grown
    <3> QED BY <1>2, <2>1, <3>1, <3>2
  <2>2. CASE r # 1
    <3>1. r \in 2..Len(body)
      BY <1>3, <1>6, <2>2
    <3>2. Joined(new[g[r]].path, source, body[r].path, 0)
      BY <1>1, <3>1
    <3> HIDE DEF source
    <3>3. PICK p, q, t : p = new[g[r]].path /\ q = Parent(new[g[k]].path) /\ t = body[r].path
      OBVIOUS
    <3>4. Joined(p, source, t, 0) /\ Joined(q, source, t, 0)
      BY <1>9, <3>2, <3>3
    <3>5. Starts(t, t) /\ IsList(t) /\ 0 \in Nat /\ 0 <= Len(t)
      BY <1>8, <3>3 DEF Starts
    <3>6. Starts(p, q)
      BY <1>4, <3>4, <3>5, JoinedStarts
    <3>7. IsList(p) /\ IsList(q) /\ Len(p) = Len(q)
      BY <3>4 DEF Joined
    <3>8. p = q
      BY <3>6, <3>7, ListsEqual DEF Starts
    <3> QED BY <3>3, <3>8
  <2> QED BY <2>1, <2>2
<1>11. StartClass(new, g[k]) = new[g[r]].type
  BY <1>7, <1>10, StartsFrom
<1>12. StartClass(body, k) = body[r].type
  BY <1>5, StartsFrom
<1>13. new[g[r]].type \in SubclassSets[body[r].type]
  <2>1. CASE r = 1
    <3>1. StartClass(a, i) = a[s].type
      BY <1>1, <1>2, StartsFrom
    <3>2. new[f[s]].type = a[s].type
      BY <1>4, GrownTypes
    <3> QED BY <1>2, <2>1, <3>1, <3>2 DEF FitsAt
  <2>2. CASE r = target
    BY <1>1, <2>2 DEF FitsAt
  <2>3. CASE r # 1 /\ r # target
    <3>1. r \in 2..Len(body)
      BY <1>3, <1>6, <2>3
    <3>2. new[g[r]].type = body[r].type
      BY <1>1, <2>3, <3>1 DEF SameVertex
    <3> QED BY <1>6, <3>2 DEF FitsAt
  <2> QED BY <2>1, <2>2, <2>3
<1>14. FieldName(body[k]) \notin DOMAIN MacroEdgesAtClass[new[g[r]].type]
  BY <1>12, <1>13 DEF FitsAt, HoldsNoMacroEdges
<1> QED BY <1>9, <1>11, <1>14 DEF MacroEdges, IsMacroEdge

(* One macro edge less is left.                                               *)
LEMMA GrownMacroEdges ==
    ASSUME NEW a, TreeOf(a), NEW body, TreeOf(body), NEW new, TreeOf(new), NEW i, NEW target, NEW f, NEW g,
           Grown(new, a, body, i, target, f, g), FitsAt(a, i, new, body, target, f)
    PROVE  /\ MacroEdges(new) = {f[j] : j \in MacroEdges(a) \ {i}}
           /\ Cardinality(MacroEdges(new)) = Cardinality(MacroEdges(a)) - 1
           /\ Cardinality(MacroEdges(a)) \in Nat
<1> DEFINE E == MacroEdges(a) \ {i}
<1>1. /\ Weave(new, a, body, f, g) /\ i \in 2..Len(a) /\ target \in 2..Len(body) /\ g[target] = f[i]
  BY DEF Grown
<1>2. PICK s \in 1..(i - 1) : g[1] = f[s]
  BY DEF Grown
<1>3. /\ DOMAIN a = 1..Len(a) /\ Len(a) \in Nat /\ DOMAIN new = 1..Len(new)
      /\ DOMAIN body = 1..Len(body) /\ Len(body) \in Nat
  BY TreePaths
<1>4. ASSUME NEW x \in MacroEdges(new) PROVE \E j \in E : x = f[j]
  <2>1. x \in DOMAIN new
    BY DEF MacroEdges
  <2>2. (\E j \in DOMAIN a : f[j] = x) \/ (\E k \in DOMAIN body : g[k] = x)
    BY <1>1, <2>1 DEF Weave, Origin
  <2>3. \A k \in 2..Len(body) : g[k] # x
    BY GrownBodyEdges
  <2>4. PICK j \in DOMAIN a : f[j] = x
    <3>1. CASE \E k \in DOMAIN body : g[k] = x
      <4>1. g[1] = x
        BY <1>3, <2>3, <3>1
      <4>2. s \in DOMAIN a
        BY <1>1, <1>2, <1>3
      <4> QED BY <1>2, <4>1, <4>2
    <3> QED BY <2>2, <3>1
  <2>5. j # i
    BY <1>1, <2>3, <2>4
  <2>6. j \in MacroEdges(a)
    BY <2>4, <2>5, GrownQueryEdges
  <2> QED BY <2>4, <2>5, <2>6
<1>5. ASSUME NEW j \in E PROVE f[j] \in MacroEdges(new)
  <2>1. j \in DOMAIN a /\ j # i /\ j \in MacroEdges(a)
    BY DEF MacroEdges
  <2> QED BY <2>1, GrownQueryEdges
<1>6. MacroEdges(new) = {f[j] : j \in E}
  BY <1>4, <1>5
<1>7. IsFiniteSet(MacroEdges(a)) /\ i \in MacroEdges(a)
  <2>1. MacroEdges(a) \subseteq 1..Len(a)
    BY <1>3 DEF MacroEdges
  <2>2. IsFiniteSet(1..Len(a))
    BY <1>3, FS_Interval
  <2> QED BY <2>1, <2>2, FS_Subset DEF FitsAt
<1>8. IsFiniteSet(E) /\ Cardinality(E) = Cardinality(MacroEdges(a)) - 1
  BY <1>7, FS_RemoveElement
<1>9. Cardinality(MacroEdges(new)) = Cardinality(E)
  <2> DEFINE h == [j \in E |-> f[j]]
  <2>1. \A j, k \in E : f[j] = f[k] => j = k
    <3>1. \A j \in E : j \in DOMAIN a /\ j \in Nat
      BY <1>3 DEF MacroEdges
    <3>2. \A j, k \in DOMAIN a : j < k => f[j] < f[k]
      BY <1>1 DEF Weave
    <3>3. \A j \in DOMAIN a : f[j] \in Nat
      BY <1>1, <1>3 DEF Weave
    <3> QED BY <3>1, <3>2, <3>3
  <2> HIDE DEF E
  <2>2. h \in [E -> MacroEdges(new)]
    BY <1>6
  <2>4. \A j, k \in E : h[j] = h[k] => j = k
    BY <2>1
  <2>5. \A x \in MacroEdges(new) : \E j \in E : h[j] = x
    BY <1>6
  <2> HIDE DEF h
  <2>6. h \in Bijection(E, MacroEdges(new))
    BY <2>2, <2>4, <2>5, Zenon DEF Bijection, Injection, Surjection, IsInjective
  <2>3. ExistsBijection(E, MacroEdges(new))
    BY <2>6 DEF ExistsBijection
  <2> QED BY <1>8, <2>3, FS_Bijection
<1> QED BY <1>6, <1>7, <1>8, <1>9, FS_CardinalityType

-----------------------------------------------------------------------------
(* The tags of a query that a body was woven into                             *)

(* d is on property field p of vertex v.                                      *)
OnField(d, v, p) == p \in DOMAIN v.fields /\ d \in v.fields[p]

(* Every directive comes from where its vertex does.                          *)
LEMMA OriginMeans ==
    ASSUME NEW new, NEW a, NEW body, NEW f, NEW g, NEW x, Origin(new, a, body, f, g, x)
    PROVE  /\ \A d \in VertexDirectives(new[x]) :
                 \/ \E j \in DOMAIN a : f[j] = x /\ d \in VertexDirectives(a[j])
                 \/ \E k \in DOMAIN body : g[k] = x /\ d \in VertexDirectives(body[k])
           /\ \A p, d : OnField(d, new[x], p) =>
                 \/ \E j \in DOMAIN a : f[j] = x /\ OnField(d, a[j], p)
                 \/ \E k \in DOMAIN body : g[k] = x /\ OnField(d, body[k], p)
<1>1. ASSUME NEW v, NEW u, SameVertex(v, u)
      PROVE  /\ VertexDirectives(v) = VertexDirectives(u)
             /\ \A p, d : OnField(d, v, p) => OnField(d, u, p)
  BY <1>1 DEF SameVertex, OnField
<1>2. ASSUME NEW v, NEW u, NEW w, Joins(v, u, w)
      PROVE  /\ VertexDirectives(v) \subseteq VertexDirectives(u) \cup VertexDirectives(w)
             /\ \A p, d : OnField(d, v, p) => OnField(d, u, p) \/ OnField(d, w, p)
  <2>1. PICK h, y, z : h = MergedFields(y, z) /\ y = u.fields /\ z = w.fields
    OBVIOUS
  <2>2. \A p \in DOMAIN h : \A d \in h[p] :
            (p \in DOMAIN y /\ d \in y[p]) \/ (p \in DOMAIN z /\ d \in z[p])
    BY <2>1, MergedFieldsIs
  <2>3. v.fields = h
    BY <1>2, <2>1 DEF Joins
  <2> QED BY <1>2, <2>1, <2>2, <2>3 DEF Joins, OnField
<1> QED BY <1>1, <1>2 DEF Origin

LEMMA FieldsOf ==
    ASSUME NEW v
    PROVE  /\ \A d : d \in FieldDirectives(v) <=> \E p : OnField(d, v, p)
           /\ \A d : d \in DirectivesOf(v)
                       <=> d \in VertexDirectives(v) \/ \E p : OnField(d, v, p)
  BY DEF FieldDirectives, DirectivesOf, OnField

LEMMA WovenDirectives ==
    ASSUME NEW new, NEW a, NEW body, NEW f, NEW g, Weave(new, a, body, f, g)
    PROVE  AllDirectives(new) \subseteq AllDirectives(a) \cup AllDirectives(body)
<1> SUFFICES ASSUME NEW x \in DOMAIN new, NEW d \in DirectivesOf(new[x])
             PROVE  d \in AllDirectives(a) \cup AllDirectives(body)
  BY DEF AllDirectives
<1>1. Origin(new, a, body, f, g, x)
  BY DEF Weave
<1>2. \/ \E j \in DOMAIN a : d \in DirectivesOf(a[j])
      \/ \E k \in DOMAIN body : d \in DirectivesOf(body[k])
  <2>1. d \in VertexDirectives(new[x]) \/ \E p : OnField(d, new[x], p)
    BY FieldsOf
  <2>2. \/ \E j \in DOMAIN a : d \in VertexDirectives(a[j]) \/ \E p : OnField(d, a[j], p)
        \/ \E k \in DOMAIN body : d \in VertexDirectives(body[k]) \/ \E p : OnField(d, body[k], p)
    BY <1>1, <2>1, OriginMeans
  <2> QED BY <2>2, FieldsOf
<1> QED BY <1>2 DEF AllDirectives

LEMMA DeclaredMeans ==
    ASSUME NEW v
    PROVE  \A t : t \in DeclaredAt(v) <=> \E p, d : OnField(d, v, p) /\ d.kind = "tag" /\ t \in d.tags
  BY FieldsOf DEF DeclaredAt, TagsDeclared

LEMMA KeptDeclares ==
    ASSUME NEW u, NEW v, FieldsKept(u, v)
    PROVE  DeclaredAt(u) \subseteq DeclaredAt(v)
<1>1. \A p, d : OnField(d, u, p) => OnField(d, v, p)
  BY DEF FieldsKept, OnField
<1> QED BY <1>1, DeclaredMeans

(* Tags stay before the filters that use them.                                *)
LEMMA WovenPrecede ==
    ASSUME NEW new, NEW a, AreVertices(a), NEW body, AreVertices(body), NEW f, NEW g,
           Weave(new, a, body, f, g), Precede(a), Precede(body)
    PROVE  Precede(new)
<1> SUFFICES ASSUME NEW x \in DOMAIN new
             PROVE  /\ \A t \in TagsUsed(VertexDirectives(new[x])) :
                          \E y \in DOMAIN new : y < x /\ t \in DeclaredAt(new[y])
                    /\ \A t \in TagsUsed(FieldDirectives(new[x])) :
                          \E y \in DOMAIN new : y <= x /\ t \in DeclaredAt(new[y])
  BY DEF Precede
<1>1. Origin(new, a, body, f, g, x)
  BY DEF Weave
<1>2. \A D, t : t \in TagsUsed(D) <=> \E d \in D : d.kind = "filter" /\ t \in d.tags
  BY DEF TagsUsed
<1>3. Len(a) \in Nat /\ DOMAIN a = 1..Len(a) /\ Len(body) \in Nat /\ DOMAIN body = 1..Len(body)
  BY ListParts DEF AreVertices
<1>4. Len(new) \in Nat /\ DOMAIN new = 1..Len(new)
  BY ListParts DEF AreVertices, Weave
<1>5. /\ \A j \in DOMAIN a : f[j] \in DOMAIN new /\ DeclaredAt(a[j]) \subseteq DeclaredAt(new[f[j]])
      /\ \A k \in DOMAIN body : /\ g[k] \in DOMAIN new
                                /\ DeclaredAt(body[k]) \subseteq DeclaredAt(new[g[k]])
  BY KeptDeclares DEF Weave
<1>6. ASSUME NEW j \in DOMAIN a, NEW l \in DOMAIN a, l <= j PROVE f[l] <= f[j]
  <2>1. l < j \/ l = j
    BY <1>3, <1>6
  <2>2. f[l] \in Nat /\ f[j] \in Nat
    BY <1>4, <1>5
  <2> QED BY <2>1, <2>2 DEF Weave
<1>7. ASSUME NEW j \in DOMAIN body, NEW l \in DOMAIN body, l <= j PROVE g[l] <= g[j]
  <2>1. l < j \/ l = j
    BY <1>3, <1>7
  <2>2. g[l] \in Nat /\ g[j] \in Nat
    BY <1>4, <1>5
  <2> QED BY <2>1, <2>2 DEF Weave
<1>8. ASSUME NEW t \in TagsUsed(VertexDirectives(new[x]))
      PROVE  \E y \in DOMAIN new : y < x /\ t \in DeclaredAt(new[y])
  <2>1. PICK d \in VertexDirectives(new[x]) : d.kind = "filter" /\ t \in d.tags
    BY <1>2
  <2>2. ASSUME NEW j \in DOMAIN a, f[j] = x, d \in VertexDirectives(a[j])
        PROVE  \E y \in DOMAIN new : y < x /\ t \in DeclaredAt(new[y])
    <3>1. t \in TagsUsed(VertexDirectives(a[j]))
      BY <1>2, <2>1, <2>2
    <3>2. PICK l \in DOMAIN a : l < j /\ t \in DeclaredAt(a[l])
      BY <3>1 DEF Precede
    <3>3. f[l] < f[j]
      BY <3>2 DEF Weave
    <3> QED BY <1>5, <2>2, <3>2, <3>3
  <2>3. ASSUME NEW j \in DOMAIN body, g[j] = x, d \in VertexDirectives(body[j])
        PROVE  \E y \in DOMAIN new : y < x /\ t \in DeclaredAt(new[y])
    <3>1. t \in TagsUsed(VertexDirectives(body[j]))
      BY <1>2, <2>1, <2>3
    <3>2. PICK l \in DOMAIN body : l < j /\ t \in DeclaredAt(body[l])
      BY <3>1 DEF Precede
    <3>3. g[l] < g[j]
      BY <3>2 DEF Weave
    <3> QED BY <1>5, <2>3, <3>2, <3>3
  <2> QED BY <1>1, <2>2, <2>3, OriginMeans
<1>9. ASSUME NEW t \in TagsUsed(FieldDirectives(new[x]))
      PROVE  \E y \in DOMAIN new : y <= x /\ t \in DeclaredAt(new[y])
  <2>1. PICK d, p : OnField(d, new[x], p) /\ d.kind = "filter" /\ t \in d.tags
    BY <1>2, FieldsOf
  <2>2. ASSUME NEW j \in DOMAIN a, f[j] = x, OnField(d, a[j], p)
        PROVE  \E y \in DOMAIN new : y <= x /\ t \in DeclaredAt(new[y])
    <3>1. t \in TagsUsed(FieldDirectives(a[j]))
      BY <1>2, <2>1, <2>2, FieldsOf
    <3>2. PICK l \in DOMAIN a : l <= j /\ t \in DeclaredAt(a[l])
      BY <3>1 DEF Precede
    <3> QED BY <1>5, <1>6, <2>2, <3>2
  <2>3. ASSUME NEW j \in DOMAIN body, g[j] = x, OnField(d, body[j], p)
        PROVE  \E y \in DOMAIN new : y <= x /\ t \in DeclaredAt(new[y])
    <3>1. t \in TagsUsed(FieldDirectives(body[j]))
      BY <1>2, <2>1, <2>3, FieldsOf
    <3>2. PICK l \in DOMAIN body : l <= j /\ t \in DeclaredAt(body[l])
      BY <3>1 DEF Precede
    <3> QED BY <1>5, <1>7, <2>3, <3>2
  <2> QED BY <1>1, <2>1, <2>2, <2>3, OriginMeans
<1> QED BY <1>8, <1>9

(* Tags stay unique, when those of the body are not among those of the query. *)
LEMMA WovenUnique ==
    ASSUME NEW new, NEW a, AreVertices(a), NEW body, AreVertices(body), NEW f, NEW g,
           Weave(new, a, body, f, g), TagsAreUnique(a), TagsAreUnique(body),
           AllTagNames(a) \cap AllTagNames(body) = {}
    PROVE  TagsAreUnique(new)
<1> SUFFICES ASSUME NEW x \in DOMAIN new, NEW y \in DOMAIN new,
                    NEW p \in DOMAIN new[x].fields, NEW q \in DOMAIN new[y].fields,
                    NEW t \in TagsDeclared(new[x].fields[p]) \cap TagsDeclared(new[y].fields[q])
             PROVE  x = y /\ p = q
  BY DEF TagsAreUnique
<1> DEFINE Tags(v, r) == r \in DOMAIN v.fields /\ t \in TagsDeclared(v.fields[r])
<1>1. ASSUME NEW z \in DOMAIN new, NEW r, Tags(new[z], r)
      PROVE  \/ \E j \in DOMAIN a : f[j] = z /\ Tags(a[j], r)
             \/ \E k \in DOMAIN body : g[k] = z /\ Tags(body[k], r)
  <2>1. PICK d : OnField(d, new[z], r) /\ d.kind = "tag" /\ t \in d.tags
    BY <1>1 DEF OnField, TagsDeclared
  <2>2. \/ \E j \in DOMAIN a : f[j] = z /\ OnField(d, a[j], r)
        \/ \E k \in DOMAIN body : g[k] = z /\ OnField(d, body[k], r)
    <3>1. Origin(new, a, body, f, g, z)
      BY DEF Weave
    <3> QED BY <2>1, <3>1, OriginMeans
  <2>3. \A v : OnField(d, v, r) => Tags(v, r)
    BY <2>1 DEF OnField, TagsDeclared
  <2> HIDE DEF Tags
  <2> QED BY <2>2, <2>3
<1>2. Tags(new[x], p) /\ Tags(new[y], q)
  OBVIOUS
<1>3. ASSUME NEW j \in DOMAIN a, NEW r, Tags(a[j], r) PROVE t \in AllTagNames(a)
  BY <1>3, TagsAreInFields, TagsOfAst DEF AreVertices
<1>4. ASSUME NEW k \in DOMAIN body, NEW r, Tags(body[k], r) PROVE t \in AllTagNames(body)
  BY <1>4, TagsAreInFields, TagsOfAst DEF AreVertices
<1>5. ASSUME NEW j \in DOMAIN a, NEW k \in DOMAIN a, Tags(a[j], p), Tags(a[k], q)
      PROVE  j = k /\ p = q
  BY <1>5 DEF TagsAreUnique
<1>6. ASSUME NEW j \in DOMAIN body, NEW k \in DOMAIN body, Tags(body[j], p), Tags(body[k], q)
      PROVE  j = k /\ p = q
  BY <1>6 DEF TagsAreUnique
<1> HIDE DEF Tags
<1>7. \/ \E j \in DOMAIN a : f[j] = x /\ Tags(a[j], p)
      \/ \E k \in DOMAIN body : g[k] = x /\ Tags(body[k], p)
  BY <1>1, <1>2
<1>8. \/ \E j \in DOMAIN a : f[j] = y /\ Tags(a[j], q)
      \/ \E k \in DOMAIN body : g[k] = y /\ Tags(body[k], q)
  BY <1>1, <1>2
<1> QED BY <1>3, <1>4, <1>5, <1>6, <1>7, <1>8

(* A filter uses tags of the same query.                                      *)
LEMMA UsedAreDeclared ==
    ASSUME NEW a, AreVertices(a), Precede(a), NEW d \in AllDirectives(a), d.kind = "filter"
    PROVE  d.tags \subseteq AllTagNames(a)
<1> SUFFICES ASSUME NEW t \in d.tags PROVE t \in AllTagNames(a)
  OBVIOUS
<1>1. PICK j \in DOMAIN a : d \in DirectivesOf(a[j])
  BY DEF AllDirectives
<1>2. t \in TagsUsed(VertexDirectives(a[j])) \/ t \in TagsUsed(FieldDirectives(a[j]))
  BY <1>1 DEF DirectivesOf, TagsUsed
<1>3. \E k \in DOMAIN a : t \in DeclaredAt(a[k])
  BY <1>2 DEF Precede
<1> QED BY <1>3, TagsOfAst

(* Filters read tags of their own scope.                                      *)
ScopesAgree(directives) ==
    \A d, e \in directives :
        d.kind = "filter" /\ e.kind = "tag" /\ e.tags \subseteq d.tags => d.scope = e.scope

LEMMA TagIsDeclared ==
    ASSUME NEW a, AreVertices(a), NEW d \in AllDirectives(a), d.kind = "tag"
    PROVE  \E t \in d.tags : t \in AllTagNames(a)
<1>1. PICK j \in DOMAIN a : d \in DirectivesOf(a[j])
  BY DEF AllDirectives
<1>2. IsDirective(d)
  BY <1>1 DEF AreVertices, IsVertex
<1>3. PICK t \in d.tags : d.tags = {t}
  BY <1>2 DEF IsDirective
<1>4. t \in AllTagNames(a)
  BY <1>3 DEF AllTagNames, TagsDeclared
<1> QED BY <1>4

LEMMA WovenScopes ==
    ASSUME NEW new, NEW a, AreVertices(a), NEW body, AreVertices(body), NEW f, NEW g,
           Weave(new, a, body, f, g), Precede(a), Precede(body),
           AllTagNames(a) \cap AllTagNames(body) = {},
           ScopesAgree(AllDirectives(a)), NEW n, \A d \in AllDirectives(body) : d.scope = n
    PROVE  ScopesAgree(AllDirectives(new))
<1> SUFFICES ASSUME NEW d \in AllDirectives(new), NEW e \in AllDirectives(new),
                    d.kind = "filter", e.kind = "tag", e.tags \subseteq d.tags
             PROVE  d.scope = e.scope
  BY DEF ScopesAgree
<1>1. /\ d \in AllDirectives(a) \/ d \in AllDirectives(body)
      /\ e \in AllDirectives(a) \/ e \in AllDirectives(body)
  BY WovenDirectives
<1>2. CASE d \in AllDirectives(a) /\ e \in AllDirectives(a)
  BY <1>2 DEF ScopesAgree
<1>3. CASE d \in AllDirectives(body) /\ e \in AllDirectives(body)
  BY <1>3
<1>4. CASE d \in AllDirectives(a) /\ e \in AllDirectives(body)
  <2>1. PICK t \in e.tags : t \in AllTagNames(body)
    BY <1>4, TagIsDeclared
  <2>2. d.tags \subseteq AllTagNames(a)
    BY <1>4, UsedAreDeclared
  <2> QED BY <2>1, <2>2
<1>5. CASE d \in AllDirectives(body) /\ e \in AllDirectives(a)
  <2>1. PICK t \in e.tags : t \in AllTagNames(a)
    BY <1>5, TagIsDeclared
  <2>2. d.tags \subseteq AllTagNames(body)
    BY <1>5, UsedAreDeclared
  <2> QED BY <2>1, <2>2
<1> QED BY <1>1, <1>2, <1>3, <1>4, <1>5

LEMMA WovenNames ==
    ASSUME NEW new, NEW a, NEW body, NEW f, NEW g, Weave(new, a, body, f, g)
    PROVE  AllTagNames(new) \subseteq AllTagNames(a) \cup AllTagNames(body)
<1>1. PICK C, D, E : C = AllDirectives(new) /\ D = AllDirectives(a) /\ E = AllDirectives(body)
  OBVIOUS
<1>2. C \subseteq D \cup E
  BY <1>1, WovenDirectives
<1>3. TagsDeclared(C) \subseteq TagsDeclared(D) \cup TagsDeclared(E)
  BY <1>2 DEF TagsDeclared
<1> QED BY <1>1, <1>3 DEF AllTagNames

-----------------------------------------------------------------------------
(* The body of a macro edge with new names                                    *)

(* New tag names change no parameters.                                        *)
LEMMA RenamedParameters ==
    ASSUME NEW D, AreDirectives(D), NEW change, NEW n
    PROVE  ParametersUsed(Renamed(D, change, n)) = ParametersUsed(D)
<1> DEFINE New(d) == [d EXCEPT !.tags = {change[t] : t \in @}, !.scope = n]
<1>1. Renamed(D, change, n) = {New(d) : d \in D}
  BY DEF Renamed
<1>2. ASSUME NEW d \in D PROVE New(d).params = d.params
  <2>1. d = [kind |-> d.kind, tags |-> d.tags, params |-> d.params, text |-> d.text,
             scope |-> d.scope]
    BY DEF AreDirectives, IsDirective
  <2> DEFINE ts == {change[t] : t \in d.tags}
  <2>2. New(d) = [d EXCEPT !.tags = ts, !.scope = n]
    OBVIOUS
  <2> HIDE DEF New, ts
  <2>3. New(d) = [kind |-> d.kind, tags |-> ts, params |-> d.params, text |-> d.text, scope |-> n]
    BY <2>1, <2>2
  <2> QED BY <2>3
<1> HIDE DEF New
<1> QED BY <1>1, <1>2 DEF ParametersUsed

(* It is the same tree, it still holds no macro edges, and uses the same      *)
(* parameters.                                                                *)
LEMMA BodyStays ==
    ASSUME NEW macro, TreeOf(macro), NEW change, NEW n \in Nat,
           NEW body, body = ReplaceTagNames(macro, change, n)
    PROVE  /\ TreeOf(body) /\ Len(body) = Len(macro)
           /\ \A k \in DOMAIN macro : body[k].type = macro[k].type
           /\ HoldsNoMacroEdges(macro) => HoldsNoMacroEdges(body)
           /\ VertexDirectives(macro[1]) = {} => VertexDirectives(body[1]) = {}
           /\ ParametersUsed(AllDirectives(body)) = ParametersUsed(AllDirectives(macro))
<1>1. AreVertices(macro) /\ PathsDiffer(macro) /\ IsTree(macro) /\ macro # <<>>
  BY DEF TreeOf
<1>2. /\ AreVertices(body) /\ DOMAIN body = DOMAIN macro /\ Len(body) = Len(macro)
      /\ \A k \in DOMAIN macro :
            /\ body[k].path = macro[k].path /\ body[k].type = macro[k].type
            /\ VertexDirectives(body[k]) = Renamed(VertexDirectives(macro[k]), change, n)
            /\ FieldDirectives(body[k]) = Renamed(FieldDirectives(macro[k]), change, n)
  BY <1>1, BodyRenamed
<1>3. /\ Len(macro) \in Nat /\ DOMAIN macro = 1..Len(macro) /\ 1 \in DOMAIN macro
      /\ macro[1].path = <<>>
  BY TreePaths
<1>4. TreeOf(body)
  <2>1. PathsDiffer(body)
    BY <1>1, <1>2 DEF PathsDiffer
  <2>2. body # <<>>
    BY <1>2, <1>3
  <2>3. \A j \in 2..Len(body) : j \in DOMAIN macro /\ j - 1 \in DOMAIN macro
    BY <1>2, <1>3
  <2>4. IsTree(body)
    BY <1>1, <1>2, <1>3, <2>3 DEF IsTree
  <2> QED BY <1>2, <2>1, <2>2, <2>4 DEF TreeOf
<1>5. ASSUME HoldsNoMacroEdges(macro), NEW j \in 2..Len(body), NEW c \in SubclassSets[StartClass(body, j)]
      PROVE  FieldName(body[j]) \notin DOMAIN MacroEdgesAtClass[c]
  <2>1. j \in 2..Len(macro) /\ j \in DOMAIN macro
    BY <1>2, <1>3
  <2>2. PICK s \in 1..(j - 1) : macro[s].path = Parent(macro[j].path)
    BY <2>1, HasParent
  <2>3. s \in DOMAIN macro
    BY <1>3, <2>1
  <2>4. body[s].path = Parent(body[j].path)
    BY <1>2, <2>1, <2>2, <2>3
  <2>5. StartClass(macro, j) = macro[s].type /\ StartClass(body, j) = body[s].type
    BY <1>4, <2>1, <2>2, <2>4, StartsFrom
  <2>6. FieldName(body[j]) = FieldName(macro[j])
    BY <1>2, <2>1 DEF FieldName
  <2>7. c \in SubclassSets[StartClass(macro, j)]
    BY <1>2, <2>3, <2>5
  <2> QED BY <1>5, <2>1, <2>6, <2>7 DEF HoldsNoMacroEdges
<1>6. ASSUME VertexDirectives(macro[1]) = {} PROVE VertexDirectives(body[1]) = {}
  <2>1. \A D : D = {} => Renamed(D, change, n) = {}
    BY DEF Renamed
  <2> QED BY <1>2, <1>3, <1>6, <2>1
<1>7. ParametersUsed(AllDirectives(body)) = ParametersUsed(AllDirectives(macro))
  <2>1. ASSUME NEW k \in DOMAIN macro
        PROVE  ParametersUsed(DirectivesOf(body[k])) = ParametersUsed(DirectivesOf(macro[k]))
    <3>1. PICK C, D : C = VertexDirectives(macro[k]) /\ D = FieldDirectives(macro[k])
      OBVIOUS
    <3>2. AreDirectives(C) /\ AreDirectives(D)
      BY <1>1, <3>1 DEF AreVertices, IsVertex, DirectivesOf, AreDirectives
    <3>3. ParametersUsed(Renamed(C, change, n)) = ParametersUsed(C)
          /\ ParametersUsed(Renamed(D, change, n)) = ParametersUsed(D)
      BY <3>2, RenamedParameters
    <3>4. ASSUME NEW S, NEW T PROVE ParametersUsed(S \cup T) = ParametersUsed(S) \cup ParametersUsed(T)
      BY DEF ParametersUsed
    <3>5. /\ DirectivesOf(macro[k]) = C \cup D
          /\ DirectivesOf(body[k]) = Renamed(C, change, n) \cup Renamed(D, change, n)
      BY <1>2, <3>1 DEF DirectivesOf
    <3>6. ParametersUsed(C \cup D) = ParametersUsed(C) \cup ParametersUsed(D)
      BY <3>4
    <3>7. ParametersUsed(Renamed(C, change, n) \cup Renamed(D, change, n))
              = ParametersUsed(Renamed(C, change, n)) \cup ParametersUsed(Renamed(D, change, n))
      BY <3>4
    <3> QED BY <3>3, <3>5, <3>6, <3>7
  <2>2. ASSUME NEW a
        PROVE  \A p : p \in ParametersUsed(AllDirectives(a))
                        <=> \E k \in DOMAIN a : p \in ParametersUsed(DirectivesOf(a[k]))
    BY DEF ParametersUsed, AllDirectives
  <2>3. \A p : p \in ParametersUsed(AllDirectives(body)) <=> p \in ParametersUsed(AllDirectives(macro))
    BY <1>2, <2>1, <2>2
  <2> QED BY <2>3
<1> QED BY <1>2, <1>4, <1>5, <1>6, <1>7 DEF HoldsNoMacroEdges

-----------------------------------------------------------------------------
(* What a vertex selects                                                      *)

(* Selections kept twice are kept.                                            *)
LEMMA KeptTransitive ==
    ASSUME NEW u, NEW v, NEW w, Kept(u, v), Kept(v, w)
    PROVE  Kept(u, w)
  BY DEF Kept

(* With its selections a vertex keeps its directives.                         *)
LEMMA KeptDirectives ==
    ASSUME NEW u, NEW v, Kept(u, v)
    PROVE  DirectivesOf(u) \subseteq DirectivesOf(v)
<1>1. FieldDirectives(u) \subseteq FieldDirectives(v)
  BY DEF Kept, FieldDirectives
<1> QED BY <1>1 DEF Kept, DirectivesOf

(* Nothing of the query is lost, unless there is a filter beside a type       *)
(* coercion.                                                                  *)
LEMMA GrownKeepsQuery ==
    ASSUME NEW a, NEW body, NEW new, NEW i, NEW target, NEW f, NEW g,
           Grown(new, a, body, i, target, f, g), a[i].coerced => a[i].directives = {},
           NEW j \in DOMAIN a
    PROVE  Kept(a[j], new[f[j]])
<1>1. FieldsKept(a[j], new[f[j]])
  BY DEF Grown, Weave
<1>2. VertexDirectives(a[j]) \subseteq VertexDirectives(new[f[j]])
  <2>1. CASE j # i
    BY <2>1 DEF Grown, VertexDirectives
  <2>2. CASE j = i
    BY <2>2 DEF Grown, Meets
  <2> QED BY <2>1, <2>2
<1> QED BY <1>1, <1>2 DEF Kept, FieldsKept

(* Nor is anything of the body.                                               *)
LEMMA GrownKeepsBody ==
    ASSUME NEW a, NEW body, TreeOf(body), VertexDirectives(body[1]) = {}, NEW new, NEW i, NEW target,
           NEW f, NEW g, Grown(new, a, body, i, target, f, g), NEW k \in DOMAIN body
    PROVE  Kept(body[k], new[g[k]])
<1>1. FieldsKept(body[k], new[g[k]])
  BY DEF Grown, Weave
<1>2. VertexDirectives(body[k]) \subseteq VertexDirectives(new[g[k]])
  <2>1. CASE k = 1
    BY <2>1
  <2>2. CASE k = target
    <3>1. Meets(new[f[i]], body[target], a[i]) /\ g[target] = f[i]
      BY DEF Grown
    <3> QED BY <2>2, <3>1 DEF Meets
  <2>3. CASE k # 1 /\ k # target
    <3>1. k \in 2..Len(body)
      BY <2>3, TreePaths
    <3>2. SameVertex(new[g[k]], body[k])
      BY <2>3, <3>1 DEF Grown
    <3> QED BY <3>2 DEF SameVertex
  <2> QED BY <2>1, <2>2, <2>3
<1> QED BY <1>1, <1>2 DEF Kept, FieldsKept

(* The new query uses the parameters of the query and those of the body.      *)
LEMMA GrownParameters ==
    ASSUME NEW a, NEW body, TreeOf(body), VertexDirectives(body[1]) = {}, NEW new, NEW i, NEW target,
           NEW f, NEW g, Grown(new, a, body, i, target, f, g), a[i].coerced => a[i].directives = {}
    PROVE  ParametersUsed(AllDirectives(new))
               = ParametersUsed(AllDirectives(a)) \cup ParametersUsed(AllDirectives(body))
<1>1. Weave(new, a, body, f, g)
  BY DEF Grown
<1>2. AllDirectives(new) \subseteq AllDirectives(a) \cup AllDirectives(body)
  BY <1>1, WovenDirectives
<1>3. AllDirectives(a) \subseteq AllDirectives(new)
  <2>1. \A j \in DOMAIN a : f[j] \in DOMAIN new /\ DirectivesOf(a[j]) \subseteq DirectivesOf(new[f[j]])
    BY <1>1, GrownKeepsQuery, KeptDirectives DEF Weave
  <2> QED BY <2>1 DEF AllDirectives
<1>4. AllDirectives(body) \subseteq AllDirectives(new)
  <2>1. \A k \in DOMAIN body :
            g[k] \in DOMAIN new /\ DirectivesOf(body[k]) \subseteq DirectivesOf(new[g[k]])
    BY <1>1, GrownKeepsBody, KeptDirectives DEF Weave
  <2> QED BY <2>1 DEF AllDirectives
<1>5. PICK C, D, E : C = AllDirectives(new) /\ D = AllDirectives(a) /\ E = AllDirectives(body)
  OBVIOUS
<1>6. C = D \cup E
  BY <1>2, <1>3, <1>4, <1>5
<1>7. ParametersUsed(C) = ParametersUsed(D) \cup ParametersUsed(E)
  BY <1>6 DEF ParametersUsed
<1> QED BY <1>5, <1>7

-----------------------------------------------------------------------------
(* The invariant                                                              *)

(* The query so far is a tree and has its tags in order, all of them are taken, and its     *)
(* filters read tags of their own scope.                                      *)
ExpansionInv ==
    /\ TreeOf(ast)
    /\ expansions \in Nat
    /\ IsFiniteSet(tag_names) /\ AllTagNames(ast) \subseteq tag_names
    /\ Precede(ast)
    /\ NamesAreApart => TagsAreUnique(ast)
    /\ ScopesAgree(AllDirectives(ast))

LEMMA AstIs ==
    ASSUME NEW a, IsAst(a), Mergeable(a), WellTagged(a)
    PROVE  TreeOf(a) /\ AreVertices(a) /\ Precede(a) /\ TagsAreUnique(a)
<1>1. AreVertices(a) /\ a # <<>> /\ IsTree(a)
  BY DEF IsAst, AreVertices
<1>2. TreeOf(a)
  BY <1>1 DEF Mergeable, PathsDiffer, TreeOf
<1>3. Precede(a) /\ TagsAreUnique(a)
  BY <1>1, PrecedeMeans DEF WellTagged
<1> QED BY <1>1, <1>2, <1>3

LEMMA ExpansionInit == Init => ExpansionInv
<1> SUFFICES ASSUME Init PROVE ExpansionInv
  OBVIOUS
<1>1. query \in Queries /\ ast = query.ast /\ tag_names = AllTagNames(ast) /\ expansions = 0
  BY DEF Init
<1>2. /\ IsAst(ast) /\ WellTagged(ast) /\ Mergeable(ast)
      /\ \A d \in AllDirectives(ast) : d.scope = 0
  BY <1>1, ExpansionAssumption
<1>3. TreeOf(ast) /\ Precede(ast) /\ TagsAreUnique(ast)
  BY <1>2, AstIs
<1>4. IsFiniteSet(tag_names)
  BY <1>1, <1>2 DEF IsAst
<1>5. ScopesAgree(AllDirectives(ast))
  BY <1>2 DEF ScopesAgree
<1> QED BY <1>1, <1>3, <1>4, <1>5 DEF ExpansionInv

(* The macro edge that is expanded next is one of the registry's, and its     *)
(* body starts from the class that it is at or from one that is above it.     *)
LEMMA DescriptorIs ==
    ASSUME NEW a, AreVertices(a), MacroEdges(a) # {}
    PROVE  /\ Descriptor(a) \in Descriptors
           /\ StartClass(a, NextMacroEdge(a)) \in SubclassSets[Descriptor(a).expansion_ast[1].type]
<1>1. PICK i : i = NextMacroEdge(a)
  OBVIOUS
<1>2. i \in DOMAIN a /\ IsMacroEdge(a, i)
  BY <1>1, NextMacroEdgeIs DEF MacroEdges
<1>3. PICK s : s = CHOOSE j \in Sources(a, i) : TRUE
  OBVIOUS
<1>4. s \in Sources(a, i)
  BY <1>2, <1>3 DEF IsMacroEdge
<1>5. s \in DOMAIN a
  <2>1. DOMAIN a = 1..Len(a) /\ Len(a) \in Nat
    BY ListParts DEF AreVertices
  <2>2. s \in 1..(i - 1)
    BY <1>4 DEF Sources
  <2> QED BY <1>2, <2>1, <2>2
<1>6. PICK c, m : c = StartClass(a, i) /\ m = FieldName(a[i])
  OBVIOUS
<1>7. c \in DOMAIN MacroEdgesAtClass
  BY <1>3, <1>5, <1>6 DEF StartClass, AreVertices, IsVertex
<1>8. m \in DOMAIN MacroEdgesAtClass[c]
  BY <1>2, <1>6 DEF IsMacroEdge
<1>9. Descriptor(a) = MacroEdgesAtClass[c][m]
  BY <1>1, <1>6 DEF Descriptor, EdgeAt
<1>10. c \in SubclassSets[MacroEdgesAtClass[c][m].expansion_ast[1].type]
  BY <1>7, <1>8, ExpansionAssumption
<1>11. Descriptor(a) \in Descriptors
  BY <1>7, <1>8, <1>9 DEF Descriptors
<1> QED BY <1>1, <1>6, <1>9, <1>10, <1>11

LEMMA ImagesAreFinite ==
    ASSUME NEW S, IsFiniteSet(S), NEW change, DOMAIN change = S
    PROVE  IsFiniteSet(Images(change, S))
<1> DEFINE h == [t \in S |-> change[t]]
<1>1. h \in Surjection(S, Images(change, S))
  BY DEF Surjection, Images
<1> QED BY <1>1, FS_Surjection

(* What is known of a macro edge.                                             *)
LEMMA DescriptorMeans ==
    ASSUME NEW d \in Descriptors, NEW macro, macro = d.expansion_ast
    PROVE  /\ IsAst(macro) /\ WellTagged(macro) /\ TreeOf(macro) /\ AreVertices(macro)
           /\ d.target \in 2..Len(macro) /\ macro[d.target].type = d.target_class_name
           /\ d.target_class_name \in SubclassSets[d.target_class_name]
           /\ HoldsNoMacroEdges(macro) /\ VertexDirectives(macro[1]) = {}
           /\ d.macro_args = ParametersUsed(AllDirectives(macro))
<1>1. /\ IsAst(macro) /\ WellTagged(macro) /\ Mergeable(macro)
      /\ d.target \in 2..Len(macro) /\ macro[d.target].type = d.target_class_name
      /\ d.target_class_name \in DOMAIN SubclassSets
      /\ HoldsNoMacroEdges(macro) /\ VertexDirectives(macro[1]) = {}
      /\ d.macro_args = ParametersUsed(AllDirectives(macro))
  BY ExpansionAssumption
<1>2. d.target_class_name \in SubclassSets[d.target_class_name]
  BY <1>1, ExpansionAssumption
<1> QED BY <1>1, <1>2, AstIs

(* A macro edge is expanded: its body, with new names, is woven into the      *)
(* query.                                                                     *)
Expands(descriptor, macro, order, change, body, f, g) ==
    /\ descriptor = Descriptor(ast) /\ descriptor \in Descriptors
    /\ macro = descriptor.expansion_ast
    /\ order \in Orders(AllTagNames(macro))
    /\ change = GenerateDisambiguations(tag_names, order)
    /\ body = ReplaceTagNames(macro, change, expansions + 1) /\ TreeOf(body)
    /\ tag_names' = tag_names \cup {change[t] : t \in DOMAIN change}
    /\ TreeOf(ast')
    /\ Grown(ast', ast, body, NextMacroEdge(ast), descriptor.target, f, g)

LEMMA ExpansionIs ==
    ASSUME TreeOf(ast), expansions \in Nat, ExpandMacroEdge
    PROVE  \E descriptor, macro, order, change, body, f, g :
               Expands(descriptor, macro, order, change, body, f, g)
<1>1. PICK descriptor, macro : descriptor = Descriptor(ast) /\ macro = descriptor.expansion_ast
  OBVIOUS
<1>2. PICK order \in Orders(AllTagNames(macro)) :
          LET change == GenerateDisambiguations(tag_names, order)
              body == ReplaceTagNames(macro, change, expansions + 1)
          IN  /\ ast' = Expanded(ast, body, descriptor.target)
              /\ tag_names' = tag_names \cup {change[t] : t \in DOMAIN change}
  BY <1>1 DEF ExpandMacroEdge
<1>3. PICK change : change = GenerateDisambiguations(tag_names, order)
  OBVIOUS
<1>4. PICK body : body = ReplaceTagNames(macro, change, expansions + 1)
  OBVIOUS
<1>5. /\ ast' = Expanded(ast, body, descriptor.target)
      /\ tag_names' = tag_names \cup {change[t] : t \in DOMAIN change}
  BY <1>2, <1>3, <1>4
<1>6. Mergeable(ast') /\ MacroEdges(ast) # {} /\ expansions + 1 \in Nat
  BY DEF ExpandMacroEdge, Supported
<1>7. descriptor \in Descriptors
  BY <1>1, <1>6, DescriptorIs DEF TreeOf
<1>8. TreeOf(macro) /\ descriptor.target \in 2..Len(macro)
  BY <1>1, <1>7, DescriptorMeans
<1>9. TreeOf(body) /\ Len(body) = Len(macro)
  BY <1>4, <1>6, <1>8, BodyStays
<1>10. PathsDiffer(ast')
  BY <1>6 DEF Mergeable, PathsDiffer
<1>11. PICK new : new = ast'
  OBVIOUS
<1>12. TreeOf(new) /\ \E f, g : Grown(new, ast, body, NextMacroEdge(ast), descriptor.target, f, g)
  BY <1>5, <1>6, <1>8, <1>9, <1>10, <1>11, ExpandedGrows
<1>13. PICK f, g : Grown(new, ast, body, NextMacroEdge(ast), descriptor.target, f, g)
  BY <1>12
<1>14. Expands(descriptor, macro, order, change, body, f, g)
  BY <1>1, <1>2, <1>3, <1>4, <1>5, <1>7, <1>9, <1>11, <1>12, <1>13 DEF Expands
<1> QED BY <1>14

LEMMA ExpansionStep == ExpansionInv /\ ExpandMacroEdge => ExpansionInv'
<1> SUFFICES ASSUME ExpansionInv, ExpandMacroEdge PROVE ExpansionInv'
  OBVIOUS
<1>0. PICK descriptor, macro, order, change, body, f, g :
          Expands(descriptor, macro, order, change, body, f, g)
  BY ExpansionIs DEF ExpansionInv
<1>1. /\ descriptor \in Descriptors /\ macro = descriptor.expansion_ast
      /\ order \in Orders(AllTagNames(macro))
      /\ change = GenerateDisambiguations(tag_names, order)
      /\ body = ReplaceTagNames(macro, change, expansions + 1) /\ TreeOf(body)
      /\ tag_names' = tag_names \cup {change[t] : t \in DOMAIN change}
      /\ TreeOf(ast')
      /\ Grown(ast', ast, body, NextMacroEdge(ast), descriptor.target, f, g)
  BY <1>0 DEF Expands
<1>2. PICK new, names : new = ast' /\ names = AllTagNames(macro)
  OBVIOUS
<1>3. TreeOf(new) /\ Weave(new, ast, body, f, g) /\ AreVertices(ast) /\ AreVertices(body)
  BY <1>1, <1>2 DEF Grown, TreeOf, ExpansionInv
<1>4. PICK n \in Nat : n = expansions + 1 /\ expansions' = n
  BY DEF ExpansionInv, ExpandMacroEdge
<1>5. /\ AreVertices(macro) /\ IsAst(macro) /\ WellTagged(macro)
      /\ IsFiniteSet(names) /\ \A t \in names : IsList(t)
  BY <1>1, <1>2, DescriptorMeans DEF IsAst
<1>6. /\ DOMAIN change = names /\ \A t \in names : change[t] \notin tag_names
      /\ AreApart(names) => \A t, u \in names : change[t] = change[u] => t = u
  BY <1>1, <1>2, <1>5, ChangeIs DEF ExpansionInv
<1>7. /\ AllTagNames(body) = Images(change, names) /\ Precede(body)
      /\ (\A t, u \in names : change[t] = change[u] => t = u) => TagsAreUnique(body)
      /\ \A d \in AllDirectives(body) : d.scope = n
  BY <1>1, <1>2, <1>4, <1>5, BodyStaysWellTagged
<1>8. AllTagNames(ast) \cap AllTagNames(body) = {}
  BY <1>6, <1>7 DEF ExpansionInv, Images
<1>9. Precede(new) /\ ScopesAgree(AllDirectives(new))
  BY <1>3, <1>7, <1>8, WovenPrecede, WovenScopes DEF ExpansionInv
<1>10. ASSUME NamesAreApart PROVE TagsAreUnique(new)
  <2>1. AreApart(names)
    BY <1>1, <1>2, <1>10 DEF NamesAreApart, AreApart
  <2>2. TagsAreUnique(body)
    BY <1>6, <1>7, <2>1
  <2> QED BY <1>3, <1>8, <1>10, <2>2, WovenUnique DEF ExpansionInv
<1>11. tag_names' = tag_names \cup Images(change, names)
  BY <1>1, <1>6 DEF Images
<1>12. IsFiniteSet(tag_names')
  BY <1>5, <1>6, <1>11, ImagesAreFinite, FS_Union DEF ExpansionInv
<1>13. AllTagNames(new) \subseteq tag_names'
  BY <1>3, <1>7, <1>11, WovenNames DEF ExpansionInv
<1> QED BY <1>2, <1>3, <1>4, <1>9, <1>10, <1>12, <1>13 DEF ExpansionInv

LEMMA ExpansionInvariant == Spec => []ExpansionInv
<1>1. Init => ExpansionInv
  BY ExpansionInit
<1>2. ExpansionInv /\ [Next]_vars => ExpansionInv'
  <2> SUFFICES ASSUME ExpansionInv, [Next]_vars PROVE ExpansionInv'
    OBVIOUS
  <2>1. ASSUME UNCHANGED <<ast, tag_names, expansions>> PROVE ExpansionInv'
    BY <2>1 DEF ExpansionInv
  <2>2. CASE RejectDirectives
    BY <2>1, <2>2 DEF RejectDirectives, Raise
  <2>3. CASE RejectCoercion
    BY <2>1, <2>3 DEF RejectCoercion, Raise
  <2>4. CASE RejectMerge
    BY <2>1, <2>4 DEF RejectMerge, Raise
  <2>5. CASE RejectArguments
    BY <2>1, <2>5 DEF RejectArguments, Raise
  <2>6. CASE ExpandMacroEdge
    BY <2>6, ExpansionStep
  <2>7. CASE Return
    BY <2>1, <2>7 DEF Return
  <2>8. CASE UNCHANGED vars
    BY <2>1, <2>8 DEF vars
  <2> QED BY <2>2, <2>3, <2>4, <2>5, <2>6, <2>7, <2>8 DEF Next
<1> QED BY <1>1, <1>2, PTL DEF Spec

-----------------------------------------------------------------------------
(* What was selected stays selected                                           *)

(* What the query selects at its vertices is at those that F gives, each      *)
(* below those above it.                                                      *)
HoldsQuery(a, q, F) ==
    /\ F \in [DOMAIN q -> DOMAIN a]
    /\ \A p \in DOMAIN q : Kept(q[p], a[F[p]])
    /\ \A p, j \in DOMAIN q :
          Starts(q[p].path, q[j].path) => Starts(a[F[p]].path, a[F[j]].path)

NoFilterBesides(a) == \A j \in MacroEdges(a) : a[j].coerced => a[j].directives = {}

(* The macro edges that are left are those of the query that were not yet     *)
(* expanded, and nothing that the query selects or uses is gone, unless it    *)
(* has a filter beside a type coercion.                                       *)
MergeInv ==
    /\ query \in Queries
    /\ MacroEdgesAreTyped(ast)
    /\ Cardinality(MacroEdges(ast)) \in Nat
    /\ expansions + Cardinality(MacroEdges(ast)) = Cardinality(MacroEdges(query.ast))
    /\ NoFilterBesides(query.ast) =>
          /\ NoFilterBesides(ast)
          /\ query_args = ParametersUsed(AllDirectives(ast))
          /\ \E F : HoldsQuery(ast, query.ast, F)

(* A query has finitely many macro edges.                                     *)
LEMMA CountOfMacroEdges ==
    ASSUME NEW a, TreeOf(a)
    PROVE  Cardinality(MacroEdges(a)) \in Nat
<1>1. DOMAIN a = 1..Len(a) /\ Len(a) \in Nat
  BY TreePaths
<1>2. IsFiniteSet(1..Len(a))
  BY <1>1, FS_Interval
<1>3. MacroEdges(a) \subseteq 1..Len(a)
  BY <1>1 DEF MacroEdges
<1>4. IsFiniteSet(MacroEdges(a))
  BY <1>2, <1>3, FS_Subset
<1> QED BY <1>4, FS_CardinalityType

LEMMA MergeInit == Init => MergeInv
<1> SUFFICES ASSUME Init PROVE MergeInv
  OBVIOUS
<1>1. query \in Queries /\ ast = query.ast /\ query_args = query.query_args /\ expansions = 0
  BY DEF Init
<1>2. /\ IsAst(ast) /\ WellTagged(ast) /\ Mergeable(ast) /\ MacroEdgesAreTyped(ast)
      /\ query_args = ParametersUsed(AllDirectives(ast))
  BY <1>1, ExpansionAssumption
<1>3. Cardinality(MacroEdges(ast)) \in Nat
  BY <1>2, AstIs, CountOfMacroEdges
<1>4. HoldsQuery(ast, ast, [p \in DOMAIN ast |-> p])
  BY DEF HoldsQuery, Kept
<1> QED BY <1>1, <1>2, <1>3, <1>4 DEF MergeInv

LEMMA MergeStep == ExpansionInv /\ MergeInv /\ ExpandMacroEdge => MergeInv'
<1> SUFFICES ASSUME ExpansionInv, MergeInv, ExpandMacroEdge PROVE MergeInv'
  OBVIOUS
<1>1. PICK descriptor, macro, order, change, body, f, g :
          Expands(descriptor, macro, order, change, body, f, g)
  BY ExpansionIs DEF ExpansionInv
<1>2. PICK new, i, target : new = ast' /\ i = NextMacroEdge(ast) /\ target = descriptor.target
  OBVIOUS
<1>3. /\ descriptor = Descriptor(ast) /\ descriptor \in Descriptors
      /\ macro = descriptor.expansion_ast
      /\ body = ReplaceTagNames(macro, change, expansions + 1)
      /\ TreeOf(ast) /\ TreeOf(body) /\ TreeOf(new) /\ Grown(new, ast, body, i, target, f, g)
  BY <1>1, <1>2 DEF Expands, ExpansionInv
<1>4. /\ expansions \in Nat /\ expansions' = expansions + 1 /\ query' = query
      /\ MacroEdges(ast) # {}
      /\ query_args' = query_args \cup descriptor.macro_args
      /\ ValidCoercion(ast[i], descriptor.target_class_name)
  <2>1. query_args' = query_args \cup Descriptor(ast).macro_args
    BY DEF ExpandMacroEdge
  <2> QED BY <1>2, <1>3, <2>1 DEF ExpandMacroEdge, Supported, ExpansionInv
<1>5. /\ TreeOf(macro) /\ target \in 2..Len(macro) /\ macro[target].type = descriptor.target_class_name
      /\ descriptor.target_class_name \in SubclassSets[descriptor.target_class_name]
      /\ HoldsNoMacroEdges(macro) /\ VertexDirectives(macro[1]) = {}
      /\ descriptor.macro_args = ParametersUsed(AllDirectives(macro))
  BY <1>2, <1>3, DescriptorMeans
<1>6. /\ Len(body) = Len(macro)
      /\ \A k \in DOMAIN macro : body[k].type = macro[k].type
      /\ HoldsNoMacroEdges(body) /\ VertexDirectives(body[1]) = {}
      /\ ParametersUsed(AllDirectives(body)) = ParametersUsed(AllDirectives(macro))
  <2>1. PICK n \in Nat : n = expansions + 1
    BY <1>4
  <2>2. TreeOf(macro) /\ body = ReplaceTagNames(macro, change, n)
    BY <1>3, <1>5, <2>1
  <2>3. /\ Len(body) = Len(macro)
        /\ \A k \in DOMAIN macro : body[k].type = macro[k].type
        /\ HoldsNoMacroEdges(macro) => HoldsNoMacroEdges(body)
        /\ VertexDirectives(macro[1]) = {} => VertexDirectives(body[1]) = {}
        /\ ParametersUsed(AllDirectives(body)) = ParametersUsed(AllDirectives(macro))
    BY <2>2, BodyStays
  <2> QED BY <1>5, <2>3
<1>7. i \in MacroEdges(ast) /\ descriptor = EdgeAt(ast, i)
      /\ StartClass(ast, i) \in SubclassSets[macro[1].type]
  BY <1>2, <1>3, <1>4, NextMacroEdgeIs, DescriptorIs DEF Descriptor, TreeOf
<1>8. body[target].type = descriptor.target_class_name /\ body[1].type = macro[1].type
  BY <1>5, <1>6, TreePaths
<1>9. FitsAt(ast, i, new, body, target, f)
  <2>1. ast[i].coerced \/ ast[i].type = body[target].type
    BY <1>7, <1>8 DEF MergeInv, MacroEdgesAreTyped
  <2>2. new[f[i]].type \in SubclassSets[body[target].type]
    <3>1. new[f[i]].type = IF ast[i].coerced THEN ast[i].type ELSE body[target].type
      BY <1>3 DEF Grown, Meets
    <3> QED BY <1>4, <1>5, <1>8, <3>1 DEF ValidCoercion
  <2>3. ASSUME NEW k \in DOMAIN body PROVE body[k].type \in SubclassSets[body[k].type]
    <3>1. body[k].type \in DOMAIN SubclassSets
      BY <1>3, ExpansionAssumption DEF TreeOf, AreVertices, IsVertex
    <3> QED BY <3>1, ExpansionAssumption
  <2> QED BY <1>6, <1>7, <1>8, <2>1, <2>2, <2>3 DEF FitsAt
<1>10. /\ MacroEdges(new) = {f[j] : j \in MacroEdges(ast) \ {i}}
       /\ Cardinality(MacroEdges(new)) = Cardinality(MacroEdges(ast)) - 1
  BY <1>3, <1>9, GrownMacroEdges
<1>11. ASSUME NEW x \in MacroEdges(new)
       PROVE  \E j \in MacroEdges(ast) :
                  /\ x = f[j] /\ EdgeAt(new, x) = EdgeAt(ast, j)
                  /\ new[x].type = ast[j].type /\ new[x].coerced = ast[j].coerced
                  /\ new[x].directives = ast[j].directives
  <2>1. PICK j \in MacroEdges(ast) : j # i /\ x = f[j]
    BY <1>10
  <2>2. j \in DOMAIN ast
    BY DEF MacroEdges
  <2>3. EdgeAt(new, x) = EdgeAt(ast, j)
    BY <1>3, <1>9, <2>1, <2>2, GrownQueryEdges
  <2>4. /\ new[x].type = ast[j].type /\ new[x].coerced = ast[j].coerced
        /\ new[x].directives = ast[j].directives
    BY <1>3, <2>1, <2>2 DEF Grown
  <2> QED BY <2>1, <2>3, <2>4
<1>12. MacroEdgesAreTyped(new)
  BY <1>11 DEF MergeInv, MacroEdgesAreTyped
<1>13. /\ Cardinality(MacroEdges(new)) \in Nat
       /\ expansions' + Cardinality(MacroEdges(new)) = Cardinality(MacroEdges(query.ast))
  <2>1. PICK e, c, r, q : /\ e = expansions /\ c = Cardinality(MacroEdges(ast))
                          /\ r = Cardinality(MacroEdges(new)) /\ q = Cardinality(MacroEdges(query.ast))
    OBVIOUS
  <2>2. r \in Nat
    BY <1>3, <2>1, CountOfMacroEdges
  <2>3. e \in Nat /\ c \in Nat /\ e + c = q /\ r = c - 1
    BY <1>4, <1>10, <2>1 DEF MergeInv
  <2>4. (e + 1) + r = q
    BY <2>2, <2>3
  <2> QED BY <1>4, <2>1, <2>2, <2>4
<1>14. ASSUME NoFilterBesides(query.ast)
       PROVE  /\ NoFilterBesides(new)
              /\ query_args' = ParametersUsed(AllDirectives(new))
              /\ \E F : HoldsQuery(new, query.ast, F)
  <2>1. /\ NoFilterBesides(ast) /\ query_args = ParametersUsed(AllDirectives(ast))
        /\ \E F : HoldsQuery(ast, query.ast, F)
    BY <1>14 DEF MergeInv
  <2>2. NoFilterBesides(new)
    BY <1>11, <2>1 DEF NoFilterBesides
  <2>3. ast[i].coerced => ast[i].directives = {}
    BY <1>7, <2>1 DEF NoFilterBesides
  <2>4. query_args' = ParametersUsed(AllDirectives(new))
    <3>1. ParametersUsed(AllDirectives(new))
              = ParametersUsed(AllDirectives(ast)) \cup ParametersUsed(AllDirectives(body))
      <4>1. /\ TreeOf(body) /\ VertexDirectives(body[1]) = {}
            /\ Grown(new, ast, body, i, target, f, g)
        BY <1>3, <1>6
      <4> QED BY <2>3, <4>1, GrownParameters
    <3> QED BY <1>4, <1>5, <1>6, <2>1, <3>1
  <2>5. PICK F, q : q = query.ast /\ HoldsQuery(ast, q, F)
    BY <2>1
  <2> DEFINE G == [p \in DOMAIN q |-> f[F[p]]]
  <2>6. /\ F \in [DOMAIN q -> DOMAIN ast] /\ \A p \in DOMAIN q : Kept(q[p], ast[F[p]])
        /\ \A p, j \in DOMAIN q :
              Starts(q[p].path, q[j].path) => Starts(ast[F[p]].path, ast[F[j]].path)
    BY <2>5 DEF HoldsQuery
  <2>7. f \in [DOMAIN ast -> DOMAIN new]
    BY <1>3 DEF Grown, Weave
  <2>8. \A p \in DOMAIN q : F[p] \in DOMAIN ast /\ G[p] = f[F[p]]
    BY <2>6
  <2>9. G \in [DOMAIN q -> DOMAIN new]
    BY <2>6, <2>7
  <2> HIDE DEF G
  <2>10. ASSUME NEW p \in DOMAIN q PROVE Kept(q[p], new[G[p]])
    <3>1. Kept(ast[F[p]], new[f[F[p]]])
      BY <1>3, <2>3, <2>8, GrownKeepsQuery
    <3> QED BY <2>6, <2>8, <3>1, KeptTransitive
  <2>11. ASSUME NEW p \in DOMAIN q, NEW j \in DOMAIN q, Starts(q[p].path, q[j].path)
         PROVE  Starts(new[G[p]].path, new[G[j]].path)
    <3>1. Starts(ast[F[p]].path, ast[F[j]].path)
      BY <2>6, <2>11
    <3>2. Starts(new[f[F[p]]].path, new[f[F[j]]].path)
      BY <1>3, <2>8, <3>1, GrownKeepsPaths
    <3> QED BY <2>8, <3>2
  <2>12. HoldsQuery(new, q, G)
    BY <2>9, <2>10, <2>11 DEF HoldsQuery
  <2> QED BY <2>2, <2>4, <2>5, <2>12
<1> QED BY <1>2, <1>4, <1>12, <1>13, <1>14 DEF MergeInv

LEMMA MergeInvariant == Spec => []MergeInv
<1>1. Init => MergeInv
  BY MergeInit
<1>2. ExpansionInv /\ MergeInv /\ [Next]_vars => MergeInv'
  <2> SUFFICES ASSUME ExpansionInv, MergeInv, [Next]_vars PROVE MergeInv'
    OBVIOUS
  <2>1. ASSUME UNCHANGED <<query, ast, query_args, expansions>> PROVE MergeInv'
    BY <2>1 DEF MergeInv
  <2>2. CASE RejectDirectives
    BY <2>1, <2>2 DEF RejectDirectives, Raise
  <2>3. CASE RejectCoercion
    BY <2>1, <2>3 DEF RejectCoercion, Raise
  <2>4. CASE RejectMerge
    BY <2>1, <2>4 DEF RejectMerge, Raise
  <2>5. CASE RejectArguments
    BY <2>1, <2>5 DEF RejectArguments, Raise
  <2>6. CASE ExpandMacroEdge
    BY <2>6, MergeStep
  <2>7. CASE Return
    BY <2>1, <2>7 DEF Return
  <2>8. CASE UNCHANGED vars
    BY <2>1, <2>8 DEF vars
  <2> QED BY <2>2, <2>3, <2>4, <2>5, <2>6, <2>7, <2>8 DEF Next
<1> QED BY <1>1, <1>2, ExpansionInvariant, PTL DEF Spec

(* generate_disambiguations and replace_tag_names: for every registry of      *)
(* macro edges, and however their tags are named, a filter of the query never *)
(* reads a tag of a macro edge, and a filter of a macro edge reads the tag of *)
(* its own expansion: the names the body gets are none of those in use, and   *)
(* bodies use no tags but their own.                                          *)
THEOREM FiltersReadTheirOwnTags == Spec => []ScopesDoNotMix
<1>1. ExpansionInv => ScopesDoNotMix
  BY DEF ExpansionInv, ScopesAgree, ScopesDoNotMix
<1> QED BY <1>1, ExpansionInvariant, PTL

(* _expand_specific_macro_edge puts the body of a macro edge around the       *)
(* query's own selections so that, at every step, each tag is declared before *)
(* the filters that use it, and, when no tag of a macro edge is named like    *)
(* another one of its with a suffix, only once.                               *)
THEOREM TagsAreInOrder == Spec => []TagsStayInOrder
<1>1. ExpansionInv => TagsStayInOrder
  BY PrecedeMeans DEF ExpansionInv, TreeOf, TagsStayInOrder, WellTagged
<1> QED BY <1>1, ExpansionInvariant, PTL

(* merge_selection_sets and _merge_selection_into_target: for every query and *)
(* registry of macro edges, and at every step of the expansion, what the      *)
(* query selects and filters at one vertex is at one vertex, below what it    *)
(* selects above it, unless it has a filter beside a type coercion.           *)
THEOREM SelectionsStay == Spec => []SelectionsAreMerged
<1>1. ExpansionInv /\ MergeInv => SelectionsAreMerged
  <2> SUFFICES ASSUME ExpansionInv, MergeInv, NoFilterBesideCoercion PROVE EverythingIsMerged
    BY DEF SelectionsAreMerged
  <2>1. NoFilterBesides(query.ast)
    BY DEF NoFilterBesideCoercion, NoFilterBesides
  <2>2. PICK F, q : q = query.ast /\ HoldsQuery(ast, q, F)
    BY <2>1 DEF MergeInv
  <2>3. IsAst(q) /\ Mergeable(q) /\ WellTagged(q)
    BY <2>2, ExpansionAssumption DEF MergeInv
  <2>4. TreeOf(q) /\ TreeOf(ast)
    BY <2>3, AstIs DEF ExpansionInv
  <2>5. ASSUME NEW a, TreeOf(a), NEW p \in DOMAIN a, NEW j \in DOMAIN a
        PROVE  IsPrefix(a[p].path, a[j].path) <=> Starts(a[p].path, a[j].path)
    BY <2>5, TreePaths, PrefixIs
  <2>6. /\ F \in [DOMAIN q -> DOMAIN ast] /\ \A p \in DOMAIN q : Kept(q[p], ast[F[p]])
        /\ \A p, j \in DOMAIN q :
              Starts(q[p].path, q[j].path) => Starts(ast[F[p]].path, ast[F[j]].path)
    BY <2>2 DEF HoldsQuery
  <2>7. ASSUME NEW j \in DOMAIN q, NEW p \in DOMAIN q, IsPrefix(q[p].path, q[j].path)
        PROVE  /\ F[p] \in DOMAIN ast /\ Kept(q[p], ast[F[p]])
               /\ IsPrefix(ast[F[p]].path, ast[F[j]].path)
    <3>1. Starts(q[p].path, q[j].path)
      BY <2>4, <2>5, <2>7
    <3>2. F[p] \in DOMAIN ast /\ F[j] \in DOMAIN ast /\ Starts(ast[F[p]].path, ast[F[j]].path)
      BY <2>6, <3>1
    <3> QED BY <2>4, <2>5, <2>6, <3>2
  <2>8. \A j \in DOMAIN q : F[j] \in DOMAIN ast
    BY <2>6
  <2> QED BY <2>2, <2>7, <2>8 DEF EverythingIsMerged
<1> QED BY <1>1, ExpansionInvariant, MergeInvariant, PTL

(* expand_macros_in_query_ast merges the arguments of each macro edge into    *)
(* those of the query: at every step they are those that the query so far     *)
(* uses, unless it has a filter beside a type coercion.                       *)
THEOREM ArgumentsStayMatched == Spec => []ArgumentsMatch
<1>1. MergeInv => ArgumentsMatch
  BY DEF MergeInv, ArgumentsMatch, NoFilterBesideCoercion, NoFilterBesides
<1> QED BY <1>1, MergeInvariant, PTL

(* _expand_macros_in_inner_ast: each macro edge of the query is expanded      *)
(* once, wherever those around it move it, and no body brings in another.     *)
THEOREM MacroEdgesOnce == Spec => []EachMacroEdgeOnce
<1>1. MergeInv => EachMacroEdgeOnce
  BY DEF MergeInv, EachMacroEdgeOnce
<1> QED BY <1>1, MergeInvariant, PTL

=============================================================================
