---------------------------- MODULE GraphValues -----------------------------
(***************************************************************************)
(* The data a compiled query runs over, and what a filter says of it.  A   *)
(* vertex reached by a recursion is told apart by the depth it was reached *)
(* at: a place is a vertex with that depth, or NULL when an optional edge  *)
(* led nowhere.                                                            *)
(***************************************************************************)
EXTENDS FilterOperators

CONSTANTS
  VertexTypes,     \* vertex -> every type it is of
  Neighbors,       \* vertex field -> vertex -> the vertices at the other end
  Properties,      \* vertex -> property field -> value or NULL
  ParameterValues  \* runtime parameter -> value

VerticesOf(type) == {v \in DOMAIN VertexTypes : type \in VertexTypes[v]}

Ends(vertex, edge) ==
  IF vertex \in DOMAIN Neighbors[edge] THEN Neighbors[edge][vertex] ELSE {}

Place(vertex, depth) == [vertex |-> vertex, depth |-> depth]

PropertyAt(place, field) ==
  IF place = NULL THEN NULL
  ELSE IF field \in DOMAIN Properties[place.vertex]
       THEN Properties[place.vertex][field] ELSE NULL

\* What the left side of a filter is, for the operator in it.
FilteredValue(op, field, place) ==
  CASE op = "has_edge_degree" -> Cardinality(Ends(place.vertex, field))
    [] op = "name_or_alias" -> [name |-> PropertyAt(place, "name"),
                                alias |-> PropertyAt(place, "alias")]
    [] OTHER -> PropertyAt(place, field)

\* Every place within depth steps of vertex along edge, itself included.
PlacesWithin(vertex, edge, depth) ==
  LET reached[d \in 0..depth] ==
        IF d = 0 THEN {vertex} ELSE UNION {Ends(v, edge) : v \in reached[d - 1]}
  IN  UNION {{Place(v, d) : v \in reached[d]} : d \in 0..depth}

\* How many of the elements look alike through a view of them.
CountedBy(elements, View(_)) ==
  [view \in {View(e) : e \in elements} |->
     Cardinality({e \in elements : View(e) = view})]
=============================================================================
