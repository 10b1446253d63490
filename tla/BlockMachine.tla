---------------------------- MODULE BlockMachine ----------------------------
(***************************************************************************)
(* What a sequence of basic blocks computes, one block after another, in   *)
(* the way each block turns itself into a step of a Gremlin pipeline.      *)
(*                                                                         *)
(* A traverser has a place, here, and the places it has marked.  An item   *)
(* of the pipeline is a traverser with the traversers inside the fold that *)
(* is open, and with what the folds closed before it have collected.       *)
(***************************************************************************)
EXTENDS BlockSequence, GraphValues

Traverser(here) == [here |-> here, marks |-> <<>>]

At(traverser, outer, location) ==
  IF location \in DOMAIN traverser.marks THEN traverser.marks[location]
                                         ELSE outer[location]

ArgumentValue(argument, traverser, outer) ==
  CASE argument.kind = "Variable" -> ParameterValues[argument.name]
    [] argument.kind = "LocalField" -> PropertyAt(traverser.here, argument.name)
    [] OTHER -> PropertyAt(At(traverser, outer, argument.at), argument.name)

Excused(argument, traverser, outer) ==
  /\ argument.unlessMissing # NoLocation
  /\ At(traverser, outer, argument.unlessMissing) = NULL

PredicateHolds(block, value, traverser, outer) ==
  IF block.op \in UNARY_FILTERS THEN UnaryHolds(block.op, value)
  ELSE \A i \in DOMAIN block.args :
         \/ Excused(block.args[i], traverser, outer)
         \/ ClauseHolds(block.op, i, value,
                        ArgumentValue(block.args[i], traverser, outer))

\* Missing optional data is not filtered (rewrite_filters_in_optional_blocks).
PassesFilter(traverser, block, outer) ==
  \/ traverser.here = NULL
  \/ PredicateHolds(block, FilteredValue(block.op, block.field, traverser.here),
                    traverser, outer)

PassesCoercion(traverser, block) ==
  traverser.here # NULL => block.type \in VertexTypes[traverser.here.vertex]

Traversed(place, block) ==
  IF place = NULL THEN {NULL}
  ELSE LET ends == Ends(place.vertex, block.edge)
       IN  IF ends = {} /\ block.optional THEN {NULL}
           ELSE {Place(v, 0) : v \in ends}

Recursed(place, block) ==
  IF place = NULL THEN {NULL}
  ELSE PlacesWithin(place.vertex, block.edge, block.depth)

\* What one block makes of one traverser; outer holds the marks made outside
\* the fold that the traverser is in.
Move(traverser, block, outer) ==
  CASE block.kind = "QueryRoot" ->
         {Traverser(Place(v, 0)) : v \in VerticesOf(block.type)}
    [] block.kind = "CoerceType" ->
         IF PassesCoercion(traverser, block) THEN {traverser} ELSE {}
    [] block.kind = "Filter" ->
         IF PassesFilter(traverser, block, outer) THEN {traverser} ELSE {}
    [] block.kind = "MarkLocation" ->
         {[traverser EXCEPT !.marks =
             [l \in DOMAIN @ \cup {block.location} |->
                IF l = block.location THEN traverser.here ELSE @[l]]]}
    [] block.kind = "Traverse" ->
         {[traverser EXCEPT !.here = p] : p \in Traversed(traverser.here, block)}
    [] block.kind = "Recurse" ->
         {[traverser EXCEPT !.here = p] : p \in Recursed(traverser.here, block)}
    [] block.kind = "Backtrack" ->
         {[traverser EXCEPT !.here = At(traverser, outer, block.location)]}
    [] OTHER -> {traverser}

(***************************************************************************)
(* Items                                                                   *)
(***************************************************************************)
Item(traverser) ==
  [outside |-> traverser, fold |-> NoLocation, inside |-> {}, folds |-> <<>>]

FirstStep(item, block) ==
  [item EXCEPT !.fold = block.location,
               !.inside = Move(Traverser(item.outside.here),
                               Traverse(block.location.fold[1], FALSE, FALSE), <<>>)]

\* A fold is known by the location it is rooted at.
FoldAt(location) == [location EXCEPT !.fold = <<@[1]>>]

PassesGlobalFilter(item, block) ==
  PredicateHolds(block, Cardinality(item.folds[FoldAt(block.at)]),
                 item.outside, <<>>)

Advance(item, block) ==
  CASE block.kind = "Fold" -> {FirstStep(item, block)}
    [] block.kind = "Unfold" ->
         {[item EXCEPT !.fold = NoLocation, !.inside = {},
             !.folds = [l \in DOMAIN @ \cup {item.fold} |->
                          IF l = item.fold THEN item.inside ELSE @[l]]]}
    [] item.fold # NoLocation /\ block.kind \notin {"Fold", "Unfold"} ->
         {[item EXCEPT !.inside =
             UNION {Move(t, block, item.outside.marks) : t \in @}]}
    [] block.kind = "Filter" /\ IsFoldScopeLocation(block.at) ->
         IF PassesGlobalFilter(item, block) THEN {item} ELSE {}
    [] OTHER -> {[item EXCEPT !.outside = t] : t \in Move(item.outside, block, <<>>)}

Items(blocks) ==
  FoldLeft(LAMBDA items, block : UNION {Advance(item, block) : item \in items},
           {Item(Traverser(NULL))}, blocks)

(***************************************************************************)
(* Results: a bag of rows, in which the values collected by a fold are a   *)
(* bag too, because nothing fixes their order.                             *)
(***************************************************************************)
Result(item, fields) ==
  [name \in DOMAIN fields |->
     LET field == fields[name].field
         at == fields[name].at
     IN  IF ~IsFoldScopeLocation(at)
         THEN PropertyAt(item.outside.marks[at], field)
         ELSE LET inside == item.folds[FoldAt(at)]
                  Value(t) == PropertyAt(t.marks[at], field)
              IN  IF field = COUNT THEN Cardinality(inside)
                  ELSE CountedBy(inside, Value)]

ResultsOf(blocks) ==
  LET fields == blocks[Len(blocks)].fields
      Row(item) == Result(item, fields)
  IN  CountedBy(Items(blocks), Row)
=============================================================================
