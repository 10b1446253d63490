--------------------------- MODULE BlockSequence ----------------------------
(***************************************************************************)
(* The intermediate representation of a query: its basic blocks            *)
(* (compiler/blocks.py), and the structure the rest of the compiler relies *)
(* on (compiler/ir_self_consistency_checks.py).                            *)
(***************************************************************************)
EXTENDS FilterOperators, SequencesExt

COUNT == "_x_count"

(***************************************************************************)
(* Blocks                                                                  *)
(***************************************************************************)
Block(kind) == [kind |-> kind]
QueryRoot(type) == [kind |-> "QueryRoot", type |-> type]
CoerceType(type) == [kind |-> "CoerceType", type |-> type]
MarkLocation(location) == [kind |-> "MarkLocation", location |-> location]
Fold(location) == [kind |-> "Fold", location |-> location]
Traverse(edge, optional, within) ==
  [kind |-> "Traverse", edge |-> edge, optional |-> optional, within |-> within]
Recurse(edge, depth, within) ==
  [kind |-> "Recurse", edge |-> edge, depth |-> depth, within |-> within]
Backtrack(location, optional) ==
  [kind |-> "Backtrack", location |-> location, optional |-> optional]
ConstructResult(fields) == [kind |-> "ConstructResult", fields |-> fields]

(***************************************************************************)
(* Self-consistency                                                        *)
(***************************************************************************)
Is(block, kinds) == block.kind \in kinds

IsOptionalTraverse(block) == block.kind = "Traverse" /\ block.optional

\* pairwise
Adjacent(blocks) == {<<blocks[i], blocks[i + 1]>> : i \in 1..(Len(blocks) - 1)}

Before(blocks, i, kind) == Cardinality({j \in 1..(i - 1) : blocks[j].kind = kind})

InsideFold(blocks, i) == Before(blocks, i, "Fold") > Before(blocks, i, "Unfold")

\* extract_folds_from_ir_blocks: the blocks that belong to no fold.
OutsideFolds(blocks) ==
  LET kept == {i \in DOMAIN blocks : /\ ~InsideFold(blocks, i)
                                     /\ ~Is(blocks[i], {"Fold", "Unfold"})}
  IN  [i \in 1..Cardinality(kept) |->
         blocks[CHOOSE k \in kept : Cardinality({j \in kept : j <= k}) = i]]

FoldScopeLocationsAreUnique(blocks) ==
  \A i, j \in DOMAIN blocks :
    Is(blocks[i], {"Fold"}) /\ Is(blocks[j], {"Fold"})
      /\ blocks[i].location = blocks[j].location => i = j

NoNestedFolds(blocks) ==
  \A i \in DOMAIN blocks :
    /\ Is(blocks[i], {"Fold"}) => ~InsideFold(blocks, i)
    /\ Is(blocks[i], {"Unfold"}) => InsideFold(blocks, i)

QueryRootIsFirst(blocks) ==
  \A i \in DOMAIN blocks : Is(blocks[i], {"QueryRoot"}) <=> i = 1

OutputSourceFollowers(blocks) ==
  \A i \in DOMAIN blocks :
    Before(blocks, i, "OutputSource") > 0 =>
      ~Is(blocks[i], {"Backtrack", "Traverse", "Recurse"})

PairwiseConstraints(blocks) ==
  \A pair \in Adjacent(blocks) :
    LET first == pair[1]
        second == pair[2]
    IN  /\ Is(first, {"MarkLocation"}) => ~Is(second, {"Filter", "MarkLocation"})
        /\ IsOptionalTraverse(first) =>
             Is(second, {"MarkLocation", "CoerceType", "Filter"})
        /\ Is(first, {"Backtrack"}) /\ first.optional => Is(second, {"MarkLocation"})
        /\ Is(second, {"Recurse"}) => Is(first, {"MarkLocation", "Backtrack"})

MarkPrecedesOptionalTraverse(blocks) ==
  \A pair \in Adjacent(OutsideFolds(blocks)) :
    IsOptionalTraverse(pair[2]) => Is(pair[1], {"MarkLocation"})

StartsInterval == {"QueryRoot", "Traverse", "Recurse", "Fold"}
EndsInterval == {"Backtrack", "ConstructResult", "Recurse", "Traverse", "Unfold"}

\* Between the start of work at a position and its end there is one mark.
EveryLocationIsMarked(blocks) ==
  \A i, j \in DOMAIN blocks :
    /\ i < j
    /\ Is(blocks[i], StartsInterval) /\ Is(blocks[j], EndsInterval)
    /\ \A k \in (i + 1)..(j - 1) : ~Is(blocks[k], StartsInterval \cup EndsInterval)
    => Cardinality({k \in i..j : Is(blocks[k], {"MarkLocation"})}) = 1

CoerceTypeOutsideOfFold(blocks) ==
  \A i \in 1..(Len(blocks) - 1) :
    Is(blocks[i], {"CoerceType"}) /\ ~InsideFold(blocks, i) =>
      Is(blocks[i + 1], {"MarkLocation", "Filter"})

MarkedLocations(blocks) ==
  {blocks[i].location : i \in {j \in DOMAIN blocks : Is(blocks[j], {"MarkLocation"})}}

AllMarkedLocationsAreRegistered(blocks, locations) ==
  MarkedLocations(blocks) = DOMAIN locations

\* The root location is the one with a path of one element and one visit.
RegisteredParents(locations) ==
  \A l \in DOMAIN locations :
    IF locations[l].parent = NoLocation
    THEN Len(l.path) = 1 /\ ~IsFoldScopeLocation(l)
    ELSE locations[l].parent \in DOMAIN locations

SelfConsistent(blocks, locations) ==
  /\ FoldScopeLocationsAreUnique(blocks)
  /\ NoNestedFolds(blocks)
  /\ QueryRootIsFirst(blocks)
  /\ OutputSourceFollowers(blocks)
  /\ PairwiseConstraints(blocks)
  /\ MarkPrecedesOptionalTraverse(blocks)
  /\ EveryLocationIsMarked(blocks)
  /\ CoerceTypeOutsideOfFold(blocks)
  /\ AllMarkedLocationsAreRegistered(blocks, locations)
  /\ RegisteredParents(locations)
=============================================================================
