--------------------------- MODULE QueryLocations ---------------------------
(***************************************************************************)
(* The positions of a query that the compiler names (compiler/helpers.py): *)
(* a Location is a path of vertex fields and a visit counter, and a        *)
(* FoldScopeLocation adds the path inside one @fold, starting at the       *)
(* Location the fold is rooted at.  The property field of a location is    *)
(* carried beside it, never in it.                                         *)
(***************************************************************************)
EXTENDS Integers, Sequences

Location(path, visit) == [path |-> path, visit |-> visit, fold |-> <<>>]

\* The None of an optional location; a real path is never empty.
NoLocation == Location(<<>>, 0)

IsFoldScopeLocation(location) == location.fold # <<>>

----------------------------------------------------------------------------

NavigateToSubpath(location, edge) ==
  IF IsFoldScopeLocation(location)
  THEN [location EXCEPT !.fold = Append(@, edge)]
  ELSE Location(Append(location.path, edge), 1)

NavigateToFold(location, edge) == [location EXCEPT !.fold = <<edge>>]

Revisit(location) == [location EXCEPT !.visit = @ + 1]

\* _are_locations_in_same_fold: folds are told apart by their base location
\* and by the first edge they cross, which also names the fold's output.
InSameFold(location, other) ==
  /\ IsFoldScopeLocation(location) /\ IsFoldScopeLocation(other)
  /\ location.path = other.path /\ location.visit = other.visit
  /\ location.fold[1] = other.fold[1]

=============================================================================
