------------------------ MODULE PaginationImplements ------------------------
(* Pagination over rows that do not change implements PagedEnumeration.       *)
EXTENDS Pagination

Returned(r) == fetched[r] > 0

(* What is left to give: the results of the queries still to be run.          *)
Left ==
    IF pc = "raised" THEN {r \in Rows : Matches(table[r], whole) /\ ~Returned(r)}
    ELSE {r \in Rows : Outstanding(r) > 0}

(* Rows follow the field the first page is cut at.                            *)
Rank ==
    [r \in Rows |-> IF AllKeys(schema_info) = {} THEN 0
                    ELSE table[r][PaginationField(schema_info, whole)]]

Enumeration == INSTANCE PagedEnumeration WITH
    Items <- Rows,
    rank <- Rank,
    remaining <- Left,
    given <- {r \in Rows : Returned(r)},
    ended <- pc \in {"done", "raised"}

(* The client of paginate_query sees the results page by page in the order of *)
(* the pagination field, and when it stops without an exception it has seen   *)
(* them all.                                                                  *)
ImplementsEnumeration == Enumeration!Spec
=============================================================================
