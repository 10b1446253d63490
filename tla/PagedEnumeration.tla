-------------------------- MODULE PagedEnumeration --------------------------
(* What pagination promises a client over a database that does not change:    *)
(* the results of the query, each in one page, the pages in the order of one  *)
(* fixed ranking of the rows.  PageAndRemainder (query_pagination/typedefs)   *)
(* describes one step of it.                                                  *)
EXTENDS Integers

CONSTANT Items

VARIABLES
    rank,        \* the order the pages follow
    remaining,   \* results that no page gave yet
    given,       \* results that some page gave
    ended        \* the client knows that there is nothing more, or gave up

enumeration == <<rank, remaining, given, ended>>

Init ==
    /\ rank \in [Items -> Int]
    /\ remaining \subseteq Items
    /\ given = {}
    /\ ended = FALSE

(* A page is a prefix, in rank, of what remains.                              *)
GivePage ==
    /\ ~ended
    /\ \E batch \in SUBSET remaining :
          /\ \A a \in batch, b \in remaining \ batch : rank[a] < rank[b]
          /\ given' = given \cup batch
          /\ remaining' = remaining \ batch
    /\ ended' \in BOOLEAN
    /\ ended' => remaining' = {}
    /\ UNCHANGED rank

(* An exception ends the enumeration wherever it is.                          *)
GiveUp ==
    /\ ~ended
    /\ ended' = TRUE
    /\ UNCHANGED <<rank, remaining, given>>

Next == GivePage \/ GiveUp

Spec == Init /\ [][Next]_enumeration
=============================================================================
