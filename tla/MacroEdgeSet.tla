---------------------------- MODULE MacroEdgeSet ----------------------------
(* What the registry of macro edges promises: it holds a set of macro edges   *)
(* any two of which are compatible, and takes a new one exactly when it is    *)
(* compatible with all of them.  Being compatible does not depend on who came *)
(* first, so a set of macro edges is accepted in every order or in none.      *)
CONSTANTS
    Candidates,
    Acceptable,    \* the candidates that are valid in isolation
    CompatiblePairs   \* unordered pairs of candidates

VARIABLES edges, verdict

Init == edges = {} /\ verdict = "none"

Fits(d) == d \in Acceptable /\ \A e \in edges : {d, e} \in CompatiblePairs

Accept(d) == Fits(d) /\ edges' = edges \cup {d} /\ verdict' = "accepted"

Reject(d) == ~Fits(d) /\ edges' = edges /\ verdict' = "rejected"

Next == \E d \in Candidates : Accept(d) \/ Reject(d)

Spec == Init /\ [][Next]_<<edges, verdict>>
=============================================================================
