----------------------- MODULE MacroRegistryImplements -----------------------
(* The registry implements MacroEdgeSet.                                      *)
EXTENDS MacroRegistry

Acceptable == {d \in Definitions : ValidInIsolation(d)}

CompatiblePairs ==
    {{p[1], p[2]} : p \in {q \in Acceptable \X Acceptable : Compatible(q[1], q[2])}}

Edges == INSTANCE MacroEdgeSet WITH
    Candidates <- Definitions,
    edges <- Registered,
    verdict <- CASE outcome = "created" -> "none"
                 [] outcome = "registered" -> "accepted"
                 [] OTHER -> "rejected"

(* register_macro_edge accepts a macro edge exactly when it is compatible     *)
(* with each one that is registered, so the order of registration is of no    *)
(* consequence.                                                               *)
AcceptsCompatible == Edges!Spec
=============================================================================
