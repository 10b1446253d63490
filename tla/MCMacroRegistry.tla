-------------------------- MODULE MCMacroRegistry --------------------------
(* Small instances of MacroRegistry for TLC.                                  *)
EXTENDS MacroRegistryImplements

Define(base, target, name, expansion) ==
    [base_class_name |-> base, target_class_name |-> target,
     macro_edge_name |-> name, expansion_ast |-> expansion]

(* Two interfaces with a common implementation, X, that is also a member of   *)
(* the union Y stands for, and a class apart.                                 *)
TwoInterfaces == {"A", "B"}
ThreeObjects == {"X", "Y", "Z"}
ImplementsBoth == [X |-> {"A", "B"}, Y |-> {"A"}, Z |-> {}]
OneUnion == [c \in Classes |-> IF c = "Y" THEN {"X", "Y"} ELSE {}]

OneField == [c \in Classes |-> IF c = "X" THEN {<<"in_", "f">>} ELSE {}]

AllNamed(names) ==
    {Define(b, t, n, "path") : b \in Classes, t \in Classes, n \in names}

Macros == AllNamed({<<"out_", "m">>, <<"in_", "m">>})

(* Macro edges with the name or the reverse of a field, with another body or  *)
(* an invalid one, and with a name that no edge has.                          *)
OddMacros ==
    { Define("A", "X", <<"in_", "f">>, "path"), Define("A", "X", <<"out_", "f">>, "path"),
      Define("X", "A", <<"out_", "f">>, "path"), Define("A", "A", <<"out_", "m">>, "other path"),
      Define("A", "A", <<"in_", "m">>, "bad"), Define("X", "X", <<"m", "">>, "path") }

AllDefinitions == Macros \cup OddMacros
=============================================================================
