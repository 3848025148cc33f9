-------------------------- MODULE MCGenCodeSnippets --------------------------
(* An instance of GenCodeSnippets for TLC: a function may define the variables *)
(* x and y; the file may use the same names for functions or contracts, and    *)
(* define add, call and value too. There is a string "x" in it.                *)
EXTENDS GenCodeSnippets

MCNumbers == {W("7"), W("x")}
MCWords == MCNumbers \cup {W("add"), W("call"), W("value"), W("x"), W("y"), <<"VAR", 0>>}

MCFuncMaps == {[w \in MCWords |-> IF w \in vs THEN "VAR" ELSE "UNKNOWN"] : vs \in SUBSET {W("x"), W("y")}}
MCAllMaps ==
    {[w \in MCWords |-> CASE w \in fs -> "FUNC" [] w = W("value") -> v [] w = W("y") -> y [] OTHER -> "UNKNOWN"] :
        fs \in SUBSET {W("add"), W("call"), W("x")}, v \in {"VAR", "UNKNOWN"}, y \in {"CONTRACT", "VAR"}}

=============================================================================
