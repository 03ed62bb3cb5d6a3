-------------------------- MODULE MCCodeModeClient --------------------------
(* Two callers: the client of the first implements and lives on, the second *)
(* gets a new client for every call and goes from probing to implementing,  *)
(* while people edit, add and remove cells.                                 *)
EXTENDS CodeModeClient, TLC

CONSTANTS a1, a2, x1, x2, v1, v2, s1

TwoCallers   == {a1, a2}
SecondCaller == {a2}
AtFirst      == [c \in Callers |-> IF c \in PerCall THEN "probe" ELSE "implement"]
Later        == {"implement"}
TwoCells     == {x1, x2}
TwoContents  == {v1, v2}
OneSession   == {s1}

Symmetry == Permutations(Cells) \cup Permutations(Contents)
=============================================================================
