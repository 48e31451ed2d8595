--------------------------- MODULE MCLibraryWatch ---------------------------
(* Instances of LibraryWatch for TLC: a directory and one below it. *)
EXTENDS LibraryWatch, TLC

CONSTANTS top, sub
AboveOf == [r \in Root |-> IF r = sub THEN {top, sub} \cap Root ELSE {r}]
=============================================================================
