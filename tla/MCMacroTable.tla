--------------------------- MODULE MCMacroTable ----------------------------
(* Instance of MacroTable for TLC: all names share the one chain the table *)
(* starts with, two of them a chain of the two it grows to, and none a     *)
(* chain of four.                                                          *)
EXTENDS MacroTable, TLC

MCHash == ("a" :> 0) @@ ("b" :> 2) @@ ("c" :> 1)
=============================================================================
