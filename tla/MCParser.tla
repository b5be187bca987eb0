------------------------------ MODULE MCParser -------------------------------
(***************************************************************************)
(* Programs for the parser: statements of every kind, alone and next to    *)
(* each other, statements with a mistake between two others, and formulas  *)
(* of up to three operators.                                               *)
(***************************************************************************)
EXTENDS Parser

(* Statements that are taken in threes, *)
CoreStatements == {
  <<"a", "=", "b", "+", "1", ";">>,
  <<"f", "(", "a", ",", "1", ")", ".", "b", ";">>,
  <<"f", ":">>,
  <<"a", ":", "Int", ";">>,
  <<"return", ";">>,
  <<"{", "a", "++", ";", "b", ";", "}">>,
  <<"if", "(", "a", "<", "1", ")", "{", "b", ";", "}", "else", "{", "a", ";", "}">>,
  <<"if", "(", "a", ")", "->", "b", "=", "1", ";">>,
  <<"DO", "(", "a", ")", "{", "break", ";", "}">>,
  <<"def", "a", ":", "Int", "<", "8", ">=", "1", ";">>,
  <<"def", "f", "(", "Void", ")", ":", "Int", "{", "return", "a", ";", "}">>,
  <<"pro", "f", "(", "Int", ",", "@", "Int", ")", ":", "Int", ";">>,
  <<"else", "->", "a", ";">>}

(* and all that are considered. *)
AllStatements == CoreStatements \cup {
  <<"a", "[", "1", "]", "[", "b", "]", "=", "{", "1", ",", ".", "b", "=", "a", ",", "}", ";">>,
  <<"{", "a", "=", "b", ";", "f", ":", "nop", ";", "}", ";">>,
  <<"(", "{", "a", ",", "b", "}", ")", "=", "f", "(", ")", ";">>,
  <<"a", "{", ".", "b", "=", "1", "}", ";">>,
  <<"!", "a", "--", ";">>, <<"++", "a", ";">>,
  <<"a", ":", "Int", "<", "8", ">=", "b", ";">>,
  <<"sizeof", "(", "a", ")", ";">>, <<"typeof", "(", "b", ")", ";">>,
  <<"alloc", "(", "1", ",", "8", ",", "Int", ")", ";">>,
  <<"realloc", "(", "a", ",", "1", ")", ";">>,
  <<"return", "a", ",", "b", ";">>, <<"signal", "f", "(", "0", ")", ";">>,
  <<"free", "(", "a", ")", ";">>, <<"free", "a", ";">>, <<"jump", "f", ";">>,
  <<"asm", "(", "text", ")", ";">>, <<"continue", ";">>, <<"del", "@", "a", ";">>,
  <<"def", "static", "a", "[", "8", "]", ":", "unsigned", "Int", "=", "1", ";">>,
  <<"def", "a", ":", "{", "def", "b", ":", "Int", ";", "}", ":", "Struct", "=", "f", ";">>,
  <<"def", "a", ":", "Struct", "{", "pro", "b", ":", "Int", ";", "}", ";">>,
  <<"def", "f", "(", "def", "a", ":", "Int", "=", "1", ",", "b", ")", "->", "return", "a", ";">>,
  <<"def", "f", "(", "Void", ")", ":", "@", "Int", "=", "b", ";">>,
  <<"pro", "a", ":", "const", "typeof", "(", "b", ")", ";">>,
  <<"pro", "a", ":", "f", "<", "b", ",", ">", ";">>,
  <<"pro", "f", "(", "Int", "<", "8", ">", ",", "@", "c", "<", "b", ",", ">", ")", ":", "Int", ";">>,
  <<"def", "a", "[", "8", "]", "[", "b", "]", ":", "{", "def", "c", ":", "Int", ";", "}", ";">>}

SomeBrokenExpressions == {
  <<"a", "+", ";">>, <<"a", "=", ";">>, <<"(", "a", ";">>, <<"a", "[", "1", ";">>,
  <<"f", "(", "a", ";">>, <<"f", "(", "1", ",", ")", ";">>, <<"a", "*", "/", ";">>,
  <<"sizeof", "a", ";">>, <<"alloc", "(", "1", ")", ";">>,
  <<"!", ";">>, <<"a", "+", "+", "b", ";">>}

(* Nothing is wrong with this one, but the parser takes "b : 1" for a cast  *)
(* and gives up: no conditional expression ever parses.                    *)
TernaryStatement == <<"a", "?", "b", ":", "1", ";">>

(* Further mistakes, with which no property but StepsRead deals: the      *)
(* parser may lose its place, or end at the end of the file.               *)
Mistakes == {
  <<"a", "b", ";">>, <<";">>, <<"-", "a", ";">>, <<"halt", ";">>, <<"a", ".", "1", ";">>,
  <<"a", "=", "empty", ";">>, <<"{", ";", "a", ";", "}">>, <<"{", "a", "+", "}">>, <<"}">>,
  <<"if", "(", ")", "{", "a", ";", "}">>, <<"if", "(", "a", ")", "b", ";">>, <<"else", ";">>,
  <<"signal", ";">>, <<"signal", "(", ")", ";">>, <<"return", "(", ")", ";">>, <<"del", ";">>,
  <<"asm", "(", "a", ")", ";">>, <<"asm", "(", "empty", ")", ";">>, <<"free", "(", "a", ";">>,
  <<"a", "{", "1", "b", "}", ";">>, <<"{", ".", "1", "}", ";">>,
  <<"def", "a", "[", "8", ":", "Int", ";">>, <<"def", "a", "[", "8", "]", "(", "Void", ")", ";">>,
  <<"def", "a", ":", "Int", "<", "0", ">", ";">>, <<"def", "a", ":", "Int", "<", "8", ";">>,
  <<"pro", "a", ":", "unsigned", "const", "unsigned", "Int", ";">>,
  <<"def", "a", ":", "typeof", "b", ";">>, <<"def", "a", ":", "typeof", "(", "b", ")", "[", ";">>,
  <<"def", "f", "(", ")", ";">>, <<"pro", "f", "(", "a", "b", ")", ";">>, <<"pro", "f", "(", "def", ")", ";">>,
  <<"def", "f", "(", "Int", "<", "8", ">=", "1", ")", ";">>, <<"pro", "f", "(", "@", "1", ")", ";">>,
  <<"def", "f", "(", "Void", ")">>, <<"DO", "(">>, <<"def", "a", ":", "{", "b">>}

Operators == {"=", "+=", "and", "or", "|", "^", "&", "==", "<", ">=", ">>", "+", "-", "*", "%"}

SomeFormulas ==
  {<<"a", p, "!", "b", q, "1", ";">> : p, q \in Operators}
    \cup {<<"a", p, "b", q, "1", r, "a", ";">> : p, q, r \in Operators}

Pieces == AllStatements \cup SomeBrokenExpressions \cup Mistakes \cup {TernaryStatement}

SomePrograms ==
  {<<f>> : f \in SomeFormulas}
    \cup {<<p, q>> : p, q \in Pieces}
    \cup (CoreStatements \X (CoreStatements \cup SomeBrokenExpressions) \X CoreStatements)

SingleStatements == {<<p>> : p \in Pieces}
=============================================================================
