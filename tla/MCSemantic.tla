----------------------------- MODULE MCSemantic ------------------------------
(***************************************************************************)
(* Programs for the semantic analysis: pieces of a few lines one after     *)
(* another, or in the body of main.                                        *)
(***************************************************************************)
EXTENDS Ir

(* Pieces in which only the rules of scopes can be broken, those taken in   *)
(* threes first,                                                           *)
CorePieces == {
  <<"def", "a", ":", "Int", ";">>, <<"def", "b", ":", "Int", "=", "a", ";">>,
  <<"def", "a", ":", "@", "Int", ";">>, <<"a", "=", "b", ";">>, <<"del", "a", ";">>,
  <<"{", "def", "a", ":", "@", "Int", ";", "b", "=", "a", ";", "}">>,
  <<"def", "f", ":", "Struct", "{", "def", "b", ":", "Int", ";", "}", ";">>,
  <<"pro", "f", ":", "Struct", ";">>, <<"def", "a", ":", "f", ";">>}

PlainPieces == CorePieces \cup {
  <<"pro", "b", ":", "Real", ";">>, <<"b", "=", "1.5", ";">>, <<"a", ":", "nop", ";">>,
  <<"{", "def", "a", ":", "Int", ";", "b", "=", "a", ";", "}">>,
  <<"{", "def", "b", ":", "Char", ";", "{", "del", "b", ";", "}", "a", "=", "b", ";", "}">>,
  <<"if", "(", "1", ")", "{", "def", "b", ":", "Int", ";", "}", "else", "{", "b", "=", "1", ";", "}">>,
  <<"DO", "(", "1", ")", "{", "del", "b", ";", "def", "b", ":", "Int", ";", "}">>,
  <<"def", "f", "(", "def", "a", ":", "Int", ",", "b", ":", "@", "Int", ")", "{", "def", "a", ":",
    "@", "Int", "=", "b", ";", "}">>}

(* and others. *)
OtherPieces == {
  <<"def", "f", ":", "Union", "{", "}", ";">>, <<"a", ".", "b", "=", "1", ";">>,
  <<"a", "=", "{", ".", "b", "=", "1", "}", ";">>, <<"a", "[", "b", "]", ";">>,
  <<"def", "b", "[", "8", "]", ":", "Int", ";">>, <<"a", "=", "a", "+", "b", ";">>,
  <<"def", "a", ":", "{", "def", "b", ":", "Int", ";", "}", ":", "Struct", "=", "{", "1", "}", ";">>,
  <<"def", "b", ":", "Auto", "=", "a", ";">>, <<"def", "b", ":", "Real", "=", "a", ":", "f", ";">>,
  <<"return", "a", ";">>, <<"return", ";">>, <<"if", "(", "a", ")", "{", "b", "++", ";", "}">>, <<"a", "+=", "b", ";">>,
  <<"def", "f", "(", "Void", ")", ":", "Int", "{", "def", "f", "(", "Void", ")", "{", "return", "none", ";",
    "}", "return", "b", ";", "}">>,
  <<"pro", "f", "(", "Int", ",", "a", ")", ":", "Int", ";">>, <<"f", "(", "a", ")", ";">>}

Main == <<"def", "main", "(", "Void", ")", ":", "Int", "{", "return", "1", ";", "}">>

InMain(text) == <<"def", "main", "(", "Void", ")", ":", "Int", "{">> \o text \o <<"}">>

Threes(pieces) == {p \o q \o r : p, q, r \in pieces}

Pairs(pieces) == {p \o q : p, q \in pieces}

AllPieces == PlainPieces \cup OtherPieces

SomePlainPrograms ==
  {<<text \o Main>> : text \in Threes(CorePieces)}
    \cup {<<p \o InMain(text)>> : p \in CorePieces, text \in Pairs(CorePieces)}
    \cup {<<p \o q>> : p \in PlainPieces, q \in PlainPieces}
    \cup {<<p \o Main, q \o Main>> : p, q \in PlainPieces}
    \cup {<<p, q \o Main>> : p, q \in CorePieces}

(* Bodies of functions whose control flow matters: a, b and c are local.    *)
Steps == {
  <<"a", "=", "0", ";">>, <<"b", "=", "a", ";">>, <<"a", "=", "b", ":", "Int", ";">>, <<"return", "a", ";">>,
  <<"def", "c", ":", "Int", "=", "b", ";">>}

If(cond, text) == <<"if", "(", cond, ")", "{">> \o text \o <<"}">>
IfElse(cond, text, other) == If(cond, text) \o <<"else", "{">> \o other \o <<"}">>
Loop(cond, text) == <<"DO", "(", cond, ")", "{">> \o text \o <<"}">>

Nested ==
  {If("a", text) : text \in Steps} \cup {IfElse("b", p, q) : p, q \in Steps}
    \cup {Loop("a", text) : text \in Steps}
    \cup {Loop("b", p \o <<"b", "=", "0", ";">>) : p \in Steps}
    \cup {Loop("a", If("b", p) \o <<"a", "=", "0", ";">>) : p \in Steps}
    \cup {IfElse("a", Loop("b", <<"b", "=", "0", ";">> \o p), <<"b", "=", "1", ";">>) : p \in Steps}

WithParameters(text) ==
  <<"def", "f", "(", "def", "a", ":", "Int", ",", "b", ":", "Int", ")", ":", "Int", "{">> \o text
    \o <<"return", "b", ";", "}">>

WithLocals(text) ==
  InMain(<<"def", "a", ":", "Int", "=", "1", ";", "def", "b", ":", "Int", "=", "a", ";">> \o text
           \o <<"return", "b", ";">>)

FlowPrograms ==
  {<<WithParameters(p \o <<"b", "=", "a", ";">>) \o Main>> : p \in Nested}
    \cup {<<WithParameters(<<"def", "c", ":", "Int", ";">> \o q) \o WithLocals(p)>> : p \in Nested, q \in Steps}

SomePrograms ==
  SomePlainPrograms
    \cup FlowPrograms
    \cup {<<text \o Main>> : text \in Pairs(AllPieces)}
    \cup {<<p \o InMain(q)>> : p, q \in AllPieces}

(* A function is declared, and called by main. *)
Callers ==
  {<<f \o InMain(<<"f", "(", "1", ")", ";">>)>> :
     f \in {<<"pro", "f", "(", "Int", ")", ":", "Int", ";">>,
            <<"def", "f", "(", "def", "a", ":", "Int", ")", ":", "Int", "{", "return", "a", ";", "}">>}}
=============================================================================
