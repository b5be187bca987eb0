------------------------------ MODULE MCLexer -------------------------------
(***************************************************************************)
(* Instances of Lexer for TLC: all short texts over a few alphabets, each  *)
(* for one part of the lexer.                                              *)
(***************************************************************************)
EXTENDS Lexer

Texts(characters, longest) == UNION {[1 .. n -> characters] : n \in 0 .. longest}

SomeLetters == {"a", "b", "e", "f", "i", "x"}

If == {<<"i", "f">>}

OperatorTexts == Texts({"<", ">", "=", "-", "+"}, 5)

WordTexts == Texts({"i", "f", "1", " ", "\n", "_"}, 5)

NumberTexts ==
  Texts({"0", "1", ".", "e", "_", "b"}, 5)
  \union {<<"1", ".">> \o t : t \in Texts({"0", "(", ")", "e", "_"}, 5)}
  \union {<<"1", "e">> \o t : t \in Texts({"1", "+", "_"}, 3)}
  \union Texts({"0", "x", "f", "8", "e"}, 4)

LiteralTexts ==
  Texts({"\"", "'", "a", " ", "\n"}, 5) \union Texts({"\"", "'", "\\", "a"}, 5)
  \union {t \o <<"a">> : t \in Texts({"\"", "\\", "\n"}, 5)}
  \union {<<"'">> \o t : t \in Texts({"a", "'"}, 5)}

OtherTexts == Texts({"#", "a", "(", "\"", "1", "."}, 4) \union Texts({";", "a"}, 7)
  \union {<<";", ";", ";", ";", ";">> \o t : t \in Texts({"1", "\"", "a"}, 3)}

AllTexts == UNION {OperatorTexts, WordTexts, NumberTexts, LiteralTexts, OtherTexts}

InvalidNumbers == Texts({"1", "."}, 2)
=============================================================================
