-------------------------- MODULE MCPreprocessor ---------------------------
(***************************************************************************)
(* Instances of Preprocessor for TLC.                                      *)
(***************************************************************************)
EXTENDS Preprocessor, IfExpression

L(op, args) == [op |-> op, args |-> args]

Compile(paths, systems) == [units : {paths}, files : systems]

Programs(lines, longest) ==
  UNION {[1 .. n -> lines] : n \in 0 .. longest}

NoBuiltins == << >>
Libraries == <<<<"lib">>>>

Text == L("text", <<"X", "+">>)

(* Every program of up to four lines of conditionals, text and #include,   *)
(* with every header of up to two lines if it has one, balanced or not.    *)
BlockLines == {Text, L("ifdef", <<"X">>), L("else", << >>), L("endif", << >>)}

HeaderLines == {L("text", <<"Y">>), L("define", <<"X", "1">>),
                L("if", <<"0">>), L("else", << >>), L("endif", << >>)}

Header == L("include", <<"h">>)

BlockSystems ==
  {(<<"m">> :> main) @@ (<<"h">> :> header) :
     main \in {text \in Programs(BlockLines \cup {Header}, 4) :
                 \E i \in DOMAIN text : text[i] = Header},
     header \in Programs(HeaderLines, 2)}

PlainSystems == {<<"m">> :> main : main \in Programs(BlockLines, 4)}

OneUnit == <<<<"m">>>>

(* Files in two directories that include one another, by relative paths    *)
(* without "..", one of them by two spellings, and a library.              *)
PathLines == {L("include", <<"d", "a">>), L("include", <<"b">>),
              L("include", <<"m">>), L("using", <<"l">>), L("using", <<"no">>)}

PathSystems ==
  {(<<"m">> :> main) @@ (<<"b">> :> b) @@ (<<"d", "a">> :> a)
      @@ (<<"d", "b">> :> <<Text>>)
      @@ (<<"lib", "l">> :> <<L("include", <<"b">>)>>)
      @@ (<<"lib", "b">> :> << >>) :
     main \in Programs(PathLines, 2)
                \cup {<<L("include", <<".", "b">>), line>> : line \in PathLines},
     a \in Programs(PathLines, 2), b \in Programs(PathLines, 1)}

(* The same file names, with nothing but #include of one another. *)
InclusionLines == {L("include", <<"d", "a">>), L("include", <<"b">>),
                   L("include", <<"m">>)}

InclusionSystems ==
  {(<<"m">> :> main) @@ (<<"b">> :> b) @@ (<<"d", "a">> :> a)
      @@ (<<"d", "b">> :> <<L("include", <<"m">>)>>)
      @@ (<<"d", "m">> :> <<L("include", <<"/", "m">>)>>)
      @@ (<<"/", "m">> :> <<Text>>) :
     main \in Programs(InclusionLines, 2), a \in Programs(InclusionLines, 2),
     b \in Programs(InclusionLines, 1)}

(* Two units, one of them twice, that share headers and leave macros, open *)
(* groups and errors behind.                                               *)
UnitLines == {Text,
              L("define", <<"X", "Y", "Z">>), L("define()", <<"X">>),
              L("undef", <<"X">>),
              L("ifndef", <<"X">>), L("elif", <<"X">>), L("if", <<"X">>),
              L("if", <<"defined", "Z">>), L("if", << >>),
              L("include", <<"h">>), L("unknown", << >>), L("error", << >>),
              L("malformed", << >>)}

UnitSystems ==
  {(<<"m">> :> main) @@ (<<"n">> :> other)
      @@ (<<"h">> :> <<L("define", <<"Z", "1">>), L("text", <<"Z">>)>>) :
     main \in Programs(UnitLines, 2), other \in Programs(UnitLines, 1)}

ThreeUnits == <<<<"m">>, <<"n">>, <<"m">>>>

(* A file that includes a file that includes it. *)
CycleSystems ==
  {(<<"m">> :> <<Text, L("include", <<"h">>)>>)
      @@ (<<"h">> :> <<Text, L("include", <<"m">>)>>)}

(* Programs that define macros by one another, in any order and again;     *)
(* the chain from W through X and Y is one macro deeper than the stack.    *)
MacroLines == {L("define", <<"X", "Y">>), L("define", <<"X", "Z">>), L("define", <<"Y", "Z">>),
               L("define", <<"Y", "X">>), L("define", <<"Z", "X">>), L("define", <<"Z", "1">>),
               L("define", <<"Z", "X", "+">>), L("define", <<"W", "X">>), L("undef", <<"Z">>)}

MacroSystems == {<<"m">> :> main : main \in Programs(MacroLines, 4)}

(* Conditions: three operands joined by any two operators, with a sign or  *)
(* a parenthesis here and there; conditional operators; and every sequence *)
(* of three tokens, most of which are no condition.  X is not defined, a   *)
(* number, or has parameters; Y stands for X and Z is never defined.       *)
BinaryOperators == UNION {Operators[k] : k \in DOMAIN Operators}

Formulas ==
  {<<"X", op1, "3", op2, "2">> : op1, op2 \in BinaryOperators}
  \cup {<<"-", "X", op1, "3", op2, "~", "1">> : op1 \in BinaryOperators, op2 \in {"==", "*"}}
  \cup {<<"3", op1, "(", "X", op2, "1", ")">> : op1 \in BinaryOperators, op2 \in {"or", "-"}}

TernaryFormulas ==
  {<<"X", op, "1", "?", "0", "/", c, ":", "Y", "?", "0", ":", "1">> :
     op \in BinaryOperators, c \in {"0", "1"}}
  \cup {<<"X", "?", "Y", "?", "0", ":", "1", op, "2", ":", "!", "0">> : op \in BinaryOperators}

Scraps ==
  {text \in [1 .. 3 -> {"X", "1", "defined", "or", "(", ")", "-", "!", "?", ":"}] :
     ~\E i \in 1 .. 2 : text[i] = "defined" /\ text[i + 1] = "defined"}
  \cup {<<"defined", "(", "X", ")">>, <<"defined", "X", "and", "Y">>,
         <<"(", "1", ")", "(", "1", ")">>, <<"X">>, <<"Y">>, <<"and", "or", "1">>, <<"99">>,
         <<"010", "==", "X">>, <<"1", "?", "0">>, <<"1", "?", "0", ":", "1", ":">>}

Heading == <<L("define", <<"X", "2">>), L("define", <<"Y", "X">>)>>

OtherHeadings == {<< >>, <<L("define()", <<"X", "2">>), L("define", <<"Y", "010">>)>>}

ConditionSystems ==
  {<<"m">> :> Heading \o <<L("if", formula)>> : formula \in Formulas}
  \cup {<<"m">> :> heading \o <<L("if", formula)>> :
          heading \in OtherHeadings, formula \in TernaryFormulas}
  \cup {<<"m">> :> <<L("define", <<"X", "1">>), L("if", scrap), Text>> : scrap \in Scraps}
  \cup {<<"m">> :> <<L("if", <<"0">>), L("elif", formula), Text>> : formula \in TernaryFormulas}

InBase10 == [n \in {"0", "1", "2", "3", "010", "99"} |->
               CASE n = "0" -> 0 [] n = "1" -> 1 [] n = "2" -> 2 [] n = "3" -> 3
                 [] n = "010" -> 10 [] n = "99" -> 99]

InItsBase == [InBase10 EXCEPT !["010"] = 8]

AllCalls ==
  Compile(OneUnit, BlockSystems) \cup Compile(OneUnit, PlainSystems)
    \cup Compile(OneUnit, PathSystems) \cup Compile(OneUnit, InclusionSystems)
    \cup Compile(OneUnit, MacroSystems) \cup Compile(OneUnit, ConditionSystems)
    \cup Compile(ThreeUnits, UnitSystems)

CyclicCalls == Compile(OneUnit, CycleSystems)

-----------------------------------------------------------------------------
(* A condition means what the precedence and associativity of its          *)
(* operators say, and nothing else is a condition                          *)
(* (evaluate_if_expression, whose functions call one another in the order  *)
(* of precedence).  A division by zero makes it invalid wherever it is.    *)
IfByPrecedence ==
  Reading("if") \/ Reading("elif") => Outcome(macros, Line.args) = Meant(macros, Line.args)
=============================================================================
