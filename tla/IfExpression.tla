---------------------------- MODULE IfExpression ----------------------------
(***************************************************************************)
(* The conditions of #if and #elif: evaluate_if_expression and the         *)
(* recursive descent below it                                              *)
(* (src/preprocessor/directive/conditional/conditional.c).                 *)
(*                                                                         *)
(* A condition is a sequence of tokens.  It is evaluated while it is read, *)
(* dead operands included, so a division by zero anywhere makes it invalid.*)
(* <<< and the other long shifts are not tokens here: << is tried first    *)
(* (lines 299-323), so that they read as << and a stray <.  Names that     *)
(* begin with an operator's letters or with "defined" are left out; the    *)
(* code takes those letters for the operator.                              *)
(*                                                                         *)
(* The macro table is an argument, so that the conditions are a constant   *)
(* of the modules that use them.  An operator that precedes a definition   *)
(* as a variant of it (ParseBinaryRight) is a mutant.                      *)
(***************************************************************************)
EXTENDS Macros, Integers

CONSTANTS
  Decimal,   (* What parse_number makes of a token: always base 10.        *)
  Detected,  (* What strtoll makes of a macro's value: base 8, 10 or 16.   *)
  Width      (* The bits of an int64_t.                                     *)

ASSUME WidthAssumption == Width \in Nat \ {0, 1}

Least    == -(2 ^ (Width - 1))
Greatest == 2 ^ (Width - 1) - 1

(* A result that does not fit wraps around. *)
Wrap(n) == ((n - Least) % 2 ^ Width) + Least

Truth(p) == IF p THEN 1 ELSE 0

Magnitude(n) == IF n < 0 THEN -n ELSE n

(* Division truncates; the remainder has the sign of the dividend.  The    *)
(* quotient of Least and -1, on which the processor traps, is left out.    *)
Quotient(a, b) ==
  LET q == Magnitude(a) \div Magnitude(b)
  IN IF (a < 0) # (b < 0) THEN -q ELSE q

(* logical_right_shift: zeros come in, whatever the sign *)
ShiftedRight(a, n) ==
  IF n <= 0 THEN a
  ELSE IF n >= Width THEN 0
  ELSE (a % 2 ^ Width) \div 2 ^ n

Operators ==
  << {"or"}, {"and"}, {"==", "!="}, {"<", ">", "<=", ">="}, {"<<", ">>"},
     {"+", "-"}, {"*", "/", "%"} >>

Applied(op, a, b) ==
  CASE op = "or"  -> Truth(a # 0 \/ b # 0)
    [] op = "and" -> Truth(a # 0 /\ b # 0)
    [] op = "=="  -> Truth(a = b)
    [] op = "!="  -> Truth(a # b)
    [] op = "<"   -> Truth(a < b)
    [] op = ">"   -> Truth(a > b)
    [] op = "<="  -> Truth(a <= b)
    [] op = ">="  -> Truth(a >= b)
    [] op = "<<"  -> Wrap(a * 2 ^ (b % Width))  (* as the processor shifts *)
    [] op = ">>"  -> ShiftedRight(a, b)
    [] op = "+"   -> Wrap(a + b)
    [] op = "-"   -> Wrap(a - b)
    [] op = "*"   -> Wrap(a * b)
    [] op = "/"   -> Wrap(Quotient(a, b))
    [] op = "%"   -> a - b * Quotient(a, b)

ZeroDivision(op, b) == op \in {"/", "%"} /\ b = 0

Signs == {"+", "-", "!", "~"}

Signed(sign, a) ==
  CASE sign = "+" -> a
    [] sign = "-" -> Wrap(-a)
    [] sign = "!" -> Truth(a = 0)
    [] sign = "~" -> -a - 1

(* Where an operand is expected, the words "and" and "or" are names. *)
Words == Names \union {"and", "or"}

(* parse_identifier: an object-like macro whose value is an integer, and   *)
(* nothing but it, stands for that integer; any other name for zero.       *)
NameValue(table, word) ==
  IF word \in DOMAIN table /\ ~table[word].params
     /\ \E n \in DOMAIN Detected : table[word].body = <<n>>
  THEN IF Detected[Head(table[word].body)] > Greatest THEN Greatest
       ELSE Detected[Head(table[word].body)]
  ELSE 0

-----------------------------------------------------------------------------
(* The evaluator: each function reads a value off the text.                *)

Read(value, rest) == [error |-> FALSE, value |-> value, rest |-> rest]

Failed == [error |-> TRUE, value |-> 0, rest |-> << >>]

StartsWith(text, tokens) == text # << >> /\ Head(text) \in tokens

parse_number(text) ==
  IF Decimal[Head(text)] > Greatest THEN Failed ELSE Read(Decimal[Head(text)], Tail(text))

(* "defined" a name, in parentheses or not. *)
parse_defined(table, text) ==
  LET paren == StartsWith(text, {"("})
      named == IF paren THEN Tail(text) ELSE text
      after == Tail(named)
  IN IF ~StartsWith(named, Words \union {"defined"}) THEN Failed
     ELSE IF ~paren THEN Read(Truth(Head(named) \in DOMAIN table), after)
     ELSE IF StartsWith(after, {")"}) THEN Read(Truth(Head(named) \in DOMAIN table), Tail(after))
     ELSE Failed

(* then(value), with the value worked out once. *)
With(value, then(_)) == CHOOSE result \in {then(v) : v \in {value}} : TRUE

RECURSIVE parse_conditional(_, _), parse_binary(_, _, _), MoreOperands(_, _, _), parse_unary(_, _)

parse_primary(table, text) ==
  IF StartsWith(text, {"("}) THEN
    With(parse_conditional(table, Tail(text)), LAMBDA inner :
      IF ~inner.error /\ StartsWith(inner.rest, {")"})
      THEN [inner EXCEPT !.rest = Tail(@)]
      ELSE Failed)
  ELSE IF StartsWith(text, DOMAIN Decimal) THEN parse_number(text)
  ELSE IF StartsWith(text, {"defined"}) THEN parse_defined(table, Tail(text))
  ELSE IF StartsWith(text, Words) THEN Read(NameValue(table, Head(text)), Tail(text))
  ELSE Failed

parse_unary(table, text) ==
  IF StartsWith(text, Signs)
  THEN With(parse_unary(table, Tail(text)), LAMBDA operand :
         IF operand.error THEN Failed
         ELSE [operand EXCEPT !.value = Signed(Head(text), @)])
  ELSE parse_primary(table, text)

(* The loop of each of the functions from parse_logical_or to              *)
(* parse_multiplicative: as long as an operator of the level follows, its  *)
(* right operand is read and combined with what is there.                  *)
MoreOperands(table, level, left) ==
  IF left.error \/ ~StartsWith(left.rest, Operators[level]) THEN left
  ELSE With(parse_binary(table, level + 1, Tail(left.rest)),
            LAMBDA right :
              IF right.error \/ ZeroDivision(Head(left.rest), right.value) THEN Failed
              ELSE MoreOperands(table, level,
                     [right EXCEPT !.value = Applied(Head(left.rest), left.value, @)]))

ParseBinaryRight(table, level, text) ==
  IF level > Len(Operators) THEN parse_unary(table, text)
  ELSE LET left == parse_binary(table, level + 1, text)
       IN IF left.error \/ ~StartsWith(left.rest, Operators[level]) THEN left
          ELSE LET right == parse_binary(table, level, Tail(left.rest))
               IN IF right.error \/ ZeroDivision(Head(left.rest), right.value) THEN Failed
                  ELSE [right EXCEPT !.value = Applied(Head(left.rest), left.value, @)]

(* The functions from parse_logical_or to parse_multiplicative, which      *)
(* differ in their operators and in the function of the next level.        *)
parse_binary(table, level, text) ==
  IF level > Len(Operators) THEN parse_unary(table, text)
  ELSE With(parse_binary(table, level + 1, text), LAMBDA left : MoreOperands(table, level, left))

parse_conditional(table, text) ==
  With(parse_binary(table, 1, text), LAMBDA cond :
    IF cond.error \/ ~StartsWith(cond.rest, {"?"}) THEN cond
    ELSE With(parse_conditional(table, Tail(cond.rest)), LAMBDA yes :
      IF yes.error \/ ~StartsWith(yes.rest, {":"}) THEN Failed
      ELSE With(parse_conditional(table, Tail(yes.rest)), LAMBDA no :
        IF no.error \/ cond.value = 0 THEN no ELSE [no EXCEPT !.value = yes.value])))

(* evaluate_if_expression, and what its callers make of the value: an      *)
(* empty condition, an error and trailing tokens are reported and count    *)
(* as false.                                                               *)
Evaluated(table, text) ==
  With(parse_conditional(table, text), LAMBDA read :
    IF text = << >> \/ read.error \/ read.rest # << >> THEN "invalid"
    ELSE IF read.value = 0 THEN "false" ELSE "true")

-----------------------------------------------------------------------------
(* The reference: what a condition means by the precedence of its          *)
(* operators, found by dividing it at the operator that binds loosest.     *)

(* Whether the token before each position ends an operand, so that an      *)
(* operator there takes two operands.                                      *)
AfterOperand(text) ==
  LET after[i \in 1 .. Len(text) + 1] ==
        /\ i > 1
        /\ \/ text[i - 1] \in DOMAIN Decimal \union Names \union {")"}
           \/ text[i - 1] \in {"and", "or"} /\ ~after[i - 1]
  IN after

DepthAt(text, i) ==
  Cardinality({j \in 1 .. i : text[j] = "("}) - Cardinality({j \in 1 .. i : text[j] = ")"})

(* Where the text has one of the operators outside of all parentheses. *)
Places(text, ops) ==
  {i \in DOMAIN text : text[i] \in ops /\ DepthAt(text, i) = 0 /\ AfterOperand(text)[i]}

ColonOf(text, question) ==
  {i \in Places(text, {":"}) :
     /\ i > question
     /\ LET within(ops) == Cardinality({j \in Places(text, ops) : j \in question .. i})
        IN within({"?"}) = within({":"})}

Value(n) == [valid |-> TRUE, value |-> n]
NoValue  == [valid |-> FALSE, value |-> 0]

LeafMeaning(table, text) ==
  IF Len(text) = 1 /\ text[1] \in DOMAIN Decimal /\ Decimal[text[1]] <= Greatest
    THEN Value(Decimal[text[1]])
  ELSE IF Len(text) = 1 /\ text[1] \in Words THEN Value(NameValue(table, text[1]))
  ELSE IF \E word \in Words : text \in {<<"defined", word>>, <<"defined", "(", word, ")">>}
    THEN Value(Truth(\E i \in DOMAIN text : text[i] \in DOMAIN table))
  ELSE NoValue

RECURSIVE Meaning(_, _)
Meaning(table, text) ==
  LET questions == Places(text, {"?"})
      levels    == {k \in DOMAIN Operators : Places(text, Operators[k]) # {}}
      part(first, last) == Meaning(table, SubSeq(text, first, last))
  IN CASE text = << >> -> NoValue
       [] questions # {} ->
            LET q == Min(questions)
                colons == ColonOf(text, q)
            IN IF colons = {} THEN NoValue
               ELSE LET c    == Min(colons)
                        cond == part(1, q - 1)
                        yes  == part(q + 1, c - 1)
                        no   == part(c + 1, Len(text))
                    IN IF ~(cond.valid /\ yes.valid /\ no.valid) THEN NoValue
                       ELSE IF cond.value # 0 THEN yes ELSE no
       [] questions = {} /\ levels # {} ->
            LET i     == Max(Places(text, Operators[Min(levels)]))
                left  == part(1, i - 1)
                right == part(i + 1, Len(text))
            IN IF ~(left.valid /\ right.valid) \/ ZeroDivision(text[i], right.value) THEN NoValue
               ELSE Value(Applied(text[i], left.value, right.value))
       [] questions = {} /\ levels = {} /\ text # << >> ->
            IF Head(text) \in Signs
            THEN LET operand == Meaning(table, Tail(text))
                 IN IF operand.valid THEN Value(Signed(Head(text), operand.value)) ELSE NoValue
            ELSE IF Head(text) = "(" /\ Last(text) = ")" THEN part(2, Len(text) - 1)
            ELSE LeafMeaning(table, text)

Meant(table, text) ==
  IF ~Meaning(table, text).valid THEN "invalid"
  ELSE IF Meaning(table, text).value = 0 THEN "false" ELSE "true"
=============================================================================
