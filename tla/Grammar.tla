------------------------------- MODULE Grammar -------------------------------
(***************************************************************************)
(* The parsing functions of src/parser/parser.c: recursive descent over a  *)
(* sequence of tokens, with one token of pushback and panic-mode recovery. *)
(*                                                                         *)
(* The ParserState of the code is a record t.  A parsing function is an    *)
(* operator from the state before to the state after, whose field "node"   *)
(* is what the function returns, Null for NULL.  It ends because the lexer *)
(* closes the tokens with EOF: no token after it is ever asked for.        *)
(*                                                                         *)
(* A node of the tree is [type, val, kids]: the type as in ASTNodeType,    *)
(* the lexeme or the operator, the children that are there.  Lines and     *)
(* columns, memory and its failures are left out.  An operator placed      *)
(* before a definition as a variant of it is a mutant.                     *)
(***************************************************************************)
EXTENDS Naturals, Sequences, FiniteSets, SequencesExt

CONSTANT MaxModifiers  (* MAX_MODIFIERS of a type. *)

ASSUME ModifiersAssumption == MaxModifiers \in Nat

-----------------------------------------------------------------------------
(* Tokens and nodes *)

(* The kinds of token that have several lexemes; any other is its own kind. *)
(* There is no TOKEN_CHAR: the lexer reads 'c' as a string (lexer.c:460).   *)
Kinds ==
  [TOKEN_ID       |-> {"a", "b", "c", "f", "main"},
   TOKEN_NUMBER   |-> {"0", "1", "8", "1.5"},
   TOKEN_STRING   |-> {"text", "empty"},
   TOKEN_TYPE     |-> {"Int", "Real", "Char", "Void", "Auto", "Struct", "Union"},
   TOKEN_STATE    |-> {"def", "del", "pro"},
   TOKEN_TYPEMOD  |-> {"unsigned", "const", "regis"},
   TOKEN_STATEMOD |-> {"static", "inline"},
   TOKEN_LOGICAL  |-> {"and", "or"}]

KindTable ==
  [token \in UNION Range(Kinds) |-> CHOOSE k \in DOMAIN Kinds : token \in Kinds[k]]

KindOf(token) == IF token \in DOMAIN KindTable THEN KindTable[token] ELSE token

Node(type, val, kids) == [type |-> type, val |-> val, kids |-> kids]

Null == Node("NULL", "", << >>)

-----------------------------------------------------------------------------
(* The cursor.  A pushed back token is always the "=" of a ">=" that closed *)
(* a type's angle brackets.                                                *)

Start(tokens) ==
  [tokens |-> tokens, pos |-> 1, pushback |-> FALSE, panic |-> FALSE,
   errors |-> 0, crashed |-> FALSE, node |-> Null]

Lexeme(t) ==
  CASE t.pushback -> "="
    [] ~t.pushback /\ t.pos <= Len(t.tokens) -> t.tokens[t.pos]
    [] OTHER -> "EOF"

Kind(t) == KindOf(Lexeme(t))

At(t, kind) == Kind(t) = kind

(* The kind of the token n places on, which does not look at pushback.      *)
Ahead(t, n) ==
  IF t.pos + n <= Len(t.tokens) THEN KindOf(t.tokens[t.pos + n]) ELSE "EOF"

Advance(t) ==
  CASE t.pushback -> [t EXCEPT !.pushback = FALSE]
    [] ~t.pushback /\ t.pos < Len(t.tokens) -> [t EXCEPT !.pos = @ + 1]
    [] OTHER -> t

Returning(t, node) == [t EXCEPT !.node = node]

OK(t) == t.node # Null

(* A token without text: the lexer leaves the value of EOF and of an empty  *)
(* string NULL.                                                            *)
Textless(t) ==
  /\ ~t.pushback
  /\ t.pos <= Len(t.tokens)
  /\ t.tokens[t.pos] \in {"EOF", "empty"}

Crash(t) == [t EXCEPT !.crashed = TRUE, !.node = Null]

(* REPORT_ERR and UNEXPECTED_TOKEN take the length of the token's text: at  *)
(* a token without one the compiler ends here.                             *)
ParseError(t) ==
  IF Textless(t) THEN Crash(t) ELSE [t EXCEPT !.errors = @ + 1, !.node = Null]

Unexpected(t) == [ParseError(t) EXCEPT !.panic = TRUE]

(* REQUIRE: the node stays when the token is there.                        *)
Require(t, kind) == IF At(t, kind) THEN Advance(t) ELSE Unexpected(t)

SyncAtStatements ==
  {"}", "EOF", "if", "DO", "return", "else", "break", "continue", "free",
   "jump", "signal", "nop", "asm", "{", "TOKEN_STATE", "TOKEN_TYPEMOD", "TOKEN_STATEMOD"}

SyncTokens ==
  {";", "}", "EOF", "if", "DO", "return", "else", "break", "continue", "free",
   "jump", "signal", "nop", "asm", "{", "TOKEN_STATE", "TOKEN_TYPEMOD", "TOKEN_STATEMOD"}

(* skip_to_sync_token: a pushed back token is skipped, for "=" is none.     *)
SkipToSync(t) ==
  LET ahead == {p \in t.pos..Len(t.tokens) : KindOf(t.tokens[p]) \in SyncTokens}
  IN  IF t.pos > Len(t.tokens)
      THEN [t EXCEPT !.panic = FALSE]
      ELSE [t EXCEPT !.panic = FALSE, !.pushback = FALSE,
                     !.pos = CHOOSE p \in ahead : \A q \in ahead : p <= q]

-----------------------------------------------------------------------------
(* Expressions *)

ExpressionStarts ==
  {"TOKEN_NUMBER", "TOKEN_STRING", "TOKEN_CHAR", "none", "TOKEN_TYPE", "$", "TOKEN_ID", "(", "{", "sizeof",
   "typeof", "alloc", "realloc", "++", "--", "!", "~", "*", "/", "@", "&"}

(* The binary operators, loosest first; those of a level bind alike.       *)
Levels ==
  <<{"TOKEN_LOGICAL"}, {"|"}, {"^"}, {"&"}, {"==", "!="}, {"<", ">", "<=", ">="},
    {"<<", ">>", "<<<", ">>>", "<<<<", ">>>>"}, {"+", "-"}, {"*", "/", "%"}>>

AssignOps ==
  {"=", "+=", "-=", "*=", "/=", "%=", "|=", "&=", "^=", "<<=", ">>=",
   "<<<=", ">>>=", "<<<<=", ">>>>="}

UnaryOps == {"!", "~", "*", "/", "@", "&"}

(* A rule of the grammar by its name, see the end of this module. *)
RECURSIVE Parse(_, _)

RECURSIVE Binary(_, _), BinaryRest(_, _), Expressions(_, _), Elements(_, _),
          AngleList(_, _, _)

(* Goes on with rest unless t returned NULL. *)
Then(t, rest) == IF OK(t) THEN rest ELSE t

(* A node whose last child is the result of a call.                        *)
Wrap(t, type, val, before) ==
  Then(t, Returning(t, Node(type, val, Append(before, t.node))))

Expression(t) ==
  LET left == Parse("ternary", t)
      op   == Kind(left)
      multi == left.node.type = "MULTI_INITIALIZER"
      Assigned(type, val) == Wrap(Parse("expression", Advance(left)), type, val, <<left.node>>)
  IN  Then(left,
        IF op \notin (IF multi THEN {"="} ELSE AssignOps) THEN left
        ELSE IF multi THEN Assigned("MULTI_ASSIGNMENT", "")
        ELSE Assigned(IF op = "=" THEN "ASSIGNMENT" ELSE "COMPOUND_ASSIGNMENT", op))

Ternary(t) ==
  LET cond  == Parse("operators", t)
      true  == Parse("expression", Advance(cond))
      colon == Require(true, ":")
  IN  Then(cond,
        IF ~At(cond, "?") THEN cond
        ELSE Then(true, Then(colon,
               Wrap(Parse("ternary", colon), "TERNARY_OPERATION", "", <<cond.node, true.node>>))))

(* parse_binary_op at a level.  A missing right operand returns before the  *)
(* call that would skip to a token to go on with.                          *)
Binary(t, level) ==
  IF level > Len(Levels) THEN Parse("unary", t)
  ELSE LET first == Binary(t, level + 1)
       IN  IF OK(first) THEN BinaryRest(first, level) ELSE SkipToSync(first)

BinaryRestFromRight(t, level) ==
  IF Kind(t) \notin Levels[level] THEN t
  ELSE Wrap(Binary(Advance(t), level), "BINARY_OPERATION", Kind(t), <<t.node>>)

BinaryRest(t, level) ==
  IF Kind(t) \notin Levels[level] THEN t
  ELSE LET both == Wrap(Binary(Advance(t), level + 1),
                        "BINARY_OPERATION", Kind(t), <<t.node>>)
       IN  Then(both, BinaryRest(both, level))

Unary(t) ==
  LET prim    == Parse("primary", t)
      operand == Parse("unary", Advance(t))
  IN  CASE At(t, "++") -> Wrap(operand, "PREFIX_INCREMENT", "++", << >>)
        [] At(t, "--") -> Wrap(operand, "PREFIX_DECREMENT", "--", << >>)
        [] Kind(t) \in UnaryOps -> Wrap(operand, "UNARY_OPERATION", Kind(t), << >>)
        [] OTHER -> Then(prim, Parse("postfix", prim))

(* Expressions separated by commas, after those in "before".               *)
Expressions(t, before) ==
  LET next == Parse("expression", t)
      all  == Append(before, next.node)
  IN  Then(next, IF At(next, ",") THEN Expressions(Advance(next), all)
                 ELSE Returning(next, Node("LIST", "", all)))

(* The operands in parentheses of sizeof, typeof, alloc and realloc.       *)
FixedArguments(t, type, count) ==
  LET open == Require(Returning(Advance(t), Node("LIST", "", << >>)), "(")
      RECURSIVE From(_, _)
      From(u, before) ==
        LET arg == Parse("expression", u)
            all == Append(before, arg.node)
        IN  Then(arg,
              IF Len(all) = count THEN Require(Returning(arg, Node(type, "", all)), ")")
              ELSE IF At(arg, ",") THEN From(Advance(arg), all)
              ELSE ParseError(arg))
  IN  Then(open, From(open, << >>))

(* .name = value, of an initializer. *)
FieldElement(t) ==
  LET name  == Advance(t)
      equal == Require(Returning(Advance(name), Node("IDENTIFIER", Lexeme(name), << >>)), "=")
  IN  IF At(name, "TOKEN_ID")
      THEN Then(equal, Wrap(Parse("expression", equal), "FIELD_ACCESS", ".", <<equal.node>>))
      ELSE ParseError(name)

MultiInitializer(t) == Elements(Require(t, "{"), << >>)

ElementsButLast(t, before) ==
  LET elem == Parse("expression", t)
      Close(v, list) == Require(Returning(v, Node("MULTI_INITIALIZER", "", list)), "}")
  IN  IF At(t, "}") THEN Close(t, before)
      ELSE Then(elem, IF At(elem, ",") THEN Elements(Advance(elem), Append(before, elem.node))
                      ELSE Close(elem, before))

Elements(t, before) ==
  LET u    == IF t.panic THEN SkipToSync(t) ELSE t
      elem == Parse("element", u)
      all  == Append(before, elem.node)
      Close(v, list) == Require(Returning(v, Node("MULTI_INITIALIZER", "", list)), "}")
  IN  IF Kind(t) \in {"}", "EOF"} THEN Close(t, before)
      ELSE IF t.panic /\ At(u, "}") THEN Close(u, before)
      ELSE Then(elem,
             CASE At(elem, ",") -> Elements(Advance(elem), all)
               [] At(elem, "}") -> Close(elem, all)
               [] OTHER -> Returning(elem, Null))

Literals == {"TOKEN_NUMBER", "TOKEN_STRING", "TOKEN_CHAR", "none", "TOKEN_TYPE", "$"}

Primary(t) ==
  LET inner == Parse("expression", Advance(t))
      Leaf(type) == Returning(Advance(t), Node(type, Lexeme(t), << >>))
  IN  CASE At(t, "(") -> IF OK(inner) THEN Require(inner, ")") ELSE SkipToSync(inner)
        [] At(t, "{") -> Parse("initializer", t)
        [] At(t, "sizeof") -> FixedArguments(t, "SIZEOF", 1)
        [] At(t, "typeof") -> FixedArguments(t, "TYPEOF", 1)
        [] At(t, "alloc") -> FixedArguments(t, "ALLOC", 3)
        [] At(t, "realloc") -> FixedArguments(t, "REALLOC", 2)
        [] Kind(t) \in Literals -> IF Textless(t) THEN Returning(t, Null)
                                   ELSE Leaf("LITERAL_VALUE")
        [] At(t, "TOKEN_ID") -> Parse("postfix", Leaf("IDENTIFIER"))
        [] OTHER -> SkipToSync(ParseError(t))

(* What follows an operand: t.node is it.  Any ":" makes a cast of it, even *)
(* that of a ternary.  A missing field name goes unreported: the macro that *)
(* frees the operand returns before the call that would report it, as two  *)
(* more do where a list is broken off (Elements, Parameters).              *)
Postfix(t) ==
  LET u     == Advance(t)
      args  == IF At(u, ")") THEN Returning(u, Node("LIST", "", << >>))
               ELSE Expressions(u, << >>)
      call  == Node("FUNCTION_CALL", "", <<t.node>> \o args.node.kids)
      index == IF At(u, "]") THEN u ELSE Parse("expression", u)
      item  == Node("ARRAY_ACCESS", "",
                 IF At(u, "]") THEN <<t.node>> ELSE <<t.node, index.node>>)
      field == Node("FIELD_ACCESS", ".", <<t.node, Node("IDENTIFIER", Lexeme(u), << >>)>>)
      After(v) == Then(v, Parse("postfix", v))
  IN  CASE At(t, "++") -> After(Returning(u, Node("POSTFIX_INCREMENT", "++", <<t.node>>)))
        [] At(t, "--") -> After(Returning(u, Node("POSTFIX_DECREMENT", "--", <<t.node>>)))
        [] At(t, "(") -> Then(args, After(Require(Returning(args, call), ")")))
        [] At(t, "[") -> Then(index, After(Require(Returning(index, item), "]")))
        [] At(t, ".") -> IF At(u, "TOKEN_ID") THEN After(Returning(Advance(u), field))
                         ELSE Returning(u, Null)
        [] At(t, "{") -> After(Wrap(Parse("initializer", t), "STRUCT_INITIALIZER", "", <<t.node>>))
        [] At(t, ":") -> After(Wrap(Parse("type", u), "CAST", "", <<t.node>>))
        [] OTHER -> t

-----------------------------------------------------------------------------
(* Types *)

(* parse_type_specifier_silent complains unless it is told not to.         *)
Reject(t, silent, complaint) == IF silent THEN Returning(t, Null) ELSE complaint

Modifiers == {"unsigned", "const"}  (* is_type_modifier: "regis" is none.  *)

RECURSIVE TypeModifiers(_, _), TypePrefixes(_, _, _)

TypeModifiers(t, seen) ==
  IF Lexeme(t) \in Modifiers /\ Len(seen) < MaxModifiers
  THEN TypeModifiers(Advance(t), Append(seen, Lexeme(t)))
  ELSE <<t, seen>>

(* parse_type_prefixes: how many "@", and whether any "&".                 *)
TypePrefixes(t, pointers, reference) ==
  CASE At(t, "@") -> TypePrefixes(Advance(t), pointers + 1, reference)
    [] At(t, "&") -> TypePrefixes(Advance(t), pointers, TRUE)
    [] OTHER -> [at |-> t, pointers |-> pointers, reference |-> reference]

Type(name, kids, modifiers, prefixes) ==
  [type |-> "TYPE", val |-> name, kids |-> kids, modifiers |-> modifiers,
   pointers |-> prefixes.pointers, reference |-> prefixes.reference, array |-> FALSE]

(* The ">" of a type's "<"; of a ">=" the "=" is left as the next token.    *)
CloseAngle(t, silent) ==
  CASE At(t, ">") -> Advance(t)
    [] At(t, ">=") -> [t EXCEPT !.pushback = TRUE, !.pos = @ + 1]
    [] OTHER -> Reject(t, silent, Unexpected(t))

AngleList(t, before, silent) ==
  LET next == Parse("expression", t)
      all  == Append(before, next.node)
      more == Advance(next)
      Close(v) == CloseAngle(Returning(v, Node("LIST", "", all)), silent)
  IN  Then(next,
        CASE ~At(next, ",") -> Close(next)
          [] At(next, ",") /\ Kind(more) \in {">", ">="} -> Close(more)
          [] OTHER -> AngleList(more, all, silent))

(* What a type has in angle brackets, t being at it: the node is a list.   *)
AngleArguments(t, silent) ==
  LET size == Returning(Advance(t), Node("LIST", "", <<Node("SIZE", Lexeme(t), << >>)>>))
  IN  CASE Kind(t) \in {">", ">="} -> Reject(t, silent, ParseError(t))
        [] At(t, "TOKEN_NUMBER") -> IF Lexeme(t) = "0" THEN Reject(t, silent, ParseError(t))
                              ELSE CloseAngle(size, silent)
        [] OTHER -> AngleList(t, << >>, silent)

(* typeof(expr), as a type. *)
TypeofType(t, silent, modifiers, prefixes) ==
  LET open == Advance(t)
      arg  == Parse("expression", Advance(open))
      end  == Require(Returning(arg, Type("typeof", <<arg.node>>, modifiers, prefixes)), ")")
  IN  IF ~At(open, "(") THEN Reject(open, silent, Unexpected(open))
      ELSE IF ~OK(arg) THEN Reject(arg, silent, ParseError(arg))
      ELSE Then(end, IF Kind(end) \in {"<", "["} THEN Reject(end, silent, ParseError(end))
                     ELSE end)

TypeSpecifier(t, silent) ==
  LET mods     == TypeModifiers(t, << >>)
      prefixes == TypePrefixes(mods[1], 0, FALSE)
      u        == prefixes.at
      name     == Advance(u)
      angle    == AngleArguments(Advance(name), silent)
      Named(v, kids) == Returning(v, Type(Lexeme(u), kids, mods[2], prefixes))
  IN  CASE Lexeme(mods[1]) \in Modifiers -> Reject(mods[1], silent, ParseError(mods[1]))
        [] At(u, "typeof") -> TypeofType(u, silent, mods[2], prefixes)
        [] Kind(u) \in {"TOKEN_TYPE", "TOKEN_ID", "TOKEN_TYPEMOD"} ->
             IF At(name, "<") THEN Then(angle, Named(angle, angle.node.kids))
             ELSE Named(name, << >>)
        [] OTHER -> Reject(u, silent, Unexpected(u))

-----------------------------------------------------------------------------
(* Declarations *)

RECURSIVE Sequence(_, _), Dimensions(_, _), Parameters(_, _)

Block(t) ==
  LET open == Require(Returning(t, Node("BLOCK", "", << >>)), "{")
      body == Sequence(open, << >>)
  IN  Then(open, Then(body, Require(body, "}")))

InBlock(t) == Wrap(t, "BLOCK", "", << >>)

(* is_arrow_token: "->", or "-" and ">".                                   *)
IsArrow(t) == At(t, "->") \/ (At(t, "-") /\ Ahead(t, 1) = ">")

PastArrow(t) == IF At(t, "->") THEN Advance(t) ELSE [t EXCEPT !.pos = @ + 2]

BodyOrInitializer(t, isFunction) ==
  LET value == Parse("expression", Advance(t))
  IN  CASE At(t, "=") -> IF isFunction THEN InBlock(Wrap(value, "RETURN", "", << >>))
                         ELSE value
        [] isFunction /\ IsArrow(t) -> InBlock(Parse("statement", PastArrow(t)))
        [] isFunction /\ ~At(t, "=") /\ Textless(t) -> Crash(t)
        [] At(t, "{") -> Parse("block", t)
        [] OTHER -> Returning(t, Null)

(* ":" and a type, which may be missing: its place is taken by Null.        *)
TypeAnnotation(t) ==
  IF At(t, ":") THEN Parse("type", Advance(t))
  ELSE Returning(t, Node("NO_TYPE", "", << >>))

Declaration(type, state, access, name, varType, params, body, init) ==
  [type |-> type, val |-> name, kids |-> params, state |-> state, access |-> access,
   varType |-> varType, body |-> body, init |-> init]

(* parse_decl_special_modifiers keeps the first modifier of access; "const" *)
(* is a TOKEN_TYPEMOD and never comes here.                                *)
RECURSIVE AccessModifier(_, _)
AccessModifier(t, first) ==
  IF At(t, "TOKEN_STATEMOD") THEN AccessModifier(Advance(t), IF first = "" THEN Lexeme(t) ELSE first)
  ELSE [at |-> t, first |-> first]

Dimensions(t, before) ==
  LET u    == Advance(t)
      size == IF At(u, "]") THEN Returning(u, Node("UNSIZED", "", << >>)) ELSE Parse("expression", u)
      end  == Require(size, "]")
  IN  IF ~At(t, "[") THEN Returning(t, Node("DIMENSIONS", "", before))
      ELSE Then(size, Then(end, Dimensions(end, Append(before, size.node))))

(* One parameter.  Without a name it is tried as a type, silently: what a  *)
(* failed try has read stays read, and of one that is taken back a pushed  *)
(* back "=" stays.                                                         *)
Parameter(t) ==
  LET state == IF At(t, "TOKEN_STATE") THEN Lexeme(t) ELSE "var"
      named == IF At(t, "TOKEN_STATE") THEN Advance(t) ELSE t
      typed == TypeAnnotation(Advance(named))
      value == IF At(typed, "=") THEN Parse("expression", Advance(typed)) ELSE typed
      tried == Parse("type, tried", t)
      Parm(init) == Declaration("VARIABLE_DECLARATION", state, "", Lexeme(named),
                                typed.node, << >>, Null, init)
  IN  CASE At(named, "TOKEN_ID") ->
             Then(typed, Then(value,
               Returning(value, Parm(IF At(typed, "=") THEN value.node ELSE Null))))
        [] ~At(named, "TOKEN_ID") /\ At(t, "TOKEN_STATE") -> ParseError(named)
        [] ~At(named, "TOKEN_ID") /\ ~At(t, "TOKEN_STATE") /\ OK(tried) ->
             IF Kind(tried) \in {",", ")"}
             THEN Returning(tried, Node("LITERAL_VALUE", tried.node.val, << >>))
             ELSE Parse("expression", [tried EXCEPT !.pos = t.pos])
        [] OTHER -> Parse("expression", tried)

Parameters(t, before) ==
  LET u     == IF t.panic THEN SkipToSync(t) ELSE t
      parm  == Parse("parameter", u)
      all   == Append(before, parm.node)
      Close(v, list) == Require(Returning(v, Node("LIST", "", list)), ")")
  IN  IF Kind(t) \in {")", "EOF"} THEN Close(t, before)
      ELSE Then(parm,
             CASE At(parm, ",") -> Parameters(Advance(parm), all)
               [] At(parm, ")") -> Close(parm, all)
               [] OTHER -> Returning(parm, Null))

ParameterList(t) ==
  LET open == Require(Returning(t, Node("LIST", "", << >>)), "(")
  IN  Then(open,
        CASE Lexeme(open) \in {"Void", "none"} -> Require(Advance(open), ")")
          [] At(open, ")") -> Returning(Advance(ParseError(open)), Node("LIST", "", << >>))
          [] OTHER -> Parameters(open, << >>))

(* A function, t being at the "(" after its name.  A missing or broken body *)
(* still makes a declaration.                                              *)
Function(t, state, access, name) ==
  LET params == Parse("parameters", t)
      result == TypeAnnotation(params)
      body   == IF state = "def" THEN BodyOrInitializer(result, TRUE)
                ELSE Returning(result, Null)
      end    == IF state = "def" /\ At(body, ";") THEN Advance(body) ELSE body
  IN  Then(params, Then(result,
        Returning(end, Declaration("FUNCTION_DECLARATION", state, access, name, result.node,
                                   params.node.kids, body.node, Null))))

(* name : { fields } : Type = value; the type may be missing, and the value. *)
InlineStruct(t, state, access, name) ==
  LET fields == Parse("block", Advance(t))
      typed  == TypeAnnotation(fields)
      value  == IF At(typed, "=") THEN Parse("expression", Advance(typed)) ELSE typed
  IN  Then(fields, Then(typed, Then(value,
        Returning(value,
          Declaration("VARIABLE_DECLARATION", state, access, name,
                      IF At(fields, ":") THEN typed.node
                      ELSE Type("Struct", << >>, << >>, TypePrefixes(fields, 0, FALSE)),
                      << >>, fields.node, IF At(typed, "=") THEN value.node ELSE Null)))))

Variable(t, state, access, name, dims, prefixes) ==
  LET typed == TypeAnnotation(t)
      varType == IF At(t, ":")
                 THEN [typed.node EXCEPT !.pointers = @ + prefixes.pointers,
                                         !.reference = prefixes.reference,
                                         !.array = dims # << >>]
                 ELSE IF prefixes.pointers > 0 \/ prefixes.reference \/ dims # << >>
                 THEN [Type("int", << >>, << >>, prefixes) EXCEPT !.array = dims # << >>]
                 ELSE typed.node
      body  == IF state = "def" THEN BodyOrInitializer(typed, FALSE)
               ELSE Returning(typed, Null)
      isBody == body.node.type = "BLOCK"
  IN  Then(typed, Returning(body,
        Declaration("VARIABLE_DECLARATION", state, access, name, varType, dims,
                    IF isBody THEN body.node ELSE Null,
                    IF isBody THEN Null ELSE body.node)))

StateStatement(t) ==
  LET state    == Lexeme(t)
      access   == AccessModifier(Advance(t), "")
      prefixes == TypePrefixes(access.at, 0, FALSE)
      name     == IF At(prefixes.at, "TOKEN_ID") THEN Lexeme(prefixes.at) ELSE ""
      u        == IF name # "" THEN Advance(prefixes.at) ELSE prefixes.at
      prefixed == prefixes.pointers > 0 \/ prefixes.reference
      dims     == Dimensions(u, << >>)
      sizes    == dims.node.kids
  IN  IF state = "del"
      THEN IF name = "" /\ ~prefixed THEN ParseError(u)
           ELSE Returning(u, Declaration("VARIABLE_DECLARATION", state, access.first, name,
                                         IF prefixed THEN Type(name, << >>, << >>, prefixes)
                                         ELSE Node("NO_TYPE", "", << >>), << >>, Null, Null))
      ELSE Then(dims,
             CASE At(dims, "(") -> IF name = "" \/ sizes # << >> THEN ParseError(dims)
                                   ELSE Function(dims, state, access.first, name)
               [] name # "" /\ At(dims, ":") /\ Ahead(dims, 1) = "{" ->
                    InlineStruct(dims, state, access.first, name)
               [] OTHER -> Variable(dims, state, access.first, name, sizes, prefixes))

-----------------------------------------------------------------------------
(* Statements *)

BlockOrStatement(t) ==
  CASE At(t, "{")  -> Parse("block", t)
    [] At(t, "->") -> InBlock(Parse("statement", Advance(t)))
    [] OTHER -> Returning(t, Null)

(* if and DO.  A body that is no block and has no "->" is no body, which    *)
(* nothing reports.                                                        *)
Conditional(t, type) ==
  LET open == Require(Returning(Advance(t), Node("LIST", "", << >>)), "(")
      cond == IF At(open, ")")
              THEN Returning(Advance(ParseError(open)), Node("LITERAL_VALUE", "Void", << >>))
              ELSE LET c == Parse("expression", open) IN Then(c, Require(c, ")"))
      body == BlockOrStatement(cond)
      else == BlockOrStatement(Advance(body))
  IN  Then(open, Then(cond, Then(body,
        IF At(body, "else") THEN Wrap(else, type, "", <<cond.node, body.node>>)
        ELSE Returning(body, Node(type, "", <<cond.node, body.node>>)))))

(* parse_expression_or_multi, which reports the empty parentheses of signal *)
(* () but not those of return ().                                          *)
ExpressionOrMulti(t, allowEmpty) ==
  LET list  == Expressions(t, << >>)
      empty == Node("MULTI_INITIALIZER", "", << >>)
  IN  IF At(t, ")") THEN Returning(IF allowEmpty THEN t ELSE Advance(ParseError(t)), empty)
      ELSE Then(list, IF Len(list.node.kids) = 1 THEN Returning(list, list.node.kids[1])
                      ELSE Returning(list, Node("MULTI_INITIALIZER", "", list.node.kids)))

Asm(t) ==
  LET open == Require(Returning(Advance(t), Node("ASM", "", << >>)), "(")
  IN  Then(open, CASE ~At(open, "TOKEN_STRING") -> SkipToSync(Unexpected(open))
                   [] At(open, "TOKEN_STRING") /\ Textless(open) -> Returning(open, Null)
                   [] OTHER -> Require(Advance(open), ")"))

(* free expr, or free (expr) and nothing after the parenthesis.            *)
Free(t) ==
  LET u   == Advance(t)
      arg == Parse("expression", IF At(u, "(") THEN Advance(u) ELSE u)
      end == IF At(u, "(") THEN Require(arg, ")") ELSE arg
  IN  Then(arg, Wrap(end, "FREE", "", << >>))

(* A statement that consists of its keyword.                               *)
Simple == [break |-> "BREAK", continue |-> "CONTINUE", nop |-> "NOP"]

TypeStarts == {"TOKEN_TYPE", "TOKEN_ID", "TOKEN_TYPEMOD", "TOKEN_STATEMOD", "@", "&", "typeof"}

IsLabelByColon(t) == At(t, "TOKEN_ID") /\ Ahead(t, 1) = ":"

IsLabel(t) == At(t, "TOKEN_ID") /\ Ahead(t, 1) = ":" /\ Ahead(t, 2) \notin TypeStarts

ElseStatement(t) ==
  LET body == BlockOrStatement(Advance(t))
  IN  IF OK(body) THEN Wrap(body, "ELSE_STATEMENT", "", << >>) ELSE ParseError(body)

(* The expression a statement consists of; one that is broken is skipped    *)
(* from its first token.                                                   *)
ExpressionStatement(t) ==
  LET e == Parse("expression", t)
  IN  IF OK(e) THEN e ELSE SkipToSync([e EXCEPT !.pos = t.pos])

Statement(t) ==
  LET u    == IF t.panic THEN SkipToSync(t) ELSE t
      next == Advance(u)
      Keyword(type, arg) == Wrap(arg, type, "", << >>)
  IN  IF At(t, ";") THEN Returning(Advance(t), Null)
      ELSE IF t.panic /\ At(u, "EOF") THEN Returning(u, Null)
      ELSE CASE At(u, "TOKEN_STATE")  -> Parse("declaration", u)
             [] IsLabel(u) ->
                  Returning(Advance(next), Node("LABEL_DECLARATION", Lexeme(u), << >>))
             [] At(u, "{")      -> Parse("block", u)
             [] At(u, "if")     -> Conditional(u, "IF_STATEMENT")
             [] At(u, "DO")     -> Conditional(u, "DO_LOOP")
             [] At(u, "else")   -> ElseStatement(u)
             [] At(u, "asm")    -> Asm(u)
             [] At(u, "free")   -> Free(u)
             [] At(u, "jump")   -> Keyword("JUMP", Parse("expression", next))
             [] At(u, "return") -> IF At(next, ";") THEN Returning(next, Node("RETURN", "", << >>))
                                   ELSE Keyword("RETURN", ExpressionOrMulti(next, TRUE))
             [] At(u, "signal") -> IF At(next, ";") THEN ParseError(next)
                                   ELSE Keyword("SIGNAL", ExpressionOrMulti(next, FALSE))
             [] Kind(u) \in DOMAIN Simple -> Returning(next, Node(Simple[Kind(u)], "", << >>))
             [] ~IsLabel(u) /\ Kind(u) \in ExpressionStarts \ {"{"} -> ExpressionStatement(u)
             [] OTHER -> SkipToSync(ParseError(u))

(* statement_requires_semicolon, and parse_semicolon where it does.        *)
RequiresSemicolon(node) ==
  /\ node.type \notin {"BLOCK", "IF_STATEMENT", "DO_LOOP", "LABEL_DECLARATION", "ELSE_STATEMENT"}
  /\ node.type = "FUNCTION_DECLARATION" => node.body = Null

EndStatement(t) ==
  CASE At(t, ";") -> Advance(t)
    [] ~At(t, ";") /\ RequiresSemicolon(t.node) ->
         [t EXCEPT !.errors = @ + 1, !.panic = TRUE]
    [] OTHER -> t

(* The statements of a block, up to its "}".  After one that is not there   *)
(* a token is dropped, the ";" of an empty statement having been read.     *)
Sequence(t, before) ==
  LET u    == IF t.panic THEN SkipToSync(t) ELSE t
      stmt == Parse("statement", u)
  IN  IF Kind(t) \in {"}", "EOF"} THEN Returning(t, Node("BLOCK", "", before))
      ELSE IF At(u, "}") THEN Returning(u, Node("BLOCK", "", before))
      ELSE IF OK(stmt) THEN Sequence(EndStatement(stmt), Append(before, stmt.node))
      ELSE Sequence(Advance(stmt), before)

-----------------------------------------------------------------------------
(* The rules that others refer to. *)

Parse(rule, t) ==
  CASE rule = "sequence"    -> Sequence(t, << >>)
    [] rule = "statement"   -> Statement(t)
    [] rule = "declaration" -> StateStatement(t)
    [] rule = "parameters"  -> ParameterList(t)
    [] rule = "parameter"   -> Parameter(t)
    [] rule = "block"       -> Block(t)
    [] rule = "type"        -> TypeSpecifier(t, FALSE)
    [] rule = "type, tried" -> TypeSpecifier(t, TRUE)
    [] rule = "expression"  -> Expression(t)
    [] rule = "ternary"     -> Ternary(t)
    [] rule = "operators"   -> Binary(t, 1)
    [] rule = "unary"       -> Unary(t)
    [] rule = "primary"     -> Primary(t)
    [] rule = "postfix"     -> Postfix(t)
    [] rule = "initializer" -> MultiInitializer(t)
    [] rule = "element"     -> IF At(t, ".") THEN FieldElement(t) ELSE Expression(t)
=============================================================================
