------------------------------- MODULE Parser --------------------------------
(***************************************************************************)
(* parse() of src/parser/parser.c, which calls the parsing functions of    *)
(* module Grammar once per statement of a program and collects the trees.  *)
(***************************************************************************)
EXTENDS Grammar

CONSTANTS
  Programs,           (* The programs considered: sequences of pieces, a   *)
                      (* piece a sequence of tokens.  For the properties:  *)
  Statements,         (* the pieces that are statements,                   *)
  BrokenExpressions,  (* those that begin with an expression and get it    *)
                      (* wrong before their ";",                           *)
  Formulas            (* and those of operands and operators without       *)
                      (* parentheses.                                      *)

VARIABLES
  program,    (* What is to be parsed; never changes.                      *)
  s,          (* ParserState.                                              *)
  ast,        (* AST.nodes, the statements parsed so far,                  *)
  hadErrors,  (* AST.had_errors,                                           *)
  parsed      (* and whether parse() has returned it.                      *)

vars == <<program, s, ast, hadErrors, parsed>>

Init ==
  /\ program \in Programs
  /\ s = Start(Append(FlattenSeq(program), "EOF"))
  /\ ast = << >>
  /\ hadErrors = FALSE
  /\ parsed = FALSE

Running == ~parsed /\ ~s.crashed

(* An iteration of the loop of parse(). *)
AddStatement(next) ==
  /\ OK(next)
  /\ ast' = Append(ast, next.node)
  /\ s' = Returning(EndStatement(next), Null)
  /\ UNCHANGED hadErrors

(* No statement.  The cursor is moved on by hand: a pushed back token stays. *)
DropNothing(next) ==
  /\ ~OK(next)
  /\ hadErrors' = TRUE
  /\ s' = IF At(next, ";") THEN Advance(next) ELSE next
  /\ UNCHANGED ast

DropToken(next) ==
  /\ ~OK(next)
  /\ hadErrors' = TRUE
  /\ s' = IF At(next, ";") THEN Advance(next)
          ELSE [next EXCEPT !.pos = IF @ <= Len(s.tokens) THEN @ + 1 ELSE @]
  /\ UNCHANGED ast

ParseStatement ==
  /\ Running /\ ~At(s, "EOF")
  /\ \E next \in {Parse("statement", IF s.panic THEN SkipToSync(s) ELSE s)} :
       AddStatement(next) \/ DropToken(next)
  /\ UNCHANGED <<program, parsed>>

ReturnTree ==
  /\ Running /\ At(s, "EOF")
  /\ parsed' = TRUE
  /\ UNCHANGED <<program, s, ast, hadErrors>>

Terminating == ~Running /\ UNCHANGED vars

Next == ParseStatement \/ ReturnTree \/ Terminating

Spec == Init /\ [][Next]_vars

-----------------------------------------------------------------------------
(* Properties *)

(* The cursor never leaves the tokens, a pushed back "=" is pending only    *)
(* inside a statement or where one was broken off, and a tree is returned  *)
(* only at the end.                                                        *)
ParserTypeOK ==
  /\ s.tokens = Append(FlattenSeq(program), "EOF")
  /\ s.pos \in 1..(Len(s.tokens) + 1)
  /\ {s.pushback, s.panic, s.crashed, hadErrors, parsed} \subseteq BOOLEAN
  /\ s.errors \in Nat
  /\ \A i \in DOMAIN ast : ast[i] # Null
  /\ parsed => At(s, "EOF") /\ ~s.crashed

(* The tree that the grammar of operators gives a formula, found from the   *)
(* outside in: at the root stands the operator that binds loosest, of      *)
(* several the last, but of assignments the first.                         *)
RECURSIVE Reference(_)
Reference(f) ==
  LET level(op) == IF op \in AssignOps THEN 0
                   ELSE CHOOSE l \in DOMAIN Levels : KindOf(op) \in Levels[l]
      ops  == {i \in DOMAIN f : f[i] \in AssignOps \/ KindOf(f[i]) \in UNION ToSet(Levels)}
      low  == {i \in ops : \A j \in ops : level(f[i]) <= level(f[j])}
      root == CHOOSE i \in low : \A j \in low : IF level(f[i]) = 0 THEN i <= j ELSE i >= j
      type == CASE f[root] = "=" -> "ASSIGNMENT"
                [] f[root] \in AssignOps \ {"="} -> "COMPOUND_ASSIGNMENT"
                [] OTHER -> "BINARY_OPERATION"
  IN  CASE ops # {} -> Node(type, KindOf(f[root]), <<Reference(SubSeq(f, 1, root - 1)),
                                                    Reference(SubSeq(f, root + 1, Len(f)))>>)
        [] ops = {} /\ Head(f) \in UnaryOps ->
             Node("UNARY_OPERATION", Head(f), <<Reference(Tail(f))>>)
        [] OTHER -> Node(IF KindOf(f[1]) = "TOKEN_ID" THEN "IDENTIFIER" ELSE "LITERAL_VALUE",
                         f[1], << >>)

(* Descending through the levels, each of them a loop, and assignment by    *)
(* recursion give every formula the tree of its operators' precedence and  *)
(* associativity (parser.c:848-978).                                       *)
PrecedenceRespected ==
  parsed /\ Len(program) = 1 /\ program[1] \in Formulas =>
    ast = <<Reference(Front(program[1]))>>

(* The statement a piece is when nothing stands around it. *)
Alone(piece) == Parse("statement", Start(Append(piece, "EOF"))).node

(* No piece goes on with the one before it: an else belongs to the if       *)
(* before it, and after a label a name or a type would be the type of a    *)
(* cast (parser.c:1762-1775).                                              *)
Separate ==
  \A i \in 2..Len(program) :
    /\ Head(program[i]) # "else"
    /\ IsLabel(Start(program[i - 1])) => KindOf(Head(program[i])) \notin TypeStarts

OnlyStatements == Separate /\ \A i \in DOMAIN program : program[i] \in Statements

(* Statements are parsed as if each stood alone: neither the cursor nor the *)
(* pushback, nor the search for labels, which looks two tokens ahead,      *)
(* carries anything from one to the next, and none takes what belongs to   *)
(* its neighbour (parse, parse_statement).                                 *)
StatementsIndependent ==
  parsed /\ OnlyStatements =>
    /\ s.errors = 0 /\ ~hadErrors
    /\ ast = [i \in DOMAIN program |-> Alone(program[i])]

(* The type of a del repeats the name. *)
RECURSIVE Names(_)
Names(node) ==
  LET under == CASE node.type \in {"VARIABLE_DECLARATION", "FUNCTION_DECLARATION"} ->
                      (IF node.state = "del" THEN << >> ELSE <<node.varType>>)
                        \o node.kids \o <<node.body, node.init>>
                 [] OTHER -> node.kids
  IN  Append(FlattenSeq([i \in DOMAIN under |-> Names(under[i])]), node.val)

(* What a declaration loses of its text: of a parameter that is only a type *)
(* what stands in its angle brackets, and the dimensions of a name whose   *)
(* fields are given in place.                                              *)
LeftOut(piece) ==
  {i \in DOMAIN piece :
     /\ KindOf(Head(piece)) = "TOKEN_STATE"
     /\ \E open \in 3 .. i - 1, close \in i + 1 .. Len(piece) - 2 :
          \/ /\ piece[open] = "<" /\ piece[close] = ">"
             /\ piece[open - 2] \in {"(", ",", "@"}
             /\ \A k \in open .. i : piece[k] # ">"
          \/ /\ piece[open] = "[" /\ SubSeq(piece, close, close + 2) = <<"]", ":", "{">>}

(* Whatever construct a name or a number stands in, it is in the tree as    *)
(* often as in the program: no parsing function drops an operand, an       *)
(* argument or an element it has read, except two.  parse_parameter keeps  *)
(* only the name of a type (parser.c:1661-1667), and the branch of         *)
(* parse_state_statement for fields in place does not use the dimensions   *)
(* read before it (parser.c:1517-1549).                                    *)
NamesKept ==
  parsed /\ OnlyStatements =>
    LET inTree == FlattenSeq([i \in DOMAIN ast |-> Names(ast[i])])
        Kept(piece) == [i \in DOMAIN piece |-> IF i \in LeftOut(piece) THEN "" ELSE piece[i]]
        inText == FlattenSeq([i \in DOMAIN program |-> Kept(program[i])])
        Often(name, text) == Cardinality({i \in DOMAIN text : text[i] = name})
    IN  \A name \in Kinds["TOKEN_ID"] \cup Kinds["TOKEN_NUMBER"] :
          Often(name, inTree) = Often(name, inText)

(* A statement with a broken expression is reported, and costs neither the  *)
(* one before it nor the one after: skip_to_sync_token stops at its ";",    *)
(* having started again from its first token (parser.c:1797-1804).         *)
BrokenExpressionIsolated ==
  parsed /\ Separate /\ Len(program) = 3 /\ program[2] \in BrokenExpressions =>
    /\ s.errors > 0 /\ hadErrors
    /\ ast = <<Alone(program[1]), Alone(program[3])>>

(* Every way through the loop of parse() reads a token, also where nothing  *)
(* could be parsed, where the parser starts again from an earlier token or *)
(* where it skips to the next: with the last token parsing is over.        *)
StepsRead == [][s.pos < s'.pos \/ s'.crashed \/ parsed']_vars

(* What parser.h says of parse: it "returns a fully parsed AST (or NULL on  *)
(* fatal error)".  An error at the end of the file is not reported but     *)
(* ends the compiler: REPORT_ERR takes strlen of the token's value, which  *)
(* is NULL for EOF (parser.c:60, lexer.c:551).                             *)
ParseReturns == ~s.crashed
=============================================================================
