------------------------------- MODULE Scoping -------------------------------
(***************************************************************************)
(* The scope rules of the language, stated without tables, and what the    *)
(* semantic analysis makes of them.                                        *)
(*                                                                         *)
(* A program is read as a sequence of events, each at the path of the      *)
(* scope it happens in: a name is declared, used or deleted, a value is    *)
(* assigned.  A declaration is seen in its scope and in those inside it,   *)
(* from the event on, unless a nearer one hides it, until it is deleted.   *)
(***************************************************************************)
EXTENDS Semantic

CONSTANT
  PlainPrograms  (* Those of Sources in which the scope rules, and no other, *)
                 (* can be broken.                                          *)

Event(what, name, path) ==
  [what |-> what, name |-> name, path |-> path, class |-> "", type |-> "", value |-> Null]

Nothing == << >>

(* The names an expression needs: the operands of operators are not looked  *)
(* at, nor are the elements of an initializer.                             *)
RECURSIVE Uses(_, _)
Uses(node, path) ==
  CASE node.type = "IDENTIFIER" -> <<Event("use", node.val, path)>>
    [] node.type = "FIELD_ACCESS" -> Uses(node.kids[1], path)
    [] node.type = "ARRAY_ACCESS" -> Uses(node.kids[1], path) \o Uses(node.kids[2], path)
    [] node.type = "CAST" -> Uses(node.kids[1], path)
    [] node.type = "FUNCTION_CALL" -> <<Event("call", node.kids[1].val, path)>>
    [] OTHER -> Nothing

ClassOf(type) ==
  CASE type.type # "TYPE" -> "UNKNOWN"
    [] type.type = "TYPE" /\ type.pointers > 0 -> "POINTER"
    [] type.type = "TYPE" /\ type.pointers = 0 /\ type.array -> "ARRAY"
    [] OTHER -> StringToDatatype(type.val)

(* The name of a type that has to be declared. *)
NameOf(type) == IF type.type = "TYPE" /\ ClassOf(type) = "UNKNOWN" THEN type.val ELSE ""

TypeUse(type, path) ==
  IF NameOf(type) = "" THEN Nothing ELSE <<Event("type", type.val, path)>>

Declares(what, name, class, path) ==
  IF name = "" THEN Nothing ELSE <<[Event(what, name, path) EXCEPT !.class = class]>>

DeclaresAs(what, name, type, path) ==
  IF name = "" THEN Nothing
  ELSE <<[Event(what, name, path) EXCEPT !.class = ClassOf(type), !.type = NameOf(type)]>>

(* A value for what is declared next. *)
Initializes(type, value, path) ==
  Uses(value, path)
    \o IF value = Null THEN Nothing
       ELSE <<[Event("init", "", path) EXCEPT !.class = ClassOf(type), !.type = NameOf(type),
                                             !.value = value]>>

FieldEvents(node, path) ==
  FlattenSeq([i \in DOMAIN node.body.kids |->
                TypeUse(node.body.kids[i].varType, path) \o Uses(node.body.kids[i].init, path)])

(* A struct or union is a type, or with a value a variable; one without     *)
(* members may be declared again by a definition.                          *)
VariableEvents(node, path) ==
  LET class   == ClassOf(node.varType)
      fields  == IF HasBlock(node) THEN FieldEvents(node, path) ELSE Nothing
      isType  == class \in Compounds /\ node.init = Null /\ (HasBlock(node) \/ node.state = "pro")
      what    == CASE ~HasBlock(node) -> "prototype"
                   [] HasBlock(node) /\ node.body.kids = << >> -> "empty"
                   [] OTHER -> "definition"
  IN  CASE node.state = "del" -> <<Event("delete", node.val, path)>>
        [] node.state # "del" /\ isType ->
             fields \o Declares(what, node.val, class, path)
        [] OTHER -> fields \o TypeUse(node.varType, path) \o Initializes(node.varType, node.init, path)
                      \o DeclaresAs("variable", node.val, node.varType, path)

(* The events of the statement at place i of the scope at a path.           *)
RECURSIVE Events(_, _, _)
EventsOf(nodes, path) == FlattenSeq([i \in DOMAIN nodes |-> Events(nodes[i], path, i)])
Events(node, path, i) ==
  LET inside == Append(path, i)
      kids   == node.kids
      params == SelectSeq(kids, LAMBDA k : k.type = "VARIABLE_DECLARATION")
  IN  CASE node.type = "VARIABLE_DECLARATION" -> VariableEvents(node, path)
        [] node.type = "FUNCTION_DECLARATION" ->
             TypeUse(node.varType, path)
               \o FlattenSeq([k \in DOMAIN params |-> TypeUse(params[k].varType, path)])
               \o Declares("function", node.val, "FUNCTION", path)
               \o FlattenSeq([k \in DOMAIN params |->
                    DeclaresAs("parameter", params[k].val, params[k].varType, inside)])
               \o FlattenSeq([k \in DOMAIN params |->
                    Initializes(params[k].varType, params[k].init, inside)])
               \o (IF node.state = "def" THEN EventsOf(node.body.kids, Append(inside, 1)) ELSE Nothing)
        [] node.type = "LABEL_DECLARATION" -> Declares("label", node.val, "LABEL", path)
        [] node.type = "BLOCK" -> EventsOf(kids, inside)
        [] node.type \in {"IF_STATEMENT", "DO_LOOP"} ->
             Uses(kids[1], path)
               \o EventsOf(kids[2].kids, inside \o <<2>>)
               \o (IF Len(kids) = 3 THEN EventsOf(kids[3].kids, inside \o <<3>>) ELSE Nothing)
        [] node.type = "ASSIGNMENT" ->
             Uses(kids[1], path) \o Uses(kids[2], path)
               \o (IF kids[1].type # "IDENTIFIER" THEN Nothing
                   ELSE <<[Event("assign", kids[1].val, path) EXCEPT !.value = kids[2]]>>)
        [] node.type = "RETURN" -> IF kids = << >> THEN Nothing ELSE Uses(kids[1], path)
        [] OTHER -> Uses(node, path)

-----------------------------------------------------------------------------
(* The scope rules: e is the sequence of events, j an event of it.          *)

Types == {"prototype", "empty", "definition"}
Declarations == Types \cup {"variable", "function", "parameter", "label"}

Live(e, i, j) ==
  /\ i < j /\ e[i].what \in Declarations
  /\ \A k \in i..j : ~(e[k].what = "delete" /\ e[k].name = e[i].name /\ e[k].path = e[i].path /\ k < j)

Seen(e, j) == {i \in DOMAIN e : e[i].name = e[j].name /\ Live(e, i, j) /\ IsPrefix(e[i].path, e[j].path)}

InScope(e, j) == {i \in Seen(e, j) : e[i].path = e[j].path}

NearestAt(e, j) ==
  CHOOSE i \in Seen(e, j) :
    \A k \in Seen(e, j) : Len(e[k].path) <= Len(e[i].path)
                          /\ (Len(e[k].path) = Len(e[i].path) => k <= i)

Nearest(e, j) == e[NearestAt(e, j)]

IsValue(declaration) == declaration.class \notin {"FUNCTION", "LABEL"}

Fits(from, to) == from \in {"VOID", to} \/ {from, to} \subseteq {"INT", "REAL"}

(* The class an event gives, which may be that of a type declared before.   *)
ClassAt(e, i) ==
  LET typed == [e EXCEPT ![i].name = e[i].type]
  IN  IF e[i].type # "" /\ Seen(typed, i) # {} THEN Nearest(typed, i).class ELSE e[i].class

(* A name or a number fits what it is assigned to; of other values the      *)
(* class is not known here, nor is that of an Auto.                        *)
Assignable(e, j) ==
  LET named  == [e EXCEPT ![j].name = e[j].value.val]
      target == IF e[j].what = "init" THEN ClassAt(e, j) ELSE ClassAt(e, NearestAt(e, j))
      from   == CASE e[j].value.type = "IDENTIFIER" -> ClassAt(e, NearestAt(named, j))
                  [] KindOf(e[j].value.val) = "TOKEN_NUMBER" ->
                       IF e[j].value.val \in RealNumbers THEN "REAL" ELSE "INT"
                  [] OTHER -> "UNKNOWN"
  IN  {"UNKNOWN", "AUTO"} \cap {from, target} # {} \/ Fits(from, target)

Rule(e, j) ==
  CASE e[j].what = "parameter" -> TRUE
    [] e[j].what \in Declarations \ {"parameter"} ->
         \A i \in InScope(e, j) : /\ e[i].what \in {"prototype", "empty"}
                                  /\ e[j].what \in {"empty", "definition"}
                                  /\ e[i].class = e[j].class
    [] e[j].what = "use"    -> Seen(e, j) # {} /\ IsValue(Nearest(e, j))
    [] e[j].what = "type"   -> Seen(e, j) # {} /\ Nearest(e, j).what \in Types
    [] e[j].what = "call"   -> Seen(e, j) # {} /\ Nearest(e, j).class = "FUNCTION"
    [] e[j].what = "delete" -> /\ InScope(e, j) # {}
                               /\ ClassAt(e, NearestAt(e, j)) \notin Compounds \cup {"FUNCTION", "LABEL"}
    [] e[j].what = "init"   -> Assignable(e, j)
    [] e[j].what = "assign" -> Nearest(e, j).what \notin Types /\ Assignable(e, j)

(* An assignment is looked at only if the names it needs are in order.      *)
WellScopedFile(tree) ==
  LET e == EventsOf(tree, << >>)
      assignments == {j \in DOMAIN e : e[j].what \in {"assign", "init"}}
  IN  (\A j \in DOMAIN e \ assignments : Rule(e, j)) /\ (\A j \in assignments : Rule(e, j))

WellScoped == \A i \in DOMAIN source : \E tree \in {TreeOf(source[i])} : WellScopedFile(tree)

(* The check for a main comes with every file. *)
HasMain ==
  \A i \in DOMAIN source : \E tree \in {TreeOf(source[i])} :
    \E j \in DOMAIN tree :
      /\ tree[j].type = "FUNCTION_DECLARATION" /\ tree[j].val = "main" /\ tree[j].state = "def"

-----------------------------------------------------------------------------
(* Properties *)

(* For every scope that is open, or to be opened, its end is still to come  *)
(* on the agenda, and the global one is never left: enter and exit match,  *)
(* whichever way a check returns (semantic__enter_scope_ex,                *)
(* semantic__exit_scope).                                                  *)
SemanticTypeOK ==
  /\ file \in 0..Len(source) /\ analyzing \in BOOLEAN
  /\ ctx.errors \in Nat /\ ctx.hasErrors \in BOOLEAN /\ (ctx.errors > 0 => ctx.hasErrors)
  /\ ctx.scopes[1].level = "GLOBAL"
  /\ LET Pending(what) == Cardinality({i \in DOMAIN agenda : agenda[i].do = what})
     IN  Len(ctx.scopes) = 1 + Pending("exit") - Pending("enter")
  /\ ~analyzing => agenda = << >>

(* In a program that is accepted every name that is looked at is that of a  *)
(* declaration of its file before it, in its scope or one around it;        *)
(* nothing is declared twice in a scope, and what is assigned fits the     *)
(* nearest declaration (find_symbol, find_symbol_in_table,                 *)
(* can_implicitly_convert).                                                *)
AcceptedIsWellScoped == Analyzed /\ ctx.errors = 0 => WellScoped

(* Where nothing else can be wrong the programs that are accepted are just  *)
(* those whose files all obey the rules and have a main, each by itself:    *)
(* shadowing, a declaration after a deletion, a prototype's definition and  *)
(* a name of another file are let through (semantic__analyze,              *)
(* final_verification, main).                                              *)
ScopesDecide ==
  Analyzed /\ source \in PlainPrograms =>
    (ctx.errors = 0 <=> WellScoped /\ (extraWarnings \/ HasMain))

NamesOf(table) == [i \in DOMAIN table.symbols |-> [table.symbols[i] EXCEPT !.used = FALSE]]

(* A statement declares and deletes in the innermost scope only; leaving it *)
(* gives back the one around it as it was when it was entered, but for the *)
(* uses that are recorded.  A file begins with a context of its own.       *)
OuterScopesKept ==
  [][analyzing => \A i \in 1..(Len(ctx.scopes) - 1) : NamesOf(ctx'.scopes[i]) = NamesOf(ctx.scopes[i])]_semVars

(* What semantic.c:453-454 says of calls: a prototype "is sufficient to     *)
(* allow calls; missing definitions are diagnosed in final_verification".  *)
(* The parser leaves the name of a call in a node below it, and the        *)
(* analysis looks for it in the call: each is an error.                    *)
CallsAllowed ==
  Analyzed /\ WellScoped /\ HasMain =>
    LET globals == ctx.scopes[1].symbols
    IN  ctx.errors = Cardinality({i \in DOMAIN globals : /\ globals[i].type = "FUNCTION"
                                                         /\ globals[i].used /\ ~globals[i].hasBody})
=============================================================================
