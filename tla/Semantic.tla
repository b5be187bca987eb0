------------------------------ MODULE Semantic -------------------------------
(***************************************************************************)
(* Semantic analysis, src/semantic/semantic.c: the declarations of a       *)
(* program are entered in nested scopes, and expressions, assignments and  *)
(* returns are checked against them.                                       *)
(*                                                                         *)
(* The trees are those of module Grammar.  The SemanticContext is a record *)
(* c; a checking function is an operator from the context before to the    *)
(* context after, whose field "res" holds what it returns.  The recursion  *)
(* over statements is an agenda: a step checks one statement, and what is  *)
(* still to be done inside it comes first on the agenda.                   *)
(*                                                                         *)
(* Left out: warnings, lines and columns, the names of modifiers (those    *)
(* the parser lets through are allowed for every type), failures of the    *)
(* allocator, in_function and in_loop (which are never read), and what     *)
(* trees of this parser do not reach: the arguments of calls, which are    *)
(* rejected before (CheckType), ternary operators, which do not parse, the *)
(* merging of a definition with its prototype, and variables without a     *)
(* state.  An operator placed before a definition as a variant of it is a  *)
(* mutant.                                                                 *)
(***************************************************************************)
EXTENDS Grammar

CONSTANT
  Sources  (* The programs considered: sequences of files, each a sequence  *)
           (* of tokens that parses.                                       *)

VARIABLES
  source,         (* The files; never changes.                             *)
  extraWarnings,  (* ctx->extra_warnings, -Wextra.                         *)
  file,           (* How many of the files have been taken up.             *)
  ctx,            (* SemanticContext                                       *)
  agenda,         (* What is still to be checked of the file, and which    *)
                  (* scopes are to be left after it.                       *)
  analyzing       (* Whether semantic__analyze is under way.               *)

semVars == <<source, extraWarnings, file, ctx, agenda, analyzing>>

TreeOf(text) == Parse("sequence", Start(Append(text, "EOF"))).node.kids

-----------------------------------------------------------------------------
(* Scopes.  A table holds its symbols newest first; find_symbol searches    *)
(* from the innermost scope outwards.                                      *)

Compounds == {"COMPOUND", "UNION"}

Symbol(name, type, info) ==
  [name |-> name, type |-> type, info |-> info, constant |-> FALSE, used |-> FALSE,
   members |-> << >>, params |-> << >>, hasBody |-> FALSE]

Invalid == [valid |-> FALSE, type |-> "UNKNOWN", info |-> "", owner |-> Symbol("", "UNKNOWN", ""),
            members |-> << >>]

Table(level) == [level |-> level, symbols |-> << >>]

EmptyContext ==
  [scopes |-> <<Table("GLOBAL")>>, errors |-> 0, hasErrors |-> FALSE,
   returnType |-> "VOID", res |-> Invalid]

InTable(table, name) == SelectInSeq(table.symbols, LAMBDA e : e.name = name)

DepthFromOutside(c, name) == SelectInSeq(c.scopes, LAMBDA table : InTable(table, name) > 0)

DepthOf(c, name) == SelectLastInSeq(c.scopes, LAMBDA table : InTable(table, name) > 0)

Found(c, name) == DepthOf(c, name) > 0

Lookup(c, name) ==
  LET table == c.scopes[DepthOf(c, name)] IN table.symbols[InTable(table, name)]

Here(c) == Last(c.scopes)

DeclaredAnywhere(c, name) == Found(c, name)

DeclaredHere(c, name) == InTable(Here(c), name) > 0

Use(c, name) ==
  LET d == DepthOf(c, name)
  IN  [c EXCEPT !.scopes[d].symbols[InTable(c.scopes[d], name)].used = TRUE]

AddToGlobal(c, entry) == [c EXCEPT !.scopes[1].symbols = <<entry>> \o @]

AddSymbol(c, entry) == [c EXCEPT !.scopes[Len(c.scopes)].symbols = <<entry>> \o @]

EnterScope(c, level) == [c EXCEPT !.scopes = Append(@, Table(level))]

StayInScope(c) == c

ExitScope(c) == IF Len(c.scopes) = 1 THEN c ELSE [c EXCEPT !.scopes = Front(@)]

(* SEM_ERROR, after which every caller gives up.                           *)
SemError(c) == [c EXCEPT !.errors = @ + 1, !.hasErrors = TRUE, !.res = Invalid]

Fail(c) == [c EXCEPT !.res = Invalid]

Valid(c, type, info) == [c EXCEPT !.res = [Invalid EXCEPT !.valid = TRUE, !.type = type, !.info = info]]

IfValid(c, rest) == IF c.res.valid THEN rest ELSE c

-----------------------------------------------------------------------------
(* Types *)

Builtin == [Int |-> "INT", Real |-> "REAL", Char |-> "CHAR", Void |-> "VOID", Auto |-> "AUTO",
            Struct |-> "COMPOUND", Union |-> "UNION"]

StringToDatatype(name) == IF name \in DOMAIN Builtin THEN Builtin[name] ELSE "UNKNOWN"

(* A compound that is a type and not a variable, and one that has no member *)
(* (yet): a prototype, but also an empty definition.                       *)
IsTypeDefinition(entry) == entry.type \in Compounds /\ entry.constant

IsIncomplete(entry) == IsTypeDefinition(entry) /\ entry.members = << >>

(* type_from_type_info: the type, UNKNOWN being reported.                  *)
TypeFromInfo(c, type) ==
  LET Typed(d, t) == Valid(d, t, type.val)
  IN  CASE type.pointers > 0 -> Typed(c, "POINTER")
        [] type.pointers = 0 /\ type.array -> Typed(c, "ARRAY")
        [] type.pointers = 0 /\ ~type.array /\ type.val \in DOMAIN Builtin ->
             Typed(c, Builtin[type.val])
        [] OTHER -> IF Found(c, type.val) /\ IsTypeDefinition(Lookup(c, type.val))
                    THEN Typed(Use(c, type.val), Lookup(c, type.val).type)
                    ELSE Typed(SemError(c), "UNKNOWN")

CanConvert(from, to) == from \in {"VOID", to} \/ {from, to} = {"INT", "REAL"}

IsCondition(type) == type \in {"INT", "REAL", "POINTER"}

-----------------------------------------------------------------------------
(* Expressions *)

RealNumbers == {"1.5"}

(* A string has no type, and nothing is reported. *)
CheckLiteral(c, val) ==
  CASE KindOf(val) = "TOKEN_NUMBER" -> Valid(c, IF val \in RealNumbers THEN "REAL" ELSE "INT", "")
    [] val = "none" -> Valid(c, "VOID", "")
    [] val \in DOMAIN Builtin -> Valid(c, Builtin[val], "")
    [] OTHER -> Fail(c)

CheckIdentifier(c, name) ==
  LET entry == Lookup(c, name)
  IN  IF ~Found(c, name) THEN SemError(c)
      ELSE IF entry.type \in {"FUNCTION", "LABEL"} THEN SemError(c)
      ELSE Valid(Use(c, name), entry.type, entry.info)

MembersNamed(members, name) == {i \in DOMAIN members : members[i].name = name}

(* The variable a member is taken of: res.owner.                           *)
MemberBase(c, left) ==
  LET entry == Lookup(c, left.val)
  IN  CASE left.type # "IDENTIFIER" -> Fail(c)
        [] left.type = "IDENTIFIER" /\ ~Found(c, left.val) -> SemError(c)
        [] OTHER -> IF entry.type \notin Compounds \/ IsTypeDefinition(entry) THEN SemError(c)
                    ELSE [Valid(Use(c, left.val), entry.type, entry.info) EXCEPT !.res.owner = entry]

MemberIn(c, owner, name) ==
  LET at    == MembersNamed(owner.members, name)
      first == owner.members[CHOOSE i \in at : \A j \in at : i <= j]
  IN  IF at = {} THEN SemError(c)
      ELSE [Valid(c, first.type, first.info) EXCEPT !.res.owner = owner]

(* A variable without members of its own has those of its type.            *)
MemberOf(c, owner, name) ==
  IF ~c.res.valid THEN c
  ELSE IF owner.members = << >> /\ Found(c, owner.info) /\ IsTypeDefinition(Lookup(c, owner.info))
  THEN MemberIn(Use(c, owner.info), Lookup(c, owner.info), name)
  ELSE MemberIn(c, owner, name)

(* resolve_member_access.  Of a member of a member the owner is still the   *)
(* outermost variable, or its type: the members searched are again its own. *)
RECURSIVE ResolveMember(_, _)
ResolveMember(c, node) ==
  LET left == node.kids[1]
      base == IF left.type = "FIELD_ACCESS" THEN ResolveMember(c, left) ELSE MemberBase(c, left)
  IN  MemberOf(base, base.res.owner, node.kids[2].val)

(* check_type.  The parser leaves the name of a call to its first child and *)
(* the field that is looked at empty: every call is rejected.  The operands *)
(* of unary and binary operators are not looked at.                        *)
RECURSIVE CheckType(_, _)
CheckType(c, node) ==
  LET left   == CheckType(c, node.kids[1])
      index  == CheckType(left, node.kids[2])
      target == TypeFromInfo(left, node.kids[2])
  IN  CASE node.type = "LITERAL_VALUE" -> CheckLiteral(c, node.val)
        [] node.type = "IDENTIFIER" -> CheckIdentifier(c, node.val)
        [] node.type = "FIELD_ACCESS" -> ResolveMember(c, node)
        [] node.type = "ARRAY_ACCESS" ->
             IF Len(node.kids) < 2 THEN Fail(c)
             ELSE IfValid(left,
                    IF left.res.type # "ARRAY" THEN SemError(left)
                    ELSE IfValid(index, IF index.res.type \notin {"INT", "REAL"} THEN SemError(index)
                                        ELSE Valid(index, "INT", "")))
        [] node.type = "MULTI_INITIALIZER" -> Valid(c, "COMPOUND", "")
        [] node.type = "CAST" ->
             IfValid(left, IF target.res.type = "UNKNOWN" THEN Fail(target) ELSE target)
        [] node.type = "FUNCTION_CALL" -> SemError(c)
        [] OTHER -> Valid(c, "UNKNOWN", "")

(* The conversion of a value to a type. *)
Converted(value, type) ==
  IfValid(value, IF CanConvert(value.res.type, type) THEN Valid(value, type, "")
                 ELSE SemError(value))

CheckConverted(c, node, type) == Converted(CheckType(c, node), type)

(* A value, if it is one, makes what it is given to one of the type named.  *)
Named(value, name) == IfValid(value, Valid(value, value.res.type, name))

-----------------------------------------------------------------------------
(* Structs and unions *)

(* check_struct_initializer: a wrong designator is reported, and no more.   *)
CheckStructInitializer(c, node, members) ==
  LET elements == node.kids
      wrong == {i \in DOMAIN elements :
                  \/ elements[i].type # "FIELD_ACCESS"
                  \/ elements[i].kids[1].type # "IDENTIFIER"
                  \/ MembersNamed(members, elements[i].kids[1].val) = {}}
  IN  CASE members = << >> -> SemError(c)
        [] members # << >> /\ elements = << >> -> Valid(c, "COMPOUND", "")
        [] OTHER ->
             IF elements[1].type = "FIELD_ACCESS"
             THEN [Valid(c, "COMPOUND", "") EXCEPT !.errors = @ + Cardinality(wrong),
                                                  !.hasErrors = @ \/ wrong # {}]
             ELSE IF Len(elements) > Len(members) THEN SemError(c)
             ELSE Valid(c, "COMPOUND", "")

HasBlock(node) == node.body.type = "BLOCK"

(* A member that has got its type: a list of values is not looked at.       *)
TypedMember(typed, field) ==
  CASE typed.res.type \in {"AUTO", "UNKNOWN", "VOID"} -> SemError(typed)
    [] field.init = Null \/ field.init.type = "MULTI_INITIALIZER" -> typed
    [] OTHER -> Named(CheckConverted(typed, field.init, typed.res.type), field.varType.val)

(* The result is not valid if there is no member.                          *)
Anonymous(nested, kind) == [Valid(nested, kind, "") EXCEPT !.res.members = nested.res.members]

AddMember(c, name, members) ==
  [c EXCEPT !.res.members =
     IF ~c.res.valid THEN members
     ELSE Append(members, [name |-> name, type |-> c.res.type, info |-> c.res.info,
                           members |-> c.res.members])]

(* build_member_list_from_block, the members being added to res.members; a  *)
(* member that is in order by itself is added whatever the others are.     *)
RECURSIVE BuildMembers(_, _)
BuildMembers(c, fields) ==
  LET field  == Head(fields)
      kind   == field.varType.val
      Member ==
        CASE field.type # "VARIABLE_DECLARATION" \/ field.state # "def" -> SemError(c)
          [] OTHER ->
               IF field.val = "" /\ kind \in {"Struct", "Union"} /\ HasBlock(field)
               THEN Anonymous(BuildMembers(Fail(c), field.body.kids), Builtin[kind])
               ELSE IF field.val = "" \/ field.varType.type # "TYPE" THEN SemError(c)
               ELSE TypedMember(TypeFromInfo(c, field.varType), field)
  IN  IF fields = << >> THEN c
      ELSE BuildMembers(AddMember(Member, field.val, c.res.members), Tail(fields))

Members(c, node) == BuildMembers(Fail(c), node.body.kids)

CompleteType(built, j, kind) ==
  Valid([built EXCEPT !.scopes[Len(built.scopes)].symbols[j].members = built.res.members], kind, "")

AddType(c, name, kind, members) ==
  Valid(AddSymbol(c, [Symbol(name, kind, "") EXCEPT !.constant = TRUE, !.members = members]),
        kind, "")

AddDefinition(built, name, kind) == AddType(built, name, kind, built.res.members)

(* process_compound_definition *)
CompoundDefinition(c, node, kind, isPrototype) ==
  LET j     == InTable(Here(c), node.val)
      entry == Here(c).symbols[j]
  IN  IF node.val = "" THEN SemError(c)
      ELSE IF j > 0
      THEN IF entry.type # kind \/ isPrototype \/ ~IsIncomplete(entry) THEN SemError(c)
           ELSE CompleteType(Members(c, node), j, kind)
      ELSE IF isPrototype THEN AddType(c, node.val, kind, << >>)
      ELSE AddDefinition(Members(c, node), node.val, kind)

CompoundValue(built, node, kind) ==
  CASE node.init.val = "none" -> Valid(built, kind, "")
    [] node.init.type = "MULTI_INITIALIZER" ->
         CheckStructInitializer(built, node.init, built.res.members)
    [] OTHER -> CheckConverted(built, node.init, kind)

AddIfValid(c, entry) == IfValid(c, AddSymbol(c, entry))

AddCompound(built, node, kind) ==
  AddIfValid(CompoundValue(built, node, kind),
             [Symbol(node.val, kind, node.varType.val) EXCEPT !.members = built.res.members])

(* A variable that is declared with its members and a value. *)
CompoundVariable(c, node, kind) ==
  IF node.val = "" \/ DeclaredHere(c, node.val) THEN SemError(c)
  ELSE AddCompound(Members(c, node), node, kind)

-----------------------------------------------------------------------------
(* Declarations *)

(* The value of a variable that has got its type. *)
Initialized(c, type, node) ==
  IF node.init = Null \/ node.init.val = "none" THEN Valid(c, type, node.varType.val)
  ELSE Named(CheckConverted(c, node.init, type), node.varType.val)

(* An Auto has the type of its value. *)
Auto(value, node) ==
  IfValid(value, IF value.res.type \notin {"INT", "REAL", "CHAR", "VOID"} THEN SemError(value)
                 ELSE Initialized(value, value.res.type, node))

(* deduce_and_check_variable *)
DeduceType(declared, node) ==
  LET type == declared.res.type
  IN  CASE type = "UNKNOWN" \/ (type = "AUTO" /\ node.init = Null) -> SemError(declared)
        [] type = "AUTO" /\ node.init # Null -> Auto(CheckType(declared, node.init), node)
        [] OTHER -> Initialized(declared, type, node)

AddVariable(c, node) ==
  IF ~c.res.valid \/ node.val = "" THEN c
  ELSE AddSymbol(c, Symbol(node.val, c.res.type, node.varType.val))

CheckVariable(c, node) ==
  LET kind    == StringToDatatype(node.varType.val)
      typed   == TypeFromInfo(c, node.varType)
      again   == IF node.state = "pro" THEN TypeFromInfo(typed, node.varType) ELSE typed
  IN  IF kind \in Compounds /\ HasBlock(node)
      THEN IF node.init # Null THEN CompoundVariable(c, node, kind)
           ELSE CompoundDefinition(c, node, kind, FALSE)
      ELSE IF node.val # "" /\ DeclaredHere(c, node.val) THEN SemError(c)
      ELSE IF node.varType.type # "TYPE" THEN SemError(c)
      ELSE IF node.state = "pro" /\ node.init # Null THEN SemError(c)
      ELSE IF node.state = "pro" /\ kind \in Compounds THEN CompoundDefinition(c, node, kind, TRUE)
      ELSE IF node.state = "pro" /\ typed.res.type = "AUTO" THEN SemError(typed)
      ELSE AddVariable(DeduceType(again, node), node)

(* process_del_variable *)
CheckDel(c, node) ==
  LET j == InTable(Here(c), node.val)
  IN  IF node.val = "" \/ j = 0 THEN SemError(c)
      ELSE IF Here(c).symbols[j].type \in Compounds \cup {"FUNCTION", "LABEL"} THEN SemError(c)
      ELSE Valid([c EXCEPT !.scopes[Len(c.scopes)].symbols = RemoveAt(@, j)], "UNKNOWN", "")

(* A parameter with a wrong type is UNKNOWN.                               *)
NewParameter(c, name, type, info, init) ==
  LET auto  == type = "AUTO" /\ init = Null
      wrong == \/ type = "UNKNOWN"
               \/ type \in Compounds /\ Found(c, info) /\ IsIncomplete(Lookup(c, info))
  IN  [c |-> CASE auto -> SemError(SemError(c)) [] wrong -> SemError(c) [] OTHER -> c,
       param |-> [name |-> name, type |-> IF auto \/ wrong THEN "UNKNOWN" ELSE type, init |-> init]]

(* The parameters of a function, added to params: one without a type is     *)
(* Void.                                                                   *)
RECURSIVE BuildParameters(_, _, _)
BuildParameters(c, nodes, params) ==
  LET node  == Head(nodes)
      void  == Valid(c, "VOID", "")
      typed == IF node.varType.type = "TYPE" THEN TypeFromInfo(c, node.varType) ELSE void
      unnamed == StringToDatatype(node.val)
      isVariable == node.type = "VARIABLE_DECLARATION"
      new   == IF isVariable
               THEN NewParameter(typed, node.val, typed.res.type, node.varType.val, node.init)
               ELSE NewParameter(void, "", unnamed, "", Null)
  IN  IF nodes = << >> THEN [c |-> c, params |-> params]
      ELSE IF ~isVariable /\ (node.type # "LITERAL_VALUE" \/ unnamed = "UNKNOWN")
      THEN BuildParameters(SemError(c), Tail(nodes), params)
      ELSE BuildParameters(new.c, Tail(nodes), Append(params, new.param))

RECURSIVE AddParameters(_, _), CheckDefaults(_, _)
AddParameters(c, params) ==
  IF params = << >> THEN c
  ELSE AddParameters(IF Head(params).name = "" THEN c
                     ELSE AddSymbol(c, Symbol(Head(params).name, Head(params).type, "")),
                     Tail(params))

DefaultFits(value, type) ==
  IF value.res.valid /\ CanConvert(value.res.type, type) THEN value ELSE SemError(value)

CheckDefaults(c, params) ==
  LET param == Head(params)
  IN  IF params = << >> THEN c
      ELSE CheckDefaults(IF param.init = Null THEN c
                         ELSE DefaultFits(CheckType(c, param.init), param.type),
                         Tail(params))

(* Of a definition the scope with the parameters is left open for the body. *)
OpenFunction(c, returnType, params) ==
  CheckDefaults(
    AddParameters([EnterScope(c, "FUNCTION") EXCEPT !.returnType = returnType], params), params)

DeclareWith(c, returnType, params, node) ==
  LET added == AddSymbol(c, [Symbol(node.val, "FUNCTION", node.varType.val) EXCEPT
                               !.constant = TRUE, !.used = node.val = "main",
                               !.params = params, !.hasBody = node.state = "def"])
  IN  CASE DeclaredHere(c, node.val) -> SemError(c)
        [] ~DeclaredHere(c, node.val) /\ node.state = "pro" ->
             IF \E i \in DOMAIN params : params[i].init # Null THEN SemError(c)
             ELSE Valid(added, "FUNCTION", "")
        [] OTHER -> IF node.body = Null THEN SemError(c)
                    ELSE Valid(OpenFunction(added, returnType, params), "FUNCTION", "")

DeclareTyped(ret, node) ==
  LET list == BuildParameters(ret, node.kids, << >>)
  IN  IF ret.res.type \in {"AUTO", "UNKNOWN"} THEN SemError(ret)
      ELSE DeclareWith(list.c, ret.res.type, list.params, node)

(* process_function_declaration *)
CheckFunction(c, node) ==
  IF node.access = "inline" /\ node.state # "def" THEN SemError(c)
  ELSE DeclareTyped(IF node.varType.type = "TYPE" THEN TypeFromInfo(c, node.varType)
                    ELSE Valid(c, "VOID", ""), node)

(* process_label_statement *)
CheckLabel(c, node) ==
  IF DeclaredHere(c, node.val) THEN SemError(c)
  ELSE Valid(AddSymbol(c, [Symbol(node.val, "LABEL", "") EXCEPT !.constant = TRUE]), "LABEL", "")

-----------------------------------------------------------------------------
(* Statements *)

(* process_return_statement *)
CheckReturn(c, node) ==
  IF node.kids = << >>
  THEN IF extraWarnings \/ c.returnType # "VOID" THEN SemError(c) ELSE Valid(c, "VOID", "")
  ELSE CheckConverted(c, node.kids[1], c.returnType)

(* The variable at the bottom of a.b.c, or of a[1][2].                     *)
RECURSIVE BaseOf(_, _)
BaseOf(node, type) == IF node.type = type THEN BaseOf(node.kids[1], type) ELSE node

AssignedVariable(node) ==
  IF node.type \in {"FIELD_ACCESS", "ARRAY_ACCESS"} THEN BaseOf(node, node.type) ELSE node

Assigned(left, lhs, rhs) ==
  LET base  == AssignedVariable(lhs)
      entry == Lookup(left, lhs.val)
      ofType == Lookup(left, left.res.info)
  IN  CASE ~left.res.valid -> left
        [] left.res.valid /\ base.type = "IDENTIFIER" /\ Found(left, base.val)
             /\ Lookup(left, base.val).constant -> SemError(left)
        [] OTHER ->
             IF lhs.type # "IDENTIFIER" \/ left.res.type \notin Compounds
                \/ rhs.type # "MULTI_INITIALIZER"
             THEN CheckConverted(left, rhs, left.res.type)
             ELSE IF entry.members # << >> THEN CheckStructInitializer(left, rhs, entry.members)
             ELSE IF left.res.info = "" \/ ~Found(left, left.res.info) \/ ~IsTypeDefinition(ofType)
             THEN SemError(left)
             ELSE CheckStructInitializer(left, rhs, ofType.members)

CheckAssignment(c, node) == Assigned(CheckType(c, node.kids[1]), node.kids[1], node.kids[2])

Holds(cond) == IfValid(cond, IF IsCondition(cond.res.type) THEN cond ELSE SemError(cond))

CheckCondition(c, node) == Holds(CheckType(c, node))

-----------------------------------------------------------------------------
(* The walk over the program *)

Check(node)  == [do |-> "check", node |-> node]
Enter(level) == [do |-> "enter", level |-> level]
Exit         == [do |-> "exit"]

Checks(nodes) == [i \in DOMAIN nodes |-> Check(nodes[i])]

Init ==
  /\ source \in Sources
  /\ extraWarnings \in BOOLEAN
  /\ ctx = EmptyContext
  /\ file = 0
  /\ agenda = << >>
  /\ analyzing = FALSE

AnalyzeInSameContext ==
  /\ ~analyzing /\ file < Len(source) /\ ctx.errors = 0
  /\ file' = file + 1
  /\ ctx' = [ctx EXCEPT !.hasErrors = FALSE]
  /\ agenda' = Checks(TreeOf(source[file + 1]))
  /\ analyzing' = TRUE
  /\ UNCHANGED <<source, extraWarnings>>

(* The next file gets a context of its own (main), unless an error has been *)
(* reported for an earlier one (process_one_file).                         *)
Analyze ==
  /\ ~analyzing /\ file < Len(source) /\ ctx.errors = 0
  /\ file' = file + 1
  /\ ctx' = EmptyContext
  /\ agenda' = Checks(TreeOf(source[file + 1]))
  /\ analyzing' = TRUE
  /\ UNCHANGED <<source, extraWarnings>>

(* semantic__check_statement returned d.  That a statement of a function's  *)
(* body was not in order is not passed on; elsewhere it is in the end.     *)
Concluded(d) ==
  [d EXCEPT !.hasErrors = @ \/ ( /\ ~d.res.valid
                                 /\ \A i \in DOMAIN d.scopes : d.scopes[i].level # "FUNCTION")]

Todo(type) == agenda # << >> /\ Head(agenda).do = "check" /\ Head(agenda).node.type = type

(* The statement is checked by d, and what is inside it comes next.         *)
Goes(d, inside) ==
  /\ ctx' = Concluded(d)
  /\ agenda' = (IF d.res.valid THEN inside ELSE << >>) \o Tail(agenda)
  /\ UNCHANGED <<source, extraWarnings, file, analyzing>>

Declare ==
  /\ Todo("VARIABLE_DECLARATION")
  /\ LET node == Head(agenda).node
     IN  Goes(IF node.state = "del" THEN CheckDel(ctx, node) ELSE CheckVariable(ctx, node), << >>)

DeclareFunction ==
  /\ Todo("FUNCTION_DECLARATION")
  /\ LET node == Head(agenda).node
     IN  Goes(CheckFunction(ctx, node),
              IF node.state = "def" THEN <<Check(node.body), Exit>> ELSE << >>)

DeclareLabel == Todo("LABEL_DECLARATION") /\ Goes(CheckLabel(ctx, Head(agenda).node), << >>)

OpenBlock ==
  /\ Todo("BLOCK")
  /\ Goes(EnterScope(Valid(ctx, "VOID", ""), "BLOCK"), Append(Checks(Head(agenda).node.kids), Exit))

(* if, and DO, whose body gets a scope of its own kind; a body that is a    *)
(* block opens a second one.                                               *)
Branch(type, level) ==
  /\ Todo(type)
  /\ LET kids == Head(agenda).node.kids
     IN  Goes(CheckCondition(ctx, kids[1]),
              <<Enter(level), Check(kids[2]), Exit>>
                \o IF Len(kids) = 3 THEN <<Enter("BLOCK"), Check(kids[3]), Exit>> ELSE << >>)

Assign ==
  \E type \in {"ASSIGNMENT", "COMPOUND_ASSIGNMENT"} :
    Todo(type) /\ Goes(CheckAssignment(ctx, Head(agenda).node), << >>)

Return == Todo("RETURN") /\ Goes(CheckReturn(ctx, Head(agenda).node), << >>)

(* Any other statement is an expression, or is not looked at.  An invalid   *)
(* one counts as an error wherever it stands.                              *)
Evaluate ==
  /\ agenda # << >> /\ Head(agenda).do = "check"
  /\ Head(agenda).node.type \notin {"VARIABLE_DECLARATION", "FUNCTION_DECLARATION",
       "LABEL_DECLARATION", "BLOCK", "IF_STATEMENT", "DO_LOOP", "ASSIGNMENT",
       "COMPOUND_ASSIGNMENT", "RETURN"}
  /\ LET d == CheckType(ctx, Head(agenda).node)
     IN  Goes([d EXCEPT !.hasErrors = @ \/ (~d.res.valid /\ Head(agenda).node.type # "FUNCTION_CALL")],
              << >>)

EnterBody ==
  /\ agenda # << >> /\ Head(agenda).do = "enter"
  /\ Goes(EnterScope(Valid(ctx, "VOID", ""), Head(agenda).level), << >>)

LeaveScope ==
  /\ agenda # << >> /\ Head(agenda).do = "exit"
  /\ Goes(ExitScope(Valid(ctx, "VOID", "")), << >>)

(* final_verification: the functions that are used without a body, and a    *)
(* program without a main.                                                 *)
Verify ==
  /\ agenda = << >> /\ analyzing
  /\ LET globals == ctx.scopes[1].symbols
         functions == {i \in DOMAIN globals : globals[i].type = "FUNCTION"}
         undefined == {i \in functions : globals[i].used /\ ~globals[i].hasBody}
         mains     == {i \in functions : globals[i].name = "main" /\ globals[i].hasBody}
         errors    == Cardinality(undefined)
                        + (IF (mains = {} /\ ~extraWarnings) \/ Cardinality(mains) > 1 THEN 1 ELSE 0)
     IN  ctx' = [ctx EXCEPT !.errors = @ + errors, !.hasErrors = @ \/ errors > 0]
  /\ analyzing' = FALSE
  /\ UNCHANGED <<source, extraWarnings, file, agenda>>

Analyzed == ~analyzing /\ (file = Len(source) \/ ctx.errors > 0)

Terminating == Analyzed /\ UNCHANGED semVars

Next ==
  \/ Analyze \/ Declare \/ DeclareFunction \/ DeclareLabel \/ OpenBlock
  \/ Branch("IF_STATEMENT", "BLOCK") \/ Branch("DO_LOOP", "LOOP")
  \/ Assign \/ Return \/ Evaluate \/ EnterBody \/ LeaveScope
  \/ Verify \/ Terminating

Spec == Init /\ [][Next]_semVars
=============================================================================
