---------------------------------- MODULE Ir ----------------------------------
(***************************************************************************)
(* Generation of the intermediate representation, src/ir/ir.c: when a file *)
(* has been analyzed without an error, its functions are converted to      *)
(* basic blocks of instructions, one after another.                        *)
(*                                                                         *)
(* The IrBuilder is a record b; a visiting function is an operator from    *)
(* the builder before to the builder after, whose field "res" holds the    *)
(* IrValue that is returned, NoValue for NULL.  A block is known by its    *)
(* place in all_blocks, a temporary by its function and its number: the   *)
(* code compares values by their address.                                  *)
(*                                                                         *)
(* Left out: types of values, the text of labels, failures of the          *)
(* allocator, calls, which the analysis rejects, and ternary operators,    *)
(* which do not parse.                                                     *)
(***************************************************************************)
EXTENDS Scoping

VARIABLES
  generated,  (* For how many files there has been a module.               *)
  pending,    (* The functions of the file still to be converted.          *)
  builder,    (* IrBuilder                                                 *)
  module      (* The functions of the IrModule of the file.                *)

irVars == <<generated, pending, builder, module>>

-----------------------------------------------------------------------------
(* Values and instructions *)

NoValue == << >>
Const(text) == <<"const", text>>
Param(i) == <<"param", i>>
FieldIndex == <<"field">>

Builder ==
  [function |-> 0, blocks |-> << >>, current |-> 0, temps |-> 0, locals |-> << >>,
   errors |-> 0, res |-> NoValue]

Gives(b, value) == [b EXCEPT !.res = value]

IrError(b) == [Gives(b, Const("0")) EXCEPT !.errors = @ + 1]

Temp(b) == Gives([b EXCEPT !.temps = @ + 1], <<"temp", b.function, b.temps>>)

Emit(b, op, res, op1, op2) ==
  [b EXCEPT !.blocks[b.current].insts =
     Append(@, [op |-> op, res |-> res, op1 |-> op1, op2 |-> op2, targets |-> << >>])]

(* An instruction whose result is a new temporary. *)
EmitTemp(b, op, op1, op2) == Emit(Temp(b), op, Temp(b).res, op1, op2)

Store(b, ptr, value) == Emit(b, "STORE", NoValue, ptr, value)

-----------------------------------------------------------------------------
(* Blocks *)

CreateBlock(b, label) ==
  [b EXCEPT !.blocks = Append(@, [label |-> label, insts |-> << >>,
                                  successors |-> << >>, predecessors |-> << >>])]

SetBlock(b, block) == [b EXCEPT !.current = block]

LinkOneWay(b, from, to) == [b EXCEPT !.blocks[from].successors = Append(@, to)]

LinkBlocks(b, from, to) ==
  [b EXCEPT !.blocks[from].successors = Append(@, to), !.blocks[to].predecessors = Append(@, from)]

(* The target of a branch is known to the instruction by its label only,   *)
(* which other blocks may share; the blocks it goes to are successors.     *)
EmitBr(b, target) ==
  LinkBlocks(Emit(b, "BR", NoValue, <<"label", b.blocks[target].label>>, NoValue), b.current, target)

EmitBrcond(b, cond, true, false) ==
  LET emitted == Emit(b, "BRCOND", NoValue, cond, <<"label", b.blocks[true].label>>)
      insts   == emitted.blocks[b.current].insts
      branch  == [emitted EXCEPT !.blocks[b.current].insts[Len(insts)].targets = <<true, false>>]
  IN  LinkBlocks(LinkBlocks(branch, b.current, true), b.current, false)

-----------------------------------------------------------------------------
(* The table of locals.  It is the builder's, not the function's, and flat: *)
(* a name stands for its last declaration visited, in whatever scope or    *)
(* function that was.                                                      *)

SetLocalOnce(b, name, ptr) == [b EXCEPT !.locals = @ @@ (name :> ptr)]

SetLocal(b, name, ptr) == [b EXCEPT !.locals = (name :> ptr) @@ @]

NewLocal(b, name) ==
  LET made == EmitTemp(b, "ALLOCA", NoValue, NoValue) IN SetLocal(made, name, made.res)

-----------------------------------------------------------------------------
(* Expressions *)

LiteralToValue(text) == Const(IF KindOf(text) = "TOKEN_NUMBER" THEN text ELSE "0")

LoadVariable(b, name) ==
  IF name \in DOMAIN b.locals THEN EmitTemp(b, "LOAD", b.locals[name], NoValue) ELSE IrError(b)

(* The opcode: of operators that are not in the table it is IR_ADD.         *)
Opcodes ==
  ("+" :> "ADD") @@ ("-" :> "SUB") @@ ("*" :> "MUL") @@ ("/" :> "DIV") @@ ("%" :> "MOD")
    @@ ("&" :> "AND") @@ ("|" :> "OR") @@ ("^" :> "XOR") @@ ("<<" :> "SHL") @@ (">>" :> "SHR")

MapBinaryOp(op) == IF op \in DOMAIN Opcodes THEN Opcodes[op] ELSE "ADD"

(* The field that is looked at is always the first. *)
FieldPointer(b) == EmitTemp(b, "GEP", b.res, FieldIndex)

(* The value v has been visited; an operator applied to a variable stores   *)
(* the value alone.                                                        *)
StoreTo(v, target, base) ==
  CASE target.type = "IDENTIFIER" ->
         IF target.val \in DOMAIN v.locals THEN Store(v, v.locals[target.val], v.res)
         ELSE Gives(IrError(v), v.res)
    [] target.type = "FIELD_ACCESS" ->
         IF base.res = NoValue THEN base
         ELSE LET field == FieldPointer(base) IN Gives(Store(field, field.res, v.res), v.res)
    [] OTHER -> Gives(IrError(v), v.res)

(* The elements of an initializer, the first of which is visited twice.     *)
StoreElement(v, array, i) ==
  IF v.res = NoValue THEN v
  ELSE LET place == EmitTemp(v, "GEP", array, Const(ToString(i - 1))) IN Store(place, place.res, v.res)

(* ir_visit_expr.  The operand of a unary operator is the right child: the  *)
(* left, which is looked at, is not there.                                 *)
RECURSIVE VisitExpr(_, _)
VisitExpr(b, node) ==
  LET kids  == node.kids
      first == VisitExpr(b, kids[1])
      second == VisitExpr(first, kids[2])
      value == VisitExpr(b, kids[2])
      array == EmitTemp(first, "ALLOCA", NoValue, NoValue)
      field == FieldPointer(first)
      IfFirst(rest) == IF first.res = NoValue THEN first ELSE rest
  IN  CASE node.type = "LITERAL_VALUE" -> Gives(b, LiteralToValue(node.val))
        [] node.type = "IDENTIFIER" -> LoadVariable(b, node.val)
        [] node.type = "BINARY_OPERATION" ->
             IF NoValue \in {first.res, second.res} THEN Gives(second, NoValue)
             ELSE EmitTemp(second, MapBinaryOp(node.val), first.res, second.res)
        [] node.type = "UNARY_OPERATION" -> Gives(b, NoValue)
        [] node.type \in {"ASSIGNMENT", "COMPOUND_ASSIGNMENT"} ->
             IF value.res = NoValue THEN value
             ELSE StoreTo(value, kids[1], VisitExpr(value, kids[1].kids[1]))
        [] node.type = "FIELD_ACCESS" -> IfFirst(EmitTemp(field, "LOAD", field.res, NoValue))
        [] node.type = "CAST" -> IfFirst(EmitTemp(first, "CAST", first.res, NoValue))
        [] node.type = "MULTI_INITIALIZER" ->
             IF kids = << >> THEN Gives(b, Const("0"))
             ELSE Gives(FoldLeft(LAMBDA c, i : StoreElement(VisitExpr(c, kids[i]), array.res, i),
                                 array, [i \in DOMAIN kids |-> i]),
                        array.res)
        [] OTHER -> IrError(b)

-----------------------------------------------------------------------------
(* Statements *)

(* ir_visit_stmt.  A condition without a value takes an if away with all    *)
(* that is in it; the else of a loop is not looked at.                     *)
RECURSIVE VisitStmt(_, _)
VisitStmt(b, node) ==
  LET kids  == node.kids
      n     == Len(b.blocks)
      cond  == VisitExpr(b, kids[1])
      local == NewLocal(b, node.val)
      init  == VisitExpr(local, node.init)
      else  == Len(kids) = 3
      at    == Len(cond.blocks)
      merge == IF else THEN at + 3 ELSE at + 2
      made  == FoldLeft(CreateBlock, cond,
                        IF else THEN <<"if.then", "if.else", "if.end">> ELSE <<"if.then", "if.end">>)
      then  == VisitStmt(SetBlock(EmitBrcond(made, cond.res, at + 1, at + 2), at + 1), kids[2])
      other == VisitStmt(SetBlock(EmitBr(then, merge), at + 2), kids[3])
      loop  == EmitBr(FoldLeft(CreateBlock, b, <<"do.header", "do.body", "do.end">>), n + 1)
      again == VisitExpr(SetBlock(loop, n + 1), kids[1])
      body  == VisitStmt(SetBlock(EmitBrcond(again, again.res, n + 2, n + 3), n + 2), kids[2])
  IN  CASE node.type = "VARIABLE_DECLARATION" ->
             IF node.val = "" THEN b
             ELSE IF node.init = Null THEN local
             ELSE IF init.res = NoValue THEN init ELSE Store(init, local.res, init.res)
        [] node.type = "BLOCK" -> FoldLeft(LAMBDA c, kid : VisitStmt(c, kid), b, kids)
        [] node.type = "IF_STATEMENT" ->
             IF cond.res = NoValue THEN cond
             ELSE SetBlock(EmitBr(IF else THEN other ELSE then, merge), merge)
        [] node.type = "DO_LOOP" -> SetBlock(EmitBr(body, n + 1), n + 3)
        [] node.type = "RETURN" ->
             IF kids = << >> THEN Emit(b, "RET", NoValue, NoValue, NoValue)
             ELSE Emit(cond, "RET", NoValue, cond.res, NoValue)
        [] node.type = "LABEL_DECLARATION" -> SetBlock(CreateBlock(b, node.val), n + 1)
        [] node.type = "NOP" -> Emit(b, "NOP", NoValue, NoValue, NoValue)
        [] OTHER -> VisitExpr(b, node)

-----------------------------------------------------------------------------
(* Functions *)

StartFunction(b) ==
  SetBlock(CreateBlock([b EXCEPT !.function = @ + 1, !.blocks = << >>, !.temps = 0], "entry"), 1)

(* A parameter without a name goes by that of its type.                    *)
AddParameter(b, param, i) ==
  LET made == EmitTemp(b, "ALLOCA", NoValue, NoValue)
  IN  IF param.val = "" THEN b
      ELSE SetLocal(Store(made, made.res, Param(i)), param.val, made.res)

AddParams(b, params) ==
  FoldLeft(LAMBDA c, i : AddParameter(c, params[i], i), b, [i \in DOMAIN params |-> i])

(* Only the last block is closed, and only if something is in it.           *)
Finish(b) ==
  LET insts == b.blocks[b.current].insts
  IN  IF insts = << >> \/ Last(insts).op \in {"RET", "BR", "BRCOND"} THEN b
      ELSE Emit(b, "RET", NoValue, NoValue, NoValue)

(* ir_convert_function *)
Convert(b, node) ==
  LET begun == AddParams(StartFunction(b), node.kids)
  IN  Finish(IF node.body = Null THEN begun ELSE VisitStmt(begun, node.body))

Definitions(tree) ==
  SelectSeq(tree, LAMBDA node : node.type = "FUNCTION_DECLARATION" /\ node.state = "def")

-----------------------------------------------------------------------------
(* Actions *)

CompileInit ==
  /\ Init
  /\ generated = 0 /\ pending = << >> /\ builder = Builder /\ module = << >>

(* ir__generate_module: the file has been analyzed, without an error.       *)
GenerateModule ==
  /\ ~analyzing /\ ctx.errors = 0 /\ generated < file
  /\ generated' = file
  /\ pending' = Definitions(TreeOf(source[file]))
  /\ builder' = Builder
  /\ module' = << >>
  /\ UNCHANGED semVars

ConvertFunction ==
  /\ pending # << >>
  /\ builder' = Convert(builder, Head(pending))
  /\ module' = Append(module, [params |-> Len(Head(pending).kids), blocks |-> builder'.blocks])
  /\ pending' = Tail(pending)
  /\ UNCHANGED <<semVars, generated>>

(* The analysis of a file begins when the one before is converted.          *)
AnalysisStep ==
  /\ analyzing \/ ctx.errors > 0 \/ (generated = file /\ pending = << >> /\ builder.errors = 0)
  /\ Next
  /\ UNCHANGED irVars

Stopped == pending = << >> /\ builder.errors > 0 /\ UNCHANGED <<semVars, irVars>>

CompileNext == AnalysisStep \/ GenerateModule \/ ConvertFunction \/ Stopped

CompileSpec == CompileInit /\ [][CompileNext]_<<semVars, irVars>>

-----------------------------------------------------------------------------
(* What functions compute, by their trees and by their instructions.  A     *)
(* number is its text, an argument or a variable without a value is itself, *)
(* a cast marks what is cast; zero is false.                               *)

Number(text) == <<text>>
Argument(i) == <<"argument", i>>
Unset == <<"unset">>
NoResult == <<"none">>
CastOf(value) == Append(value, "cast")

Truth(value) == value[1] # "0"

Fuel == 5  (* How many iterations, or jumps of blocks, are looked at: the   *)
           (* conditions of a loop that ends within them do so at once.    *)

(* The functions considered are those whose statements mean something to    *)
(* the generator: assignments, branches and loops over variables that are   *)
(* declared once, with no operator.                                        *)
RECURSIVE Plain(_), Structured(_), Declared(_), Used(_)
IsNumber(node) == node.type = "LITERAL_VALUE" /\ KindOf(node.val) = "TOKEN_NUMBER"

Plain(node) ==
  \/ node.type = "IDENTIFIER" \/ IsNumber(node)
  \/ node.type = "CAST" /\ Plain(node.kids[1])

Structured(node) ==
  LET kids == node.kids
  IN  CASE node.type = "VARIABLE_DECLARATION" ->
             node.state = "def" /\ node.val # "" /\ (node.init = Null \/ Plain(node.init))
        [] node.type = "ASSIGNMENT" -> kids[1].type = "IDENTIFIER" /\ Plain(kids[2])
        [] node.type = "BLOCK" -> \A i \in DOMAIN kids : Structured(kids[i])
        [] node.type = "IF_STATEMENT" -> Plain(kids[1]) /\ \A i \in 2..Len(kids) : Structured(kids[i])
        [] node.type = "DO_LOOP" -> Len(kids) = 2 /\ Plain(kids[1]) /\ Structured(kids[2])
        [] node.type = "RETURN" -> kids # << >> => Plain(kids[1])
        [] node.type = "NOP" -> TRUE
        [] OTHER -> Plain(node)

(* The names that are declared in a structured statement, in order, and     *)
(* those that are used.                                                    *)
Declared(node) ==
  CASE node.type = "VARIABLE_DECLARATION" -> <<node.val>>
    [] node.type \in {"BLOCK", "IF_STATEMENT", "DO_LOOP"} ->
         FlattenSeq([i \in DOMAIN node.kids |-> Declared(node.kids[i])])
    [] OTHER -> << >>

Used(node) ==
  CASE node.type = "IDENTIFIER" -> {node.val}
    [] node.type = "VARIABLE_DECLARATION" -> Used(node.init)
    [] node.type = "CAST" -> Used(node.kids[1])
    [] OTHER -> UNION {Used(node.kids[i]) : i \in DOMAIN node.kids}

ParamNames(node) == [i \in DOMAIN node.kids |-> node.kids[i].val]

(* Every name in the function is that of one variable, its own.            *)
Considered(node, tree) ==
  LET names == ParamNames(node) \o Declared(node.body)
  IN  /\ node.body # Null /\ Structured(node.body)
      /\ IsInjective(names)
      /\ Used(node.body) \cap {tree[i].val : i \in DOMAIN tree} = {}

(* By the tree.  The state is [vars, returned, result, fuel].              *)
RECURSIVE ValueOf(_, _), Execute(_, _)
ValueOf(node, vars) ==
  CASE node.type = "IDENTIFIER" -> vars[node.val]
    [] node.type = "CAST" -> CastOf(ValueOf(node.kids[1], vars))
    [] OTHER -> Number(node.val)

SetVar(s, name, node) ==
  [s EXCEPT !.vars = (name :> (IF node = Null THEN Unset ELSE ValueOf(node, s.vars))) @@ @]

Execute(s, node) ==
  LET kids  == node.kids
      holds == Truth(ValueOf(kids[1], s.vars))
  IN  CASE s.returned \/ s.fuel = 0 -> s
        [] OTHER ->
           CASE node.type = "VARIABLE_DECLARATION" -> SetVar(s, node.val, node.init)
             [] node.type = "ASSIGNMENT" -> SetVar(s, kids[1].val, kids[2])
             [] node.type = "BLOCK" -> FoldLeft(LAMBDA t, kid : Execute(t, kid), s, kids)
             [] node.type = "IF_STATEMENT" ->
                  IF holds THEN Execute(s, kids[2])
                  ELSE IF Len(kids) = 3 THEN Execute(s, kids[3]) ELSE s
             [] node.type = "DO_LOOP" ->
                  IF holds THEN Execute(Execute([s EXCEPT !.fuel = @ - 1], kids[2]), node) ELSE s
             [] node.type = "RETURN" ->
                  [s EXCEPT !.returned = TRUE,
                            !.result = IF kids = << >> THEN NoResult ELSE ValueOf(kids[1], s.vars)]
             [] OTHER -> s

ByTree(node, args) ==
  LET names == ParamNames(node)
      start == [name \in Range(names) |-> args[CHOOSE i \in DOMAIN names : names[i] = name]]
      end   == Execute([vars |-> start, returned |-> FALSE, result |-> NoResult, fuel |-> Fuel], node.body)
  IN  [ended |-> end.fuel > 0, result |-> end.result]

(* By the blocks: the instructions of one up to the first that leaves it.   *)
(* A value that is not one of this function, or not yet, is wild.          *)
Wild == <<"wild">>

Operand(s, value, args) ==
  CASE value[1] = "const" -> Number(value[2])
    [] value[1] = "param" -> args[value[2]]
    [] OTHER -> IF value \in DOMAIN s.cells THEN s.cells[value] ELSE Wild

Executed(s, inst, block, args) ==
  LET Cell(name, value) == [s EXCEPT !.cells = (name :> value) @@ @]
      Leave(next) == [s EXCEPT !.left = TRUE, !.next = next]
  IN  CASE s.left -> s
        [] ~s.left /\ inst.op = "ALLOCA" -> Cell(inst.res, Unset)
        [] ~s.left /\ inst.op = "STORE" ->
             IF inst.op1 \in DOMAIN s.cells THEN Cell(inst.op1, Operand(s, inst.op2, args)) ELSE s
        [] ~s.left /\ inst.op = "LOAD" -> Cell(inst.res, Operand(s, inst.op1, args))
        [] ~s.left /\ inst.op = "CAST" -> Cell(inst.res, CastOf(Operand(s, inst.op1, args)))
        [] ~s.left /\ inst.op = "BR" -> Leave(block.successors[1])
        [] ~s.left /\ inst.op = "BRCOND" ->
             Leave(inst.targets[IF Truth(Operand(s, inst.op1, args)) THEN 1 ELSE 2])
        [] ~s.left /\ inst.op = "RET" ->
             [Leave(0) EXCEPT !.result = IF inst.op1 = NoValue THEN NoResult
                                         ELSE Operand(s, inst.op1, args)]
        [] OTHER -> s

RECURSIVE Run(_, _, _)
Run(s, blocks, args) ==
  IF s.next = 0 \/ s.fuel = 0 THEN s
  ELSE Run(FoldLeft(LAMBDA t, inst : Executed(t, inst, blocks[s.next], args),
                    [s EXCEPT !.left = FALSE, !.next = 0, !.fuel = @ - 1], blocks[s.next].insts),
           blocks, args)

ByBlocks(blocks, args) ==
  LET end == Run([cells |-> << >>, left |-> FALSE, next |-> 1, result |-> NoResult, fuel |-> 20 * Fuel],
                 blocks, args)
  IN  [ended |-> end.next = 0, result |-> end.result]

-----------------------------------------------------------------------------
(* Properties *)

(* The edges between the blocks of a function are just its branches, those  *)
(* after a return included: a block has at most one, and it is that block's *)
(* last instruction; every temporary is the result of one instruction       *)
(* (link_blocks, ir__value_temp).                                          *)
IrTypeOK ==
  /\ generated \in 0..file /\ builder.errors \in Nat
  /\ builder.function = Len(module)
  /\ \A f \in DOMAIN module :
       LET blocks == module[f].blocks
           Branches(insts) == {k \in DOMAIN insts : insts[k].op \in {"BR", "BRCOND"}}
           Times(s, i) == Cardinality({k \in DOMAIN s : s[k] = i})
           Leads(block, inst) ==
             IF inst.op = "BRCOND" THEN block.successors = inst.targets
             ELSE Len(block.successors) = 1 /\ inst.op1[2] = blocks[block.successors[1]].label
           results == FlattenSeq([i \in DOMAIN blocks |->
                        SelectSeq([k \in DOMAIN blocks[i].insts |-> blocks[i].insts[k].res],
                                  LAMBDA v : v # NoValue)])
       IN  /\ IsInjective(results)
           /\ \A i \in DOMAIN blocks :
                LET insts == blocks[i].insts
                IN  /\ Branches(insts) = {} => blocks[i].successors = << >>
                    /\ Branches(insts) # {} => Branches(insts) = {Len(insts)} /\ Leads(blocks[i], Last(insts))
                    /\ \A j \in DOMAIN blocks :
                         Times(blocks[i].successors, j) = Times(blocks[j].predecessors, i)

(* A function of a program that is accepted returns by its instructions     *)
(* what it returns by its tree, whatever its arguments are: branches and    *)
(* loops go where they should, a return in the middle of a block ends it,   *)
(* and no variable is that of a function converted before                  *)
(* (ir_visit_stmt, ir__emit_brcond, ir__builder_set_local).                *)
ComputesSame ==
  builder.errors = 0 /\ module # << >> =>
    \E tree \in {TreeOf(source[generated])} :
      LET node == Definitions(tree)[Len(module)]
      IN  Considered(node, tree) =>
            \A zeros \in SUBSET DOMAIN node.kids :
              LET args == [i \in DOMAIN node.kids |-> IF i \in zeros THEN Number("0") ELSE Argument(i)]
                  expected == ByTree(node, args)
              IN  expected.ended => ByBlocks(Last(module).blocks, args) = expected
=============================================================================
