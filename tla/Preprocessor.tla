--------------------------- MODULE Preprocessor ----------------------------
(***************************************************************************)
(* The preprocessor of the compiler: src/preprocessor/preprocessor.c and   *)
(* its directives, over a small file system.                               *)
(*                                                                         *)
(* It preprocesses a list of translation units one after the other, as     *)
(* main.c does.  A unit runs as a stack of activations of process_buffer:  *)
(* #include and #using read another file from inside the handler of a      *)
(* directive, on the same output, macro table and conditional stack.       *)
(*                                                                         *)
(* A file is a sequence of lines, a line an operation with arguments; text *)
(* is a sequence of tokens, a path a sequence of components.  Every        *)
(* directive is executed wherever it stands: only the output is            *)
(* suppressed in a skipped block.  As in Conditional, an operator that     *)
(* precedes a definition as a variant of it (IncludeUnregistered,          *)
(* ReturnUnregistering) is a mutant.                                       *)
(***************************************************************************)
EXTENDS Conditional, Macros

CONSTANTS
  Outcome(_, _),  (* What evaluate_if_expression makes of a condition,     *)
                  (* given the macro table: see IfExpression.              *)
  Calls,        (* The calls of the compiler considered: the units given   *)
                (* to it, in order, and the files, path |-> lines.         *)
  LibraryDirs,  (* Where #using looks after the current directories.       *)
  Builtins,     (* The macro table builtin_macros_init leaves.             *)
  MaxNesting    (* Bound of the model: buffers being processed at once.    *)

ASSUME NestingAssumption == MaxNesting \in Nat \ {0}

(* A path and the arguments of a line are sequences of words. *)
Texts == Seq(STRING)

ASSUME LibraryAssumption == LibraryDirs \in Seq(Texts)

ASSUME BuiltinsAssumption ==
  /\ IsFiniteSet(DOMAIN Builtins) /\ DOMAIN Builtins \subseteq Names
  /\ \A m \in DOMAIN Builtins : Builtins[m] \in Macro

VARIABLES
  files,     (* The file system: canonical path |-> lines; never changes.  *)
  units,     (* The paths given to the compiler; never changes.            *)
  unit,      (* The number of the unit being preprocessed, or next.        *)
  active,    (* The activations of process_buffer, the running one last.   *)
  included,  (* included_files: the registry of include.c, a static that   *)
             (* outlives the unit.                                         *)
  output,    (* The text written for the unit.                             *)
  results    (* History: output and kinds of errors of the finished units. *)

fileVars == <<files, units, unit, included, output, results>>

vars == <<condVars, macros, active, fileVars>>

-----------------------------------------------------------------------------
(* Files *)

(* The file a path leads to: a "." stays where it is, a ".." takes the    *)
(* previous component back.                                                *)
Canonical(path) ==
  FoldLeft(LAMBDA dir, component :
             IF component = "." THEN dir
             ELSE IF component = ".." /\ dir # << >> THEN Front(dir)
             ELSE Append(dir, component),
           << >>, path)

(* main.c goes on to preprocess only the files it could read. *)
ASSUME CallsAssumption ==
  \A call \in Calls :
    /\ call.units \in Seq(Texts)
    /\ \A i \in DOMAIN call.units : Canonical(call.units[i]) \in DOMAIN call.files
    /\ \A path \in DOMAIN call.files :
         call.files[path] \in Seq([op : STRING, args : Texts])

(* A #define without a name is "malformed". *)
ASSUME DefinitionsAssumption ==
  \A call \in Calls : \A path \in DOMAIN call.files : \A i \in DOMAIN call.files[path] :
    LET line == call.files[path][i]
    IN line.op \in {"define", "define()"} =>
         line.args \in Seq(Tokens) /\ line.args # << >> /\ Head(line.args) \in Names

Exists(path) == Canonical(path) \in DOMAIN files

Lines(path) == files[Canonical(path)]

(* build_full_path: the directory of the including file unless that is the *)
(* current one, however it is written, then the path as it is spelled.     *)
FullPath(base, relative) ==
  IF Head(relative) = "/" \/ Front(base) = <<".">> THEN relative ELSE Front(base) \o relative

(* find_library_file: the first of the places to look that has the file;   *)
(* << >> if there is none.                                                 *)
LibraryPath(base, name) ==
  LET places == <<FullPath(base, name), name>>
                  \o [i \in DOMAIN LibraryDirs |-> LibraryDirs[i] \o name]
      found == SelectInSeq(places, Exists)
  IN IF found = 0 THEN << >> ELSE places[found]

-----------------------------------------------------------------------------
(* The line being read *)

Current == active[Len(active)]

AtEnd == Current.next > Len(Lines(Current.path))

Line == Lines(Current.path)[Current.next]

Reading(op) == active # << >> /\ ~AtEnd /\ Line.op = op

NextLine == [active EXCEPT ![Len(active)].next = @ + 1]

(* Once the line's handler returns the line is behind. *)
LineDone == active' = NextLine

(* The errors reported outside the conditionals. *)
DirectiveErrors == {"undefining undefined macro", "error directive",
                    "unknown directive", "malformed directive",
                    "file not found"}

Complain(kind) == errors' = errors \union {kind} /\ UNCHANGED <<stack, capacity>>

(* #ifdef looks up the rest of its line as it is, a trailing blank and all *)
(* (DPPF__ifdef, DPPF__ifndef).                                             *)
IsDefined(args) == Len(args) = 1 /\ args[1] \in DOMAIN macros

-----------------------------------------------------------------------------
(* Actions *)

Init ==
  /\ CondInit
  /\ macros = Builtins
  /\ \E call \in Calls : files = call.files /\ units = call.units
  /\ unit = 1
  /\ active = << >>
  /\ included = {}
  /\ output = << >>
  /\ results = << >>

(* preprocess, up to its call of process_buffer: a fresh state, but the    *)
(* registry as it is.  The model counts the errors of each unit by         *)
(* themselves; the error list of the program keeps those of earlier units  *)
(* (Driver).                                                               *)
StartUnit ==
  /\ active = << >>
  /\ unit <= Len(units)
  /\ active' = <<[path |-> units[unit], next |-> 1]>>
  /\ stack' = << >>
  /\ capacity' = InitialCapacity
  /\ errors' = {}
  /\ macros' = Builtins
  /\ output' = << >>
  /\ UNCHANGED <<files, units, unit, included, results>>

(* Text is copied, its identifiers replaced, where the conditionals allow  *)
(* (process_identifier, add_string_to_output).                             *)
ReadText ==
  /\ Reading("text")
  /\ LineDone
  /\ output' = IF ShouldOutput THEN output \o ExpandedText(macros, Line.args) ELSE output
  /\ UNCHANGED <<condVars, macros, files, units, unit, included, results>>

ReadConditional ==
  /\ \/ Reading("if") /\ If(Outcome(macros, Line.args))
     \/ Reading("ifdef") /\ Ifdef(IsDefined(Line.args))
     \/ Reading("ifndef") /\ Ifdef(~IsDefined(Line.args))
     \/ Reading("elif") /\ Elif(Outcome(macros, Line.args))
     \/ Reading("else") /\ Else
     \/ Reading("endif") /\ Endif
  /\ LineDone
  /\ UNCHANGED <<macros, fileVars>>

ReadDefine ==
  /\ \/ Reading("define") /\ Define(Head(Line.args), FALSE, Tail(Line.args))
     \/ Reading("define()") /\ Define(Head(Line.args), TRUE, Tail(Line.args))
  /\ LineDone
  /\ UNCHANGED <<condVars, fileVars>>

ReadUndef ==
  /\ Reading("undef")
  /\ LET name == Head(Line.args)
     IN \/ name \in DOMAIN macros /\ Undefine(name) /\ UNCHANGED condVars
        \/ /\ name \notin DOMAIN macros
           /\ Complain("undefining undefined macro")
           /\ UNCHANGED macros
  /\ LineDone
  /\ UNCHANGED fileVars

(* A directive that only reports: #error, one that does not exist, and a   *)
(* #define, #undef, #include or #using whose arguments its parser refuses. *)
ReadError ==
  /\ \/ Reading("error") /\ Complain("error directive")
     \/ Reading("malformed") /\ Complain("malformed directive")
     \/ Reading("unknown") /\ Complain("unknown directive")
  /\ LineDone
  /\ UNCHANGED <<macros, fileVars>>

IncludeUnregistered(path) ==
  \/ ~Exists(path) /\ Complain("file not found") /\ LineDone /\ UNCHANGED included
  \/ /\ Exists(path)
     /\ Lines(path) = << >>
     /\ LineDone
     /\ UNCHANGED <<condVars, included>>
  \/ /\ Exists(path)
     /\ Lines(path) # << >>
     /\ Len(active) < MaxNesting
     /\ active' = Append(NextLine, [path |-> path, next |-> 1])
     /\ UNCHANGED <<condVars, included>>

IncludeAgain(path) ==
  \/ /\ path \in included
     /\ UNCHANGED <<condVars, active, included>>
  \/ /\ path \notin included
     /\ ~Exists(path)
     /\ Complain("file not found")
     /\ LineDone
     /\ UNCHANGED included
  \/ /\ path \notin included
     /\ Exists(path)
     /\ included' = included \union {path}
     /\ active' = Append(NextLine, [path |-> path, next |-> 1])
     /\ UNCHANGED condVars

(* include_file, and its caller's look at the registry: the file is        *)
(* registered, then processed as a buffer of its own before the directive  *)
(* is done.  An empty file is neither registered nor processed.            *)
Include(path) ==
  \/ /\ path \in included
     /\ LineDone
     /\ UNCHANGED <<condVars, included>>
  \/ /\ path \notin included
     /\ ~Exists(path)
     /\ Complain("file not found")
     /\ LineDone
     /\ UNCHANGED included
  \/ /\ path \notin included
     /\ Exists(path)
     /\ Lines(path) = << >>
     /\ LineDone
     /\ UNCHANGED <<condVars, included>>
  \/ /\ path \notin included
     /\ Exists(path)
     /\ Lines(path) # << >>
     /\ Len(active) < MaxNesting
     /\ included' = included \union {path}
     /\ active' = Append(NextLine, [path |-> path, next |-> 1])
     /\ UNCHANGED condVars

ReadInclude ==
  /\ \/ /\ Reading("include")
        /\ \E path \in {FullPath(Current.path, Line.args)} : Include(path)
     \/ /\ Reading("using")
        /\ \E path \in {LibraryPath(Current.path, Line.args)} : Include(path)
  /\ UNCHANGED <<macros, files, units, unit, output, results>>

ReturnUnregistering ==
  /\ Len(active) > 1
  /\ AtEnd
  /\ active' = Front(active)
  /\ included' = included \ {Current.path}
  /\ UNCHANGED <<condVars, macros, files, units, unit, output, results>>

(* The end of process_buffer for an included file: the context saved at    *)
(* its start comes back, the conditional stack stays as the file left it.  *)
Return ==
  /\ Len(active) > 1
  /\ AtEnd
  /\ active' = Front(active)
  /\ UNCHANGED <<condVars, macros, fileVars>>

FinishUnitKeepingRegistry ==
  /\ Len(active) = 1
  /\ AtEnd
  /\ active' = << >>
  /\ unit' = unit + 1
  /\ results' = Append(results, [output |-> output, errors |-> errors])
  /\ UNCHANGED <<condVars, macros, files, units, included, output>>

(* The rest of preprocess, with free_included_registry. *)
FinishUnit ==
  /\ Len(active) = 1
  /\ AtEnd
  /\ active' = << >>
  /\ unit' = unit + 1
  /\ included' = {}
  /\ results' = Append(results, [output |-> output, errors |-> errors])
  /\ UNCHANGED <<condVars, macros, files, units, output>>

Finished == unit > Len(units) /\ UNCHANGED vars

Step ==
  \/ StartUnit
  \/ ReadText
  \/ ReadConditional
  \/ ReadDefine
  \/ ReadUndef
  \/ ReadError
  \/ ReadInclude
  \/ Return
  \/ FinishUnit

Next == Step \/ Finished

Spec == Init /\ [][Next]_vars

(* The program is sequential: it does not stop by itself before its end. *)
FairSpec == Spec /\ WF_vars(Step)

-----------------------------------------------------------------------------
(* Properties *)

(* Nothing is written unless every open group, in the including files as   *)
(* well as in the included one, has its branch selected: add_to_output     *)
(* asks about the innermost frame only, and a file included inside a       *)
(* skipped block is processed all the same.                                *)
EmitOnlyWhenAllLive ==
  [][active # << >> /\ active' # << >> /\ output' # output
       => \A k \in DOMAIN stack : ~stack[k].skip]_vars

(* Expanding the end of a replacement text stops only for a reason: it     *)
(* goes on along a chain of macros until the name being defined or a macro *)
(* already on the expanding stack is met again, or that stack holds        *)
(* MaxExpansionDepth names (expand_macros_in_text).  The builtin macros,   *)
(* which are entered as they are, begin each unit.                         *)
StopsOnCycleOrDepth == [][active # << >> => ChainsEnd]_vars

(* The lines of these kinds among the first n. *)
Of(lines, n, kinds) == {i \in 1 .. n : lines[i].op \in kinds}

Openers == {"if", "ifdef", "ifndef"}

OpenAfter(lines, n) ==
  Cardinality(Of(lines, n, Openers)) - Cardinality(Of(lines, n, {"endif"}))

Balanced(lines) ==
  /\ OpenAfter(lines, Len(lines)) = 0
  /\ \A n \in 1 .. Len(lines) : OpenAfter(lines, n) >= 0

(* The lines of these kinds that have been read of the active buffers. *)
LinesRead(kinds) ==
  UNION {{k} \X Of(Lines(active[k].path), active[k].next - 1, kinds) : k \in DOMAIN active}

(* The conditional stack is shared by all buffers and process_buffer does  *)
(* not save it.  As long as every file closes the groups it opens, and     *)
(* only those, its depth is nevertheless the number of groups that the     *)
(* text read so far of the active buffers has open: no file sees or closes *)
(* a group of another.                                                     *)
DepthFollowsText ==
  LET open == Cardinality(LinesRead(Openers)) - Cardinality(LinesRead({"endif"}))
  IN active # << >> /\ Len(stack) # open =>
       \E path \in DOMAIN files : ~Balanced(files[path])

(* The registry of include.c: what is being included is registered, and    *)
(* no two of the included buffers have the same path.  The unit itself, at *)
(* the bottom, is not registered and may be among them once more.          *)
RegistryGuards ==
  /\ \A i \in 2 .. Len(active) : active[i].path \in included
  /\ \A i, j \in 2 .. Len(active) : active[i].path = active[j].path => i = j

(* A path is processed at most once for a unit: it is registered before    *)
(* its text is processed, and forgotten only when the unit is finished     *)
(* (include_file, add_included_file, free_included_registry).              *)
OncePerUnit ==
  [][/\ unit' = unit => included \subseteq included'
     /\ (active # << >> /\ Len(active') > Len(active))
          => Last(active').path \in included' \ included]_vars

(* What a unit preprocesses to depends on the unit, not on the units       *)
(* before it: nothing is left in the registry, the macro table or the      *)
(* conditional stack (preprocess).                                         *)
UnitsIndependent ==
  \A i, j \in DOMAIN results : units[i] = units[j] => results[i] = results[j]

(* Preprocessing ends: files that include one another are not read over    *)
(* and over, while every spelling of a path that can be reached is one of  *)
(* finitely many (is_file_included).                                       *)
Termination == <>(unit > Len(units))

(* What the comment on include_file says registering the file is for: no   *)
(* file is included while it is being processed.                           *)
NoCyclicInclusion ==
  \A i, j \in DOMAIN active :
    Canonical(active[i].path) = Canonical(active[j].path) => i = j
=============================================================================
