------------------------------- MODULE Driver -------------------------------
(***************************************************************************)
(* The driver (src/main.c: main, parse_arguments, process_one_file): the   *)
(* arguments, then every stage of the compiler for one file after the      *)
(* other, against the one global list of errors of ErrHandler.             *)
(*                                                                         *)
(* What a stage does to its input is abstracted to what the driver sees of *)
(* it: the diagnostics it reports, and whether it returned a result.       *)
(***************************************************************************)
EXTENDS ErrHandler

CONSTANTS
  Options,        (* The options given; any other argument is a file name.  *)
  LineCounts,     (* How many lines a preprocessed file has.                *)
  MaxArguments,   (* Bounds of the model: arguments on the command line,    *)
  MaxReports      (* and entries there may be before a stage reports.       *)

ASSUME OptionsAssumption == Options \cap FileNames = {}
ASSUME LineCountsAssumption == LineCounts \subseteq Nat

VARIABLES
  argv,           (* The arguments left to parse, @files expanded.          *)
  options,        (* args.flags, as the set of the options that set them    *)
  output_set,
  output_file,    (* Whether args.output_file is not NULL.                  *)
  filenames,      (* args.filenames, and the index of the current one.      *)
  file,
  stage,          (* Where the program is.                                  *)
  ir_mod,         (* Whether the module of the current file was generated.  *)
  err,            (* The local err of process_one_file.                     *)
  semantic_ctx,   (* The context, a set with how many files it has analyzed, *)
                  (* or NoContext.                                          *)
  exit_code,
  assembly        (* The sources whose .s file was written.                 *)

arguments == <<argv, options, output_set, output_file, filenames>>
results == <<ir_mod, err>>
driverVars == <<arguments, file, stage, results, semantic_ctx, exit_code, assembly>>
vars == <<errVars, driverVars>>

NoContext == {}

(* The diagnostics a stage may report by itself. *)
Diagnostics ==
  [preprocess |-> {"ERROR"}, lex |-> {"ERROR"},
   parse |-> {"ERROR"} \union (IF memory_may_fail THEN {"FATAL"} ELSE {}),
   analyze |-> {"WARNING", "ERROR"}, generate |-> {"ERROR"},
   optimize |-> {"ERROR"}]

Stages == DOMAIN Diagnostics \union
  {"arguments", "check output", "check sources", "context", "next", "read",
   "assemble", "cleanup", "recreate", "print", "exit"}

Current == filenames[file]

Init ==
  /\ ErrInit
  /\ argv \in UNION {[1 .. n -> Options \union FileNames] : n \in 0 .. MaxArguments}
  /\ options = {} /\ output_set = FALSE /\ output_file = FALSE
  /\ filenames = << >>
  /\ file = 0
  /\ stage = "arguments"
  /\ ir_mod = FALSE /\ err = FALSE
  /\ semantic_ctx = NoContext
  /\ exit_code = 0
  /\ assembly = {}

-----------------------------------------------------------------------------
(* parse_arguments *)

SetOutput ==
  /\ output_file' \in IF memory_may_fail THEN BOOLEAN ELSE {TRUE}
  /\ output_set' = TRUE
  /\ options' = options \union {"-c"}
  /\ UNCHANGED <<filenames, errVars, stage, exit_code>>

(* The first file name is that of the output, the others are sources.      *)
(* Without memory for one, the program ends and prints nothing.            *)
ParseFileName ==
  /\ Head(argv) \in FileNames
  /\ argv' = Tail(argv)
  /\ \/ ~output_set /\ SetOutput
     \/ /\ output_set
        /\ filenames' = Append(filenames, Head(argv))
        /\ UNCHANGED <<options, output_set, output_file, errVars, stage, exit_code>>
     \/ /\ output_set /\ memory_may_fail
        /\ Report("ERROR", 0)
        /\ stage' = "exit" /\ exit_code' = 1
        /\ UNCHANGED <<options, output_set, output_file, filenames>>

(* -o takes the next argument, whatever it is; without one it is ignored. *)
ParseOutput ==
  /\ Head(argv) = "-o"
  /\ IF Len(argv) > 1
     THEN SetOutput /\ argv' = Tail(Tail(argv))
     ELSE /\ argv' = << >>
          /\ UNCHANGED <<options, output_set, output_file, filenames, errVars,
                         stage, exit_code>>

(* -help and -version end the program. *)
ParseHelp ==
  /\ Head(argv) = "-help"
  /\ stage' = "exit" /\ exit_code' = 0
  /\ UNCHANGED <<argv, options, output_set, output_file, filenames, errVars>>

ParseOption ==
  /\ Head(argv) \in Options \ {"-o", "-help"}
  /\ IF Head(argv) = "-unknown"
     THEN Report("ERROR", 0) /\ UNCHANGED options
     ELSE options' = options \union {Head(argv)} /\ UNCHANGED errVars
  /\ argv' = Tail(argv)
  /\ UNCHANGED <<output_set, output_file, filenames, stage, exit_code>>

ParseArgument ==
  /\ stage = "arguments" /\ argv # << >>
  /\ ParseFileName \/ ParseOutput \/ ParseHelp \/ ParseOption
  /\ UNCHANGED <<file, results, semantic_ctx, assembly>>

-----------------------------------------------------------------------------
(* main, up to the first file.  Three tests of the arguments report; the   *)
(* first two exclude each other.                                           *)

Configure ==
  /\ stage = "arguments" /\ argv = << >>
  /\ SetFlags("-Werror" \in options, "-Wignor" \in options)
  /\ stage' = "check output"
  /\ UNCHANGED <<arrays, attribution, session, arguments, file, results,
                 semantic_ctx, exit_code, assembly>>

TooManyForAssembly ==
  "-S" \in options /\ output_file /\ Len(filenames) > 1

NoOutput ==
  options \cap {"-c", "-state"} # {} /\ ~output_file /\ "-S" \notin options

CheckOutput ==
  /\ stage = "check output"
  /\ IF TooManyForAssembly \/ NoOutput THEN Report("ERROR", 0) ELSE UNCHANGED errVars
  /\ stage' = "check sources"
  /\ UNCHANGED <<arguments, file, results, semantic_ctx, exit_code, assembly>>

CheckSources ==
  /\ stage = "check sources"
  /\ IF filenames = << >> /\ options # {} THEN Report("ERROR", 0) ELSE UNCHANGED errVars
  /\ stage' = "context"
  /\ UNCHANGED <<arguments, file, results, semantic_ctx, exit_code, assembly>>

(* With an error so far there are no stages, and the exit code, whose      *)
(* declaration is jumped over, is indeterminate.                           *)
Refuse ==
  /\ stage = "context" /\ HasErrors
  /\ PrintAll /\ FreeManager
  /\ exit_code' \in {0, 1}
  /\ stage' = "exit"
  /\ UNCHANGED <<arguments, file, results, semantic_ctx, assembly>>

(* semantic__create_context *)
Created == {{0}} \union (IF memory_may_fail THEN {NoContext} ELSE {})

CreateContext ==
  /\ stage = "context" /\ ~HasErrors
  /\ IF options \cap {"-c", "-S", "-state", "--debug-info=semantic"} = {}
     THEN UNCHANGED <<semantic_ctx, errVars>>
     ELSE /\ semantic_ctx' \in Created
          /\ IF semantic_ctx' = NoContext THEN Report("ERROR", 0) ELSE UNCHANGED errVars
  /\ stage' = "next"
  /\ UNCHANGED <<arguments, file, results, exit_code, assembly>>

-----------------------------------------------------------------------------
(* The loop over the files *)

(* Under -S the name of the output is derived from that of the source;     *)
(* where that fails, the file is left out.  errhandler__set_current_filename *)
(* keeps a copy of the name, or none where there is no memory for it.      *)
NextFile ==
  /\ stage = "next" /\ file < Len(filenames)
  /\ file' = file + 1
  /\ ir_mod' = FALSE /\ err' = FALSE
  /\ \/ /\ current_filename' \in Copies(filenames[file + 1])
        /\ stage' = "read"
        /\ UNCHANGED <<arrays, source, flags, session, exit_code>>
     \/ /\ "-S" \in options /\ memory_may_fail
        /\ Report("ERROR", 0)
        /\ exit_code' = 1
        /\ stage' = "next"
  /\ UNCHANGED <<arguments, semantic_ctx, assembly>>

RecreateContextAtEnd ==
  /\ stage = "recreate"
  /\ IF semantic_ctx # NoContext /\ file = Len(filenames)
     THEN semantic_ctx' \in Created
     ELSE UNCHANGED semantic_ctx
  /\ stage' = "next"
  /\ UNCHANGED <<errVars, exit_code, arguments, file, results, assembly>>

(* semantic__destroy_context, semantic__create_context between two files *)
RecreateContext ==
  /\ stage = "recreate"
  /\ IF semantic_ctx # NoContext /\ file < Len(filenames)
     THEN /\ semantic_ctx' \in Created
          /\ IF semantic_ctx' = NoContext
             THEN Report("ERROR", 0) /\ exit_code' = 1
             ELSE UNCHANGED <<errVars, exit_code>>
     ELSE UNCHANGED <<semantic_ctx, errVars, exit_code>>
  /\ stage' = "next"
  /\ UNCHANGED <<arguments, file, results, assembly>>

Finish ==
  /\ stage = "next" /\ file = Len(filenames)
  /\ PrintAll /\ FreeManager
  /\ semantic_ctx' = NoContext
  /\ stage' = "exit"
  /\ UNCHANGED <<arguments, file, results, exit_code, assembly>>

-----------------------------------------------------------------------------
(* process_one_file *)

(* A stage reports something about the file. *)
Diagnose ==
  /\ stage \in DOMAIN Diagnostics
  /\ Len(errors) + Len(warnings) < MaxReports
  /\ \E level \in Diagnostics[stage], line \in LineNumbers : Report(level, line)
  /\ UNCHANGED driverVars

(* read_file_contents: a file that cannot be read is reported, one there   *)
(* is no memory for is not.                                                *)
Read ==
  /\ stage = "read"
  /\ \/ /\ stage' = "preprocess"
        /\ UNCHANGED <<err, errVars>>
     \/ /\ Report("ERROR", 0)
        /\ err' = TRUE /\ stage' = "cleanup"
     \/ /\ memory_may_fail
        /\ err' = TRUE /\ stage' = "cleanup"
        /\ UNCHANGED errVars
  /\ UNCHANGED <<arguments, file, ir_mod, semantic_ctx, exit_code, assembly>>

(* preprocess, split_into_lines and lexer__init_lexer: all three fail for  *)
(* want of memory only.  Without lines the handler is given none.          *)
Preprocess ==
  /\ stage = "preprocess"
  /\ \/ /\ \/ \E lines \in LineCounts \ {0} : SetSource(Current, lines)
           \/ /\ 0 \in LineCounts \/ memory_may_fail
              /\ UNCHANGED source
        /\ \/ stage' = "lex" /\ UNCHANGED err
           \/ memory_may_fail /\ err' = TRUE /\ stage' = "cleanup"
        /\ UNCHANGED <<arrays, current_filename, flags, session>>
     \/ /\ memory_may_fail
        /\ Report("ERROR", 0)
        /\ err' = TRUE /\ stage' = "cleanup"
  /\ UNCHANGED <<arguments, file, ir_mod, semantic_ctx, exit_code, assembly>>

(* lexer__tokenize; parse is called only without an error so far. *)
Lex ==
  /\ stage = "lex"
  /\ stage' = IF HasErrors THEN "assemble" ELSE "parse"
  /\ UNCHANGED <<errVars, arguments, file, results, semantic_ctx, exit_code, assembly>>

(* parse, which returns no tree for want of memory, reported or not. *)
Parse ==
  /\ stage = "parse"
  /\ \E ast \in IF memory_may_fail THEN BOOLEAN ELSE {TRUE} :
       stage' = IF semantic_ctx # NoContext /\ ast /\ ~HasErrors
                THEN "analyze" ELSE "assemble"
  /\ UNCHANGED <<errVars, arguments, file, results, semantic_ctx, exit_code, assembly>>

(* semantic__analyze, whose result is ignored. *)
Analyze ==
  /\ stage = "analyze"
  /\ semantic_ctx' = {n + 1 : n \in semantic_ctx}
  /\ stage' = IF HasErrors THEN "assemble" ELSE "generate"
  /\ UNCHANGED <<errVars, arguments, file, results, exit_code, assembly>>

(* ir__generate_module *)
Generate ==
  /\ stage = "generate"
  /\ \/ ir_mod' = TRUE /\ UNCHANGED <<err, errVars>>
     \/ /\ memory_may_fail
        /\ Report("ERROR", 0)
        /\ err' = TRUE /\ UNCHANGED ir_mod
  /\ stage' = IF HasErrors' THEN "assemble" ELSE "optimize"
  /\ UNCHANGED <<arguments, file, semantic_ctx, exit_code, assembly>>

(* optimizer__optimize, which looks for errors after each statement. *)
Optimize ==
  /\ stage = "optimize"
  /\ err' \in {err, HasErrors}
  /\ stage' = "assemble"
  /\ UNCHANGED <<errVars, arguments, file, ir_mod, semantic_ctx, exit_code, assembly>>

AssembleWhateverErrors ==
  /\ stage = "assemble"
  /\ IF "-S" \in options /\ ir_mod
     THEN \/ assembly' = assembly \union {Current} /\ UNCHANGED errVars
          \/ Report("ERROR", 0) /\ UNCHANGED assembly
     ELSE UNCHANGED <<assembly, errVars>>
  /\ stage' = "cleanup"
  /\ UNCHANGED <<arguments, file, results, semantic_ctx, exit_code>>

(* The assembly, unless its file cannot be written. *)
Assemble ==
  /\ stage = "assemble"
  /\ IF "-S" \in options /\ ir_mod /\ ~HasErrors
     THEN \/ assembly' = assembly \union {Current} /\ UNCHANGED errVars
          \/ Report("ERROR", 0) /\ UNCHANGED assembly
     ELSE UNCHANGED <<assembly, errVars>>
  /\ stage' = "cleanup"
  /\ UNCHANGED <<arguments, file, results, semantic_ctx, exit_code>>

CleanupKeepingSource ==
  /\ stage = "cleanup"
  /\ current_filename' = None
  /\ exit_code' = IF err \/ HasErrors THEN 1 ELSE exit_code
  /\ stage' = "recreate"
  /\ UNCHANGED <<arrays, source, flags, session, arguments, file, results,
                 semantic_ctx, assembly>>

CleanupOfLocalErrors ==
  /\ stage = "cleanup"
  /\ ClearSource
  /\ current_filename' = None
  /\ exit_code' = IF err THEN 1 ELSE exit_code
  /\ stage' = "recreate"
  /\ UNCHANGED <<arrays, flags, session, arguments, file, results,
                 semantic_ctx, assembly>>

CleanupKeepingName ==
  /\ stage = "cleanup"
  /\ ClearSource
  /\ exit_code' = IF err \/ HasErrors THEN 1 ELSE exit_code
  /\ stage' = "recreate"
  /\ UNCHANGED <<current_filename, arrays, flags, session, arguments, file,
                 results, semantic_ctx, assembly>>

Cleanup ==
  /\ stage = "cleanup"
  /\ ClearSource
  /\ current_filename' = None
  /\ exit_code' = IF err \/ HasErrors THEN 1 ELSE exit_code
  /\ stage' = "recreate"
  /\ UNCHANGED <<arrays, flags, session, arguments, file, results,
                 semantic_ctx, assembly>>

Exited == stage = "exit" /\ UNCHANGED vars

ProcessFile ==
  Diagnose \/ Read \/ Preprocess \/ Lex \/ Parse \/ Analyze \/ Generate
  \/ Optimize \/ Assemble \/ Cleanup

Next ==
  \/ ParseArgument \/ Configure \/ CheckOutput \/ CheckSources \/ Refuse
  \/ CreateContext \/ NextFile \/ ProcessFile \/ RecreateContext \/ Finish
  \/ Exited

Spec == Init /\ [][Next]_vars

-----------------------------------------------------------------------------

(* The type of the variables; the stages are those of process_one_file and *)
(* main, the exit code is 0 or 1.                                          *)
DriverTypeOK ==
  /\ ErrTypeOK
  /\ stage \in Stages
  /\ file \in 0 .. Len(filenames)
  /\ filenames \in Seq(FileNames)
  /\ semantic_ctx = NoContext \/ \E n \in 0 .. Len(filenames) : semantic_ctx = {n}
  /\ exit_code \in {0, 1}

InFile == stage \in DOMAIN Diagnostics \union {"read", "assemble", "cleanup"}

(* A report made while a file is processed names that file, any other      *)
(* report names none: the name is set and cleared around every way through *)
(* process_one_file.  Where the name could not be copied, a report of the  *)
(* file names none, and never the file before.                             *)
AttributedToFile == current_filename \in IF InFile THEN Copies(Current) ELSE {None}

(* What is printed at the end shows each report once, whatever the flags   *)
(* (errhandler__print_errors, errhandler__print_warnings, main).           *)
PrintsEachOnce == [][Refuse \/ Finish => ShowsEachOnce]_vars

(* No entry shows a line of another file than the one it names: the lines  *)
(* are set only after preprocessing, long after the name, so those of the  *)
(* file before must be gone by then (add_error_entry, process_one_file).   *)
(* An entry whose name could not be copied shows a line and names no file; *)
(* its line too is of the file being processed, as no other is at hand.    *)
LineOfNamedFile ==
  /\ \A entry \in Range(errors) \union Range(warnings) :
       entry.line # None => entry.filename \in Copies(entry.line)
  /\ source.file # None => InFile /\ source.file = Current

(* No two files are analyzed in one semantic context, so no file sees the  *)
(* declarations of another (main).                                         *)
FreshContext ==
  semantic_ctx \in {NoContext, {0}} \/ (semantic_ctx = {1} /\ stage # "read")

(* When the files are done, the exit code is zero if and only if nothing   *)
(* is shown as an error: no stage's failure goes unnoticed, nor is a       *)
(* success denied, as long as memory lasts.  Without, an error is lost or  *)
(* shown with an exit code other than zero, if there is a source at all    *)
(* (main, process_one_file).                                               *)
ExitTells ==
  stage = "next" /\ file = Len(filenames) =>
    /\ file > 0 /\ exit_code = 0 => ~HasErrors
    /\ ~memory_may_fail => (exit_code = 0 <=> ~HasErrors)

(* Under -S a success leaves the assembly of every source, a failure none  *)
(* of a source that an error names, unless the source is given twice       *)
(* (process_one_file).                                                     *)
AssemblyOfCleanSources ==
  stage = "next" /\ file = Len(filenames) /\ "-S" \in options =>
    /\ exit_code = 0 /\ ~memory_may_fail => assembly = Range(filenames)
    /\ IsInjective(filenames) =>
         \A entry \in Range(ErrorOutput) : entry.filename \notin assembly
=============================================================================
