# A verification project for paxsy

paxsy is a compiler for a C-like language, written in C: a sequential program
that reads source files one after the other and takes each through a
preprocessor, a lexer, a parser, semantic analysis, generation of an
intermediate representation and an optimizer. A linker stands beside it. There
are no threads, no network and nothing is persisted. What is hard in it is of
another kind: state that outlives the step it was made for (static registries,
the error list, flags that are reset rather than restored), stacks and tables
shared by nested activations, recursion that must end, containers at their
limits, and failures in the middle of an operation.

Paths below are relative to the repository.

## The system

| Component | Source | State | Operations | Talks to |
|---|---|---|---|---|
| Driver | `src/main.c` | arguments, exit code, the semantic context | expands @files, parses arguments, runs the stages for each file | all stages, one after the other; asks the error handler between them |
| Error handler | `src/errhandler/errhandler.c` | lists of errors and warnings (global), flags, current source lines | report, query, print, free | called by every stage |
| Preprocessor core | `src/preprocessor/preprocessor.c` | output buffer, position, lexical mode, directive buffer | reads a buffer character by character, dispatches directives, replaces identifiers | its directives; calls itself through `#include` |
| Conditional compilation | `.../directive/conditional/conditional.c` | stack of frames | `#if #ifdef #ifndef #elif #else #endif`, "may I write?" | asked before every write; looks macros up |
| Macros | `.../directive/define/define.c`, `macro.c` | hash table of macros | `#define`, `#undef`, find | used by text replacement and by conditions |
| Inclusion | `.../directive/include/include.c` | registry of included paths (static) | `#include`, `#using` | calls the preprocessor core recursively on the same state |
| Lexer | `src/lexer/lexer.c`, `src/parser/literals.c` | growing token array, position | tokenize | error handler |
| Parser | `src/parser/parser.c` | cursor over the tokens, one token of pushback, the tree | recursive descent, recovery | error handler |
| Semantic analysis | `src/semantic/semantic.c` | tree of scopes with symbol tables, flags for "in a loop", "in a function" | enter, exit, declare, look up, check | error handler |
| IR | `src/ir/ir.c` | current function, current block, counters, table of locals | visits the tree, emits instructions and blocks | semantic context |
| Optimizer | `src/optimizer/optimizer.c` | the tree, use counts | folding, elimination | symbol table |
| Linker | `src/linker/linker.c` | objects, symbols, merged sections, image | add object, link (resolve, merge, lay out, generate), write | not called by the driver |
| Build | `src/build/build.c` | | | does not compile |
| Output, utilities | `src/output/`, `src/utils/` | none | formatting, strings, memory | |

What makes each correct, where it is hard:

- *Conditional compilation*: text is emitted exactly where every open group is
  in the first branch whose condition holds, although the code looks at one
  frame only; one branch per group; the stack never overflows. A condition has
  the value the precedence of its operators gives it.
- *Macros*: expansion ends in spite of cycles, and goes as far as it promises;
  the hash table is a partial function through growth, failure and removal.
- *Inclusion*: files that include each other are read finitely often, each path
  once for a unit; nothing of one unit is left for the next.
- *Preprocessor core*: the shared conditional stack follows the nesting of the
  files; nothing is written from a skipped block, in whatever file.
- *Driver and error handler*: an error in one file is one error of that file;
  it is printed once, the exit status tells, and no erroneous file leaves assembly.
- *Lexer*: tokens are the longest lexemes of the text, where they say they are;
  a token that is lost is reported, and the parser always finds the end token.
- *Parser*: operators bind as the language says, a statement is parsed
  whatever surrounds it, a mistake costs its own statement only.
- *Semantic analysis*: every scope entered is left, a name is found in the
  innermost scope that declares it, and what is accepted is well scoped.
- *IR*: the instructions return what the tree says.
- *Linker*: merged sections do not overlap, an entry has the address of its
  symbol, an image is one of the objects there were.

## The modules

| Module | Models |
|---|---|
| `Conditional` | the frames and the six conditional directives, for any outcome of a condition, in any order, with failing allocations |
| `ConditionalGroups` | *abstract*: what conditional compilation promises, groups of branches of which the first that holds is selected |
| `ConditionalHistory` | `Conditional` with a history of the groups read, and the refinement mapping to `ConditionalGroups` |
| `IfExpression` | the evaluator of `#if`, and the meaning of conditions by precedence as a reference |
| `Macros` | `#define`, `#undef` and the expansion of replacement texts over the table as a partial function |
| `MacroMap` | *abstract*: the table as a partial function whose updates may lose an entry |
| `MacroTable` | the hash table: chains, growth, lack of memory, and the refinement mapping to `MacroMap` |
| `Preprocessor` | units, nested buffers, all directives, text and inclusion over a small file system; extends `Conditional` and `Macros` |
| `ErrHandler` | the error handler: reports, growing arrays, attribution to files, printing, flags; operations only |
| `Driver` | the command line and the stages of several files; extends `ErrHandler` |
| `Lexer` | the loop of `lexer__tokenize` on the characters of a text, with literals and the token array |
| `Grammar`, `Parser` | the parsing functions of the recursive descent; `parse`, which calls them once per statement |
| `Semantic` | the analysis of the trees of `Grammar`: scopes, declarations, types, checks |
| `Scoping` | the scope rules stated without tables, against which `Semantic` is checked |
| `Ir` | the conversion of what `Semantic` accepts to basic blocks, and what trees and blocks compute |
| `Linker` | a session of the linker: adding objects, choices, and linking in its phases |
| `MC...` | values for the constants: `MCPreprocessor` (with `IfExpression` for the conditions), `MCMacroTable`, `MCLexer`, `MCParser`, `MCSemantic`, `MCLinker` |
| `..._proof` | the proofs about `Conditional`, `ConditionalHistory`, `MacroTable`, `Preprocessor`, `ErrHandler` (lemmas only), `Driver`, `Lexer`, `Linker` |
| `RecursiveFunctions` | lemmas: when a recursive function exists, and what sums along sequences come to |

Three chains compose components. `Preprocessor` runs on the frames of
`Conditional`, the table of `Macros` and the conditions of `IfExpression`.
`Ir` extends `Scoping`, `Semantic` and `Grammar`: its specification takes each
program from tokens to blocks. `Driver` extends `ErrHandler` and sees of the stages
what `main.c` sees of them.

### How they correspond to the code

**Conditional.** `stack` is `ConditionalContext.stack[0..count-1]`, `capacity`
its allocated size, `errors` the kinds of error reported. `If`, `Ifdef`, `Elif`,
`Else`, `Endif` are the handlers `DPPF__if`, `DPPF__ifdef`/`DPPF__ifndef` and so
on, each with its early returns as a disjunct of its own. What a condition
evaluates to is an argument: true, false or invalid (reported, then false).
`ShouldOutput` is `conditional_should_output`. Growing the stack may fail where
`AllocMayFail` says so; `#if` then reports, `#ifdef` and `#ifndef` do not, as in
the code.

**IfExpression.** One operator per function of the descent, from the text and the
macro table to a value and what is left. Everything is evaluated, dead operands
too, so that a division by zero anywhere makes a condition invalid, as in the
code. Values have `Width` bits and wrap around (64 in the code, 6 in the run: small
enough for sums to wrap).

**Macros.** `macros` is the hash table as the partial function it stands for.
A text is a sequence of tokens. `Expansion` is `expand_macros_in_text`, with one
surprise kept: the table is searched for the rest of the text from the
identifier on, so only an identifier at the end of the text is ever found. It
is a recursive function over the set of names being expanded, which only grows. The code keeps
these names in an array of `MAX_EXPANSION_DEPTH` (256, `MaxExpansionDepth`): where that is full, the identifier is copied
as it is and nothing is reported.

**MacroTable.** A chain is the set of its nodes, since the order of a chain only
decides how long a search takes. A pointer of a node is what it leads to, NULL
or `Freed`: an update frees the old text before the new one is copied, so an update
that fails leaves either of them behind. Every allocation may fail, those of growth
included. Freeing again what was freed is `corrupted`, after which nothing is said.

**Preprocessor.** A file is a sequence of lines, a line an operation with its
arguments; `active` is the C stack of `process_buffer` activations, each a file
and the line to read next. One action per directive handler, `StartUnit` and
`FinishUnit` for the two halves of `preprocess`, `Return` for the end of an
included buffer. `Include` is `include_file` with its caller's test of the
registry: registered, not found, empty and processed are its four ways to go.
Directives are executed in skipped blocks too, as in the code. Paths are sequences of
components, compared as they are spelled, while the file system resolves them; a directory `.` in front is left out where
the code leaves it out, when a path is built from that of the including file.

**ErrHandler.** The variables are the fields of the manager `em`. An entry is
its level, the file it names and the file its copied line is of. `Added` is
`ensure_capacity` with the write that follows: the possible results are the
entry written or, when the capacity wraps around its width or memory fails, the
entry lost. An entry that is written has copies of the current file's name and of its line, of which each may be
missing (`Copies`). `memory_may_fail` is chosen once for an execution, so that
the same run covers both.

**Driver.** `stage` is the position in `main` and `process_one_file`.
`argv` is the arguments left; `ParseArgument` takes one step per argument, with the roles the code gives to
file names (the first is the output) and `-o`. Each stage is an action that
ends it and chooses the next one from what it returned and
`HasErrors`, as the code does; before it ends, `Diagnose` may report something, of the levels
that stage reports. `NextFile`, `Cleanup` and `RecreateContext` are the loop of
`main`; the handler's copy of a file's name may fail, and its reports then name none. A rejected command line leaves through `Refuse`: there the code jumps over
the initialization of `exit_code`, so the model takes either value.

**Lexer.** A step is one turn of the loop of `lexer__tokenize`: blanks and
one token. A token keeps the characters it was read from instead of its decoded
value. `Add` is `add_token` with the growth of the array, which stops at
`MaxCapacity` or where memory ends. The widths that wrap in the code (`LengthWidth`
for the length of a word, `PlaceWidth` for lines and columns, `CharBuffer` for that of a character) are parameters.

**Grammar, Parser.** `ParserState` is a record `t`; a parsing function is an
operator from the state before to the state after, whose field `node` is what it
returns. Pushback, recovery and the early returns of the macros
`FREE_NODE` and `FREE_LIST` are kept. `Parser` takes one step per statement of the
input; `crashed` is set where the code reads the value of a token that has none.

**Semantic, Scoping.** `SemanticContext` is a record `c`. The recursion over
statements is an agenda, so that a step checks one statement and the scopes in
between are states; expressions are operators. `Scoping` reads the same program as a
sequence of events at the paths of the scopes they happen in.

**Ir.** The `IrBuilder` is a record `b`, a block is known by its place, a
temporary by its function and number. `ConvertFunction` converts one function. The table of
locals is flat and outlives the function, as in the code.
`ByTree` executes the tree of a function, `ByBlocks` its blocks.

**Linker.** The loops of `linker_link` that can fail half-way, or whose result a later
loop reads, are one step per iteration: merging one input section, laying out one
merged section. A section's bytes are abstracted to where they come from. What the
parsers of object files deliver is the constant `Parsed`; `Stubs` is what they deliver
today, one section of 64 bytes with one symbol.

An operator that directly precedes a definition as a variant of it
(`MustGrowLate`, `IncludeUnregistered`) is a mutant: the same code with a
plausible bug. No specification uses one; `PROJECT.json` pairs each with
the property that finds it.

## What is checked

| Run | Properties | Shows |
|---|---|---|
| `conditional` | `WithinCapacity`, `SkipInherited`, `FramesMatchGroups`, `OneBranchPerGroup`, `ImplementsGroups` | frames stay consistent, one branch per group, and the frames implement the groups; with failing allocations and stray directives |
| `macro_table` | `TableOK`, `FreedOnce`, `ImplementsMap` | the hash table keeps its shape and is the partial function of its header; only a failed update can lead to memory freed twice |
| `preprocessing` | `StopsOnCycleOrDepth`, `IfByPrecedence`, `DepthFollowsText`, `UnitsIndependent`, `EmitOnlyWhenAllLive`, `OncePerUnit`, `Termination` | conditionals across files, inclusion, macros, conditions and units, in one system |
| `driver` | `EntriesHaveSlots`, `AttributedToFile`, `LineOfNamedFile`, `ExitTells`, `AssemblyOfCleanSources`, `PrintsEachOnce` | errors of several files are kept, attributed and printed once, with failing allocations in every report; exit code and assembly tell |
| `lexer` | `EOFOrError`, `TokensAreLexemes`, `WordsWhereTheyStand` | the end token is there or an error is; tokens are the longest lexemes, but for two kinds the code is known to misread, and where they say |
| `parser` | `PrecedenceRespected`, `StatementsIndependent`, `NamesKept`, `BrokenExpressionIsolated`, `StepsRead` | operators bind as a reference grammar says; statements do not disturb one another and lose no name, but in two places of declarations; every step reads |
| `semantic` | `SemanticTypeOK`, `AcceptedIsWellScoped`, `ScopesDecide`, `OuterScopesKept`, `IrTypeOK`, `ComputesSame` | what is accepted is well scoped; its blocks compute what its trees mean |
| `linker` | `ChunksTile`, `SectionsDisjoint`, `SectionsPlaced`, `EntryAtSymbol`, `ImageOfAdded` | merging and layout through failures and repeated links |
| `cyclic_inclusion` | `NoCyclicInclusion` | *violated*: the unit itself is not registered |
| `unexpected_eof` | `ParseReturns` | *violated*: a syntax error at the end of a file crashes the parser |
| `calls` | `CallsAllowed` | *violated*: every call of a function is rejected |
| `lexer_ends` | `LexerEnds` | *violated*: an invalid number is read again for ever |

Each component's type is an invariant of one run or the first part of a proved one.

### Bounds

- `conditional`: `MaxDepth` is the number of groups open at once. Five with an initial
  capacity of four (the value in the code) goes past the first growth of the stack; the
  frames of deeper stacks relate to their neighbours only, and the proofs cover every depth.
- `macro_table`: three names that share the one chain there is at first, two of them also after
  the first growth, none after the second; two values and one parameter list. Growth, collision
  and removal from shared chains all occur; the proofs cover any names and hashes.
- `preprocessing`: all programs of up to four lines with every header of two; two lines per file
  with up to six files in two directories and a library; three units of two lines, two of them the same file;
  four definitions of macros by one another, which make all cycles of up to three, and, as `MaxExpansionDepth` is 3, a
  chain that is longer than the expanding stack; conditions
  with all pairs of binary operators, signs, parentheses and conditional operators, and all sequences
  of three tokens. `MaxNesting`, buffers processed at once, is a guard the code does not
  have: the run stays below it and would deadlock if it reached it. Paths with `..`, which can
  recurse without end through ever longer spellings of the same file, are left out. `AllocMayFail` is FALSE here: what
  a frame that could not be opened does is the matter of `conditional`.
- `driver`: four arguments are up to three sources, or two with an option. The
  arrays of entries have capacities 1, 2, 3 and then wrap around (`CapacityWidth` is 4),
  so both ways of growing and the refusal occur. `MaxReports` bounds the entries there are
  before a stage reports one more; errors in the arguments and of the driver itself are not bounded.
  Reports come with a line the file has and one beyond its end.
- `lexer`: every text of up to five characters over alphabets of five or six characters, one for operators, one for words,
  one for numbers, two for literals, some with a longer beginning, and selected longer texts. The token array grows twice, to 2, 4
  and 6, and is then at its limit (65535 in the code); `LengthWidth` is 4 (256), `CharBuffer` 3 (8),
  `PlaceWidth` 7 (65536): most texts have lines and columns that fit, those of six characters and more on a line do not, and wrap around.
- `parser`: sequences of up to three statements out of one of every kind, formulas of up to three operators,
  statements with a mistake between two others.
- `semantic`: programs of up to three pieces of a few lines, at the top or in the body of `main`. `ComputesSame` runs structured
  functions for five turns of their loops. Names that are shadowed are excepted, see below.
- `linker`: three objects out of all kinds (the code has room for 256), so that two merge and a third is added
  between two links; the proof covers any objects and limits. All sections have 64 bytes, as the code delivers today, so no address
  of the run has to be rounded up (`linker.c:453`): that is the matter of the proof alone.

The models of `Lexer`, `IfExpression` and `Ir` were also compared with the compiled code: 33688 texts without a
difference, 1456 conditions which differ by the width of values only, and 609 programs with the same blocks.

### Fairness

`Termination` and `LexerEnds` assume `WF_vars(Step)`: the program is sequential and takes its
next step as long as there is one. Nothing else is assumed. In `lexer_ends` the violation
is a loop of steps that are all taken.

## What is proved

All theorems hold for every value of the constants that meets the named assumptions. These are the facts the code gives:
sizes are positive (`CapacityAssumption`, `BucketsAssumption`, `SlotsAssumption`, `MaximaAssumption`), distinct things
are distinct (NULL and a string, options and file names), a hash is a number, `main.c` goes on with files it could read
(`CallsAssumption`), an object file has a section and its symbols lie in its sections (`ParsedAssumption`), texts are
sequences in which the model's symbol for the end is no character (`SourcesAssumption`), no letter is a blank (`LettersAssumption`), the expanding stack has a slot and lines and columns a width (`MaxExpansionDepthAssumption`, `PlaceWidthAssumption`), the builtin macros are finitely many (`BuiltinsAssumption`),
and a line read as a definition begins with an identifier (`DefinitionsAssumption`).

**`Conditional_proof`**, for every depth and pattern of failing allocations. `ConditionalInvariant`: the invariants of the
frames. Every directive changes the frames in one of four ways (opens, switches the top, closes, keeps), which
`StepKinds` shows; each invariant is then preserved by each way. The three about frames are inductive only together
with the type: a frame is compared with the one below it, which no step changes while it is covered. `OneBranch`: the
action property, from the same kinds. The lemmas speak of any state whose stack is a stack of frames and of any move of
the four kinds, so that the preprocessor can use them.

**`ConditionalHistory_proof`**. `FramesMatch`: each frame says of its group what the group's conditions say. `Refinement`:
`HSpec` implements `ConditionalGroups`. That `conditional_should_output` answers for all groups from one frame is by nature an
induction over the stack. The inductive invariant `HInv` states it for every frame (`EmitsAt`: a frame is live exactly when
all groups up to it are selected), so that the induction over steps is enough: only the top ever changes.

**`MacroTable_proof`**, for any names, hashes and number of buckets. `TableCorrect`: nodes are in the chains they are searched in, no two
of a name, the count is right, and nothing is freed twice while no lost macro is in the table. `Refinement`: the table implements
`MacroMap`. What counts of a table is the set of its nodes: lemmas about chains (`Put`, `Take`, `Grow`) say what an
operation makes of that set, lemmas about views what that makes of the answers. The strengthening is
`LostFirst`: only what a failed update left holds a freed text.

**`Preprocessor_proof`**, for all files, libraries, builtin macros and whatever the conditions come to. The steps move
the reading in six ways (`ReadingMoves`: a unit starts, a line is done, a buffer is opened, a buffer ends, a unit ends, rest), the stack in four
(`StackMoves`); `ReadingInv` has the types they need.

- `FramesOfFiles`: the invariants of the frames hold here too, where files share the stack, leave groups open, close
  those of others, and each unit begins anew.
- `EmitLive`: text is written only where no open group of any file is skipped. The code asks the top frame; `SkipsDown`
  (a live top has only live frames below) is what makes that enough, and follows from `SkipInherited` by the least
  frame that breaks it.
- `Once`: a path is registered, for the first time in the unit, when its buffer is opened.
- `Registry`: what is being included is registered, and no path is included twice at a time, so that inclusions nest no deeper
  than there are paths. This is the safety half of `Termination`.
- `DepthOfText`: if every file closes what it opens, the depth of the shared stack is that of the
  lines read of the active buffers. Assumes that memory lasts: an `#ifdef` that could
  not be pushed leaves its `#endif` to close another group. The property is not inductive: that a buffer which ends
  leaves the depth as it found it needs the depth of *every prefix* of the activations to be a number (`DepthInv`), and
  that opening and closing lines are counted by sets, of which one line more adds one.
- `Independent`: two units of the same path come to the same text and the same errors, however the units between them end. Assumes
  that memory lasts, since it may give out for one and not for the other. The property compares two stretches of one execution, and the actions are relations, so the steps within a unit are
  written once more as a function of what the unit has (`After`), and each action is shown to be that function (`OwnNext`). `RunInv` says that
  the unit at hand has gone through a part of the run that the function determines from its path and the files, and that each finished
  unit has gone through all of its own; two such runs agree and stop together (`RunsAgree`, `RunsStopTogether`). That a run begins the same for every
  unit is where the registry has to be empty, and what breaks when `free_included_registry` is left out.
- `ChainsAreFollowed`: the value of a definition is expanded along the whole chain of macros at its end, and stops only at what is no
  object-like macro, at the name being defined, at a macro that leads back to itself, or where the expanding stack is full: then it holds as many
  different macros of the chain as it has slots (`TooDeep`). `ExpansionStops` argues along the chain: each name on the
  expanding stack leads, in as many steps as were taken since, to where the text now ends; as the names differ, that is no more steps than there
  are macros. The induction is over the names not yet on the stack. Both the expansion and what a macro leads to are recursive functions
  (`ExpansionExists`, `LeadsFollows`), and `TableInv` has the table finite and its values texts.

**`Driver_proof`**, for any command line, files, line counts and failing allocations (with
the lemmas about one report and about printing in the error handler first). The invariant is `DriverInv`:

- `SlotsForEntries`: entries are written within their arrays. A report keeps the array, or appends to it
  either below the capacity or with a capacity that grew.
- `Attribution` and `LinesOfFiles`: the handler holds the name of the file being processed, or none where there was no memory for
  a copy of it, and shows its lines only: an entry names the file its line is of, or none. The second is not inductive by itself: the lines are set well after the name, so `SourceOfFile` adds
  that there are none from the cleanup of one file until the next one is preprocessed.
- `ExitCode`: between files, the exit code is zero exactly if there are no errors, as long as memory lasts. A stage that fails must
  have left an error: the first error of all has a slot (`SlotsAssumption`), so it is never lost, and an error that is lost is
  lost to others (`ErrorNoticed`). `ExitInv` says so inside a file as well.
- `AssemblyOfClean`: under `-S` a success leaves the assembly of every source, and none that an error names.
  `AssemblyInv` follows the files that are done, `CleanInv` the names in the entries.
- `PrintedOnce`: printing at the end shows each entry once. It needs that each array has entries
  of its own levels only (`LevelsInv`), which the merging order of the code relies on.

**`Lexer_proof`**, for every text, limit of the array and failing allocation. `EndOfTokens`: every token has a slot, and when the loop is
done without an error, the last token and no other is the end token, which the parser relies on to stop. Every step that adds a token adds it or reports (`Adds`).
`WordsStand`: each word and number has the line and column of its text in the source. `WordsInv` says that the lexer is always at the place its position has
(`Place`), and that the words stand before it, in order; every step leads from a place to one further on (`Further`). For that, what is read as a number
or an operator has to stay on one line (`NumberOnLine`, through the recursive function for the periods of a fraction), and literals have to count the breaks they contain
(`QuotedOver`, `RunOver`), which they do unless a backslash escapes one: this is what `BreakEscaped` leaves out. `PlacesFit` leaves out sources with a line or column past its 16 bits:
everywhere else what has wrapped around is what was counted (`MovedRight`).
`AllIsRead`: a source that is read without an error is the texts of its tokens, in order, and the blanks between them (`NothingSkipped`). The run checks more
than this, for short texts, with `TokensAreLexemes`; the theorem says it of texts of any length.
`CutInv` says that the text before the lexer's place is cut that way as long as no error was reported; every step that reports none adds a token with
all the text it moves over behind blanks (`StepCuts`), which for literals needs that one that fails is reported (`FailedReported`).

**`Linker_proof`**, for any contents of object files, far beyond the stubs. `LinkCorrect`: the input sections of a merged section follow one another
without gap or overlap, none is lost, merged sections of any sizes get increasing, aligned, disjoint addresses, and an entry that was found has the
address of a symbol of its name. `LinkInv` adds what is between the phases: which sections are placed before the next input (`MergedBefore`), that
names differ, and which addresses are final while layout is under way (`LaidOut`).
`ImageCorrect`: a generated image holds each section of the files added so far once, in order, and is as large as they are. `OrderInv` keeps the
order of the merged sections while they are made (each by its first input), `ImageInv` says of an image that it is that of a
*prefix* of the objects, since files may be added after it.
The two loops that generate it are recursive functions; by which sequence of values, and that there is one, comes from `RecursiveFunctions`.

**`RecursiveFunctions`**. A recursive function is, to a prover, a CHOOSE of one that satisfies its equation, of which nothing follows until there is one.
`SolutionExists`: if every value depends only on values of a lower rank (`DependsBelow`), the equation has a solution. `Accumulates` is the case of a
loop that adds up along a sequence.

### What is only model-checked

- `Termination` and the negated `LexerEnds` are liveness.
- `IfByPrecedence`, `TokensAreLexemes`: what recursive functions over texts compute, compared with another recursive
  definition of it, which needs induction over data.
- All of the parser, semantic analysis and IR: they recurse over trees with RECURSIVE operators. `StepsRead` is what `parse` needs to end.

## Disagreements of code and comments

With a run:

- `include.c:187` says registering prevents cyclic inclusion. The unit itself is not registered, so a header that includes it
  processes it a second time, inside itself (`cyclic_inclusion`).
- `parser.h:134` says `parse` returns NULL on a fatal error. A syntax error at the end of the file takes the length of a NULL
  value (`unexpected_eof`).
- `semantic.c:453` says a prototype is sufficient to allow calls. Every call is rejected as one without a name (`calls`).
- `lexer.h:180` says an EOF marker is added finally. An invalid number such as `1.` is read for ever (`lexer_ends`).

Noted while modelling, without a run:

- *Preprocessor.* `define.c:10` says that exceeding the limit of 256 macros reports an error and leaves the text unexpanded; nothing is
  reported, and the text is expanded as far as the limit (`define.c:543`). `define.c:458` says all object-like macros in a replacement text are expanded; only one at its end
  is. `define.c:607` says `#undef` of an unknown macro warns; it is an error. Directives of skipped blocks are executed
  (`preprocessor.c:544`). `<<<` and the other long shifts are no tokens of a condition; `#if 010` is 10, while a macro worth `010` is 8.
  Sums and products in a condition that do not fit are undefined in C (`conditional.c:352`); the model lets them wrap around, and nothing is claimed of them.
- *Driver, error handler.* `main.c:886` takes the first file name for the output, so that `-S` with two sources is
  refused whether `-o` was given or not. `errhandler.h:117` promises that freeing resets every piece of internal state; the two flags
  stay. `errhandler.h:78` asks for the exact number of lines, `main.c:772` passes it modulo 65536. After an error
  in one file, those that follow are still preprocessed and lexed, but not parsed.
- *Lexer.* Adjacent string literals separated by blanks are not concatenated although the comments say so (`literals.h:36`, `literals.c:515`).
  `TokensAreLexemes` takes them for one lexeme, as the comments do, and excepts the sources that have one (`Misread`), and those with `0xFE`, which
  is read as `0xF` and `E`. Lines and columns are 16 bits wide (`lexer.h:127`) and start again from 0;
  columns of operators are one length too far left; the line of a string over several lines is its last; a backslash before a line break is not counted as a line.
- *Parser.* An empty string literal drops its statement; a missing `;` swallows the token that follows; `if (x) stmt;`
  without block or arrow is dropped silently; the ternary operator of `parser.h:35` never parses, since `b : 1` in `a ? b : 1` is taken for a cast (`parser.c:917`), so `BrokenExpressionIsolated`
  does not speak of it; a label followed by an identifier is read as a cast. Two constructs lose what was written, which `NamesKept` excepts: a parameter that is only
  a type keeps the name of the type and not what is in its angle brackets (`parser.c:1661`), and dimensions before fields given in place are not used (`parser.c:1517`).
- *Semantic analysis.* A prototype and its definition are a redeclaration; operands of binary operators have no type, so that
  `if (a < b)` is rejected; the bodies of standalone `else` are not analysed; the return type is not given back after a nested
  function (`semantic.c:1940`); the result of the analysis is dropped (`main.c:783`).
- *IR.* `x += 1` stores 1; the name of a variable of an inner block means that variable also after the block, and a local of an earlier
  function is found in a later one; globals cannot be used in functions; `++`, `break` and `continue` end the conversion.
- *Linker.* Without an entry the address of an earlier link stays (`linker.c:375`), and so does the image after a link that failed (`linker.c:243`);
  merged data is never freed (`linker.c:390`); `linker.h` declares `linker__*` where `linker.c` defines `linker_*`.
- *Macro table.* A failed update leaves memory that the next one frees again (`macro.c:213`).

## Not modelled, and the plan

- *Optimizer*: it rewrites the tree after the IR was made of it, and only a debug dump reads the result. Several of its passes read
  what they have freed or take one kind of node for another, so there is no behaviour to be faithful to.
- *Build* does not compile. *Output* formats. *Utilities* are pure helpers whose effect is part of the definitions using them.
- Of the preprocessor: comments, literals, line continuation and calls of function-like macros are below the level of lines and tokens.
- Of the driver: the reading of @files, libraries and debug dumps. Of the error handler: `errhandler__load_source_file`, which nothing calls,
  and the failing copy of a message, which leaves an entry without its text.
- Of the IR: calls and ternary operators, which never get there. Of the linker: relocations, which no parser delivers, and writing to a file.

To be done next, in this order: that a condition
is worth the same for both evaluations of `IfExpression`, by the least text where they differ; the order of entries in the error handler's arrays.
