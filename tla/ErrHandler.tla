----------------------------- MODULE ErrHandler -----------------------------
(***************************************************************************)
(* The error handler (src/errhandler/errhandler.c): one global manager     *)
(* that every stage of the compiler reports to.                            *)
(*                                                                         *)
(* It keeps errors and warnings in two arrays that grow by doubling and    *)
(* then by a constant, copies the file name and the source line into each  *)
(* entry, and has two flags that change what counts as an error and what   *)
(* is printed.                                                             *)
(***************************************************************************)
EXTENDS Naturals, Sequences, FiniteSets, Functions

CONSTANTS
  FileNames,               (* The source files.                            *)
  LineNumbers,             (* The line numbers reports come with; 0: none. *)
  LineWidth,               (* 2^16: line_count is a uint16_t.              *)
  InitialSlots,            (* INITIAL_CAPACITY                             *)
  MaxExponentialCapacity,  (* MAX_EXPONENTIAL_CAPACITY                     *)
  LinearIncrement,         (* LINEAR_INCREMENT                             *)
  CapacityWidth            (* 2^32: capacities are of type uint32_t.       *)

None == "none"            (* NULL, where a file name is expected.          *)

ASSUME NoneAssumption == None \notin FileNames
ASSUME WidthAssumption == LineWidth \in Nat \ {0} /\ CapacityWidth \in Nat \ {0}
ASSUME SlotsAssumption == /\ InitialSlots \in 1 .. CapacityWidth - 1
                          /\ MaxExponentialCapacity \in Nat
                          /\ LinearIncrement \in Nat
ASSUME LinesAssumption == LineNumbers \subseteq Nat

VARIABLES
  errors,              (* error_entries[0 .. error_count-1]                *)
  warnings,            (* warning_entries[0 .. warning_count-1]            *)
  error_capacity,
  warning_capacity,
  source,              (* The source lines: of which file, and how many.   *)
  current_filename,
  warnings_as_errors,
  suppress_warnings,
  printed,             (* What was printed: headings and entries.          *)
  memory_may_fail      (* Whether allocations can fail in this execution.  *)

arrays == <<errors, warnings, error_capacity, warning_capacity>>
attribution == <<source, current_filename>>
flags == <<warnings_as_errors, suppress_warnings>>
session == <<printed, memory_may_fail>>
errVars == <<arrays, attribution, flags, session>>

Levels == {"WARNING", "ERROR", "FATAL"}

Entry == [level : Levels, filename : FileNames \union {None},
          line : FileNames \union {None}]

NoSource == [file |-> None, count |-> 0]

ErrInit ==
  /\ errors = << >> /\ warnings = << >>
  /\ error_capacity = 0 /\ warning_capacity = 0
  /\ source = NoSource
  /\ current_filename = None
  /\ warnings_as_errors = FALSE /\ suppress_warnings = FALSE
  /\ printed = << >>
  /\ memory_may_fail \in BOOLEAN

-----------------------------------------------------------------------------

(* The capacity to grow to, in 32 bits. *)
Grown(capacity) ==
  (IF capacity = 0 THEN InitialSlots
   ELSE IF capacity < MaxExponentialCapacity THEN capacity * 2
   ELSE capacity + LinearIncrement) % CapacityWidth

AddedUnguarded(entries, capacity, entry) ==
  {<<Append(entries, entry),
     IF Len(entries) < capacity THEN capacity ELSE Grown(capacity)>>}

(* ensure_capacity and the writing of the entry: the array and capacity    *)
(* there can be after it.  A capacity that wraps around is refused, and    *)
(* then, or when memory fails, the entry is lost.                          *)
Added(entries, capacity, entry) ==
  IF Len(entries) < capacity THEN {<<Append(entries, entry), capacity>>}
  ELSE {a \in {<<Append(entries, entry), Grown(capacity)>>} : Grown(capacity) > capacity}
       \union
       {a \in {<<entries, capacity>>} : Grown(capacity) <= capacity \/ memory_may_fail}

(* duplicate_string: a copy of a string (None has none), or NULL. *)
Copies(string) == {string} \union (IF memory_may_fail THEN {None} ELSE {})

EntryOf(level, name, text) == [level |-> level, filename |-> name, line |-> text]

(* The entries a report can leave.  The line itself is copied when it is   *)
(* known and is one of the lines the handler was given; the copies fail    *)
(* each by itself.                                                         *)
NewEntries(level, line) ==
  {EntryOf(level, name, text) :
     name \in Copies(current_filename),
     text \in Copies(IF line \in 1 .. source.count THEN source.file ELSE None)}

(* add_error_entry *)
Report(level, line) ==
  /\ \E entry \in NewEntries(level, line) :
       IF level = "WARNING"
       THEN /\ \E added \in Added(warnings, warning_capacity, entry) :
                 warnings' = added[1] /\ warning_capacity' = added[2]
            /\ UNCHANGED <<errors, error_capacity>>
       ELSE /\ \E added \in Added(errors, error_capacity, entry) :
                 errors' = added[1] /\ error_capacity' = added[2]
            /\ UNCHANGED <<warnings, warning_capacity>>
  /\ UNCHANGED <<attribution, flags, session>>

(* errhandler__set_source_code with so many lines of a file, a number that *)
(* the call cuts to 16 bits.                                               *)
SetSource(name, lines) ==
  source' = [file |-> name, count |-> lines % LineWidth]

ClearSource == source' = NoSource

SetFlags(as_errors, suppress) ==
  /\ warnings_as_errors' = as_errors
  /\ suppress_warnings' = suppress

(* errhandler__has_errors *)
HasErrors == errors # << >> \/ (warnings_as_errors /\ warnings # << >>)

(* What errhandler__print_errors and errhandler__print_warnings show. *)
ErrorOutput == errors \o (IF warnings_as_errors THEN warnings ELSE << >>)

WarningOutputUnlessSuppressed ==
  IF suppress_warnings THEN << >> ELSE warnings

WarningOutput ==
  IF suppress_warnings \/ warnings_as_errors THEN << >> ELSE warnings

Shown(entries, heading) ==
  [i \in DOMAIN entries |-> [heading |-> heading, entry |-> entries[i]]]

PrintAll ==
  printed' = printed \o Shown(ErrorOutput, "ERROR")
                     \o Shown(WarningOutput, "WARNING")

(* errhandler__free_error_manager: everything but the flags. *)
FreeManager ==
  /\ errors' = << >> /\ warnings' = << >>
  /\ error_capacity' = 0 /\ warning_capacity' = 0
  /\ source' = NoSource
  /\ current_filename' = None
  /\ UNCHANGED <<flags, memory_may_fail>>

-----------------------------------------------------------------------------

(* The type of the manager's fields; capacities fit in 32 bits. *)
ErrTypeOK ==
  /\ errors \in Seq(Entry) /\ warnings \in Seq(Entry)
  /\ error_capacity \in 0 .. CapacityWidth - 1
  /\ warning_capacity \in 0 .. CapacityWidth - 1
  /\ source \in [file : FileNames \union {None}, count : Nat]
  /\ current_filename \in FileNames \union {None}
  /\ warnings_as_errors \in BOOLEAN /\ suppress_warnings \in BOOLEAN
  /\ memory_may_fail \in BOOLEAN

(* No entry is written past the end of its array, through both ways of     *)
(* growing, where the capacity would wrap around and when memory fails     *)
(* (ensure_capacity, add_error_entry).                                     *)
EntriesHaveSlots ==
  Len(errors) <= error_capacity /\ Len(warnings) <= warning_capacity

Times(entry, entries) == Cardinality({i \in DOMAIN entries : entries[i] = entry})
TimesPrinted(entry) == Cardinality({i \in DOMAIN printed' : printed'[i].entry = entry})

(* What printing does: it shows every error once, and every warning once   *)
(* or, when only suppressed, not at all; and something is shown as an      *)
(* error if and only if errhandler__has_errors.                            *)
ShowsEachOnce ==
  /\ \A entry \in Range(errors) : TimesPrinted(entry) = Times(entry, errors)
  /\ \A entry \in Range(warnings) :
       TimesPrinted(entry) = IF suppress_warnings /\ ~warnings_as_errors
                             THEN 0 ELSE Times(entry, warnings)
  /\ HasErrors <=> \E i \in DOMAIN printed' : printed'[i].heading = "ERROR"
=============================================================================
