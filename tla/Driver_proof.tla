---------------------------- MODULE Driver_proof ----------------------------
(***************************************************************************)
(* Proofs about Driver, for any arguments, any number of files and any     *)
(* pattern of failures: a report names the file that is being processed,   *)
(* or none, and shows a line of that file or none; no entry is written out *)
(* of the bounds of its array; the exit code tells of errors; under -S the *)
(* assembly is that of the files without errors; and each report is        *)
(* printed once.                                                           *)
(***************************************************************************)
EXTENDS Driver, FiniteSetTheorems, TLAPS

(* The error handler.                                                      *)

(* One array and its capacity. *)
ArrayOK(entries, capacity) ==
  /\ entries \in Seq(Entry)
  /\ capacity \in 0 .. CapacityWidth - 1
  /\ Len(entries) <= capacity

(* What is left of an array and its capacity by adding an entry. *)
Kept(entries, capacity, entry, entries2, capacity2) ==
  \/ entries2 = entries /\ capacity2 = capacity
  \/ /\ entries2 = Append(entries, entry)
     /\ \/ Len(entries) < capacity /\ capacity2 = capacity
        \/ capacity2 = Grown(capacity) /\ Grown(capacity) > capacity

-----------------------------------------------------------------------------

LEMMA GrownFits ==
  ASSUME NEW capacity \in Nat
  PROVE  Grown(capacity) \in 0 .. CapacityWidth - 1
<1> DEFINE g == IF capacity = 0 THEN InitialSlots
                ELSE IF capacity < MaxExponentialCapacity THEN capacity * 2
                ELSE capacity + LinearIncrement
<1>1. g \in Nat
  BY SlotsAssumption, WidthAssumption
<1> HIDE DEF g
<1>2. CapacityWidth \in Nat \ {0}
  BY WidthAssumption
<1>3. g % CapacityWidth \in 0 .. CapacityWidth - 1
  BY <1>1, <1>2
<1> QED BY <1>3 DEF Grown, g

LEMMA AddedKept ==
  ASSUME NEW entries, NEW capacity, NEW entry,
         NEW added \in Added(entries, capacity, entry)
  PROVE  Kept(entries, capacity, entry, added[1], added[2])
<1>1. CASE Len(entries) < capacity
  BY <1>1, SMT DEF Added, Kept
<1>2. CASE ~(Len(entries) < capacity)
  <2>1. \/ added = <<Append(entries, entry), Grown(capacity)>> /\ Grown(capacity) > capacity
        \/ added = <<entries, capacity>>
    BY <1>2, Zenon DEF Added
  <2> QED BY <2>1, SMT DEF Kept
<1> QED BY <1>1, <1>2

LEMMA KeptOK ==
  ASSUME NEW entries, NEW capacity, NEW entry \in Entry,
         NEW entries2, NEW capacity2,
         ArrayOK(entries, capacity),
         Kept(entries, capacity, entry, entries2, capacity2)
  PROVE  ArrayOK(entries2, capacity2)
<1>1. CASE entries2 = entries /\ capacity2 = capacity
  BY <1>1
<1>2. CASE entries2 = Append(entries, entry)
           /\ Len(entries) < capacity /\ capacity2 = capacity
  BY <1>2, WidthAssumption DEF ArrayOK
<1>3. CASE entries2 = Append(entries, entry)
           /\ capacity2 = Grown(capacity) /\ Grown(capacity) > capacity
  <2>1. Grown(capacity) \in 0 .. CapacityWidth - 1
    BY GrownFits, WidthAssumption DEF ArrayOK
  <2> QED BY <1>3, <2>1, WidthAssumption DEF ArrayOK
<1> QED BY <1>1, <1>2, <1>3 DEF Kept

(* What a report changes. *)
ReportsAs(entry, level) ==
  /\ Kept(errors, error_capacity, entry, errors', error_capacity')
  /\ Kept(warnings, warning_capacity, entry, warnings', warning_capacity')
  /\ level = "WARNING" => errors' = errors
  /\ level # "WARNING" => warnings' = warnings

LEMMA ReportKept ==
  ASSUME NEW level, NEW line, Report(level, line)
  PROVE  /\ \E entry \in NewEntries(level, line) : ReportsAs(entry, level)
         /\ UNCHANGED <<attribution, flags, session>>
<1>1. CASE level = "WARNING"
  <2>4. PICK entry \in NewEntries(level, line) :
          /\ \E added \in Added(warnings, warning_capacity, entry) :
               warnings' = added[1] /\ warning_capacity' = added[2]
          /\ UNCHANGED <<errors, error_capacity>>
    BY <1>1, Zenon DEF Report
  <2>1. PICK added \in Added(warnings, warning_capacity, entry) :
          warnings' = added[1] /\ warning_capacity' = added[2]
    BY <2>4
  <2>2. Kept(warnings, warning_capacity, entry, added[1], added[2])
    BY AddedKept
  <2>3. ReportsAs(entry, level)
    BY <1>1, <2>1, <2>2, <2>4 DEF ReportsAs, Kept
  <2> QED BY <2>3, Zenon DEF Report
<1>2. CASE level # "WARNING"
  <2>4. PICK entry \in NewEntries(level, line) :
          /\ \E added \in Added(errors, error_capacity, entry) :
               errors' = added[1] /\ error_capacity' = added[2]
          /\ UNCHANGED <<warnings, warning_capacity>>
    BY <1>2, Zenon DEF Report
  <2>1. PICK added \in Added(errors, error_capacity, entry) :
          errors' = added[1] /\ error_capacity' = added[2]
    BY <2>4
  <2>2. Kept(errors, error_capacity, entry, added[1], added[2])
    BY AddedKept
  <2>3. ReportsAs(entry, level)
    BY <1>2, <2>1, <2>2, <2>4 DEF ReportsAs, Kept
  <2> QED BY <2>3, Zenon DEF Report
<1> QED BY <1>1, <1>2

-----------------------------------------------------------------------------

ErrInv == ErrTypeOK /\ EntriesHaveSlots

LEMMA InvArrays ==
  ErrInv => ArrayOK(errors, error_capacity) /\ ArrayOK(warnings, warning_capacity)
BY DEF ErrInv, ErrTypeOK, EntriesHaveSlots, ArrayOK

(* An initial state of the manager is one of the invariant. *)
LEMMA InitOK == ErrInit => ErrInv
<1> SUFFICES ASSUME ErrInit PROVE ErrInv
  OBVIOUS
<1>1. ArrayOK(errors, error_capacity) /\ ArrayOK(warnings, warning_capacity)
  BY WidthAssumption DEF ErrInit, ArrayOK
<1>2. source \in [file : FileNames \union {None}, count : Nat]
  BY DEF ErrInit, NoSource
<1> QED BY <1>1, <1>2 DEF ErrInit, ErrInv, ErrTypeOK, EntriesHaveSlots, ArrayOK

(* What a new entry is made of. *)
LEMMA NewEntryOK ==
  ASSUME ErrInv, NEW level \in Levels, NEW line, NEW entry \in NewEntries(level, line)
  PROVE  /\ entry \in Entry
         /\ entry.level = level
         /\ entry.filename \in Copies(current_filename)
         /\ entry.line \in {None, source.file}
<1>1. /\ source.file \in FileNames \union {None}
      /\ current_filename \in FileNames \union {None}
  BY DEF ErrInv, ErrTypeOK
<1>2. PICK name \in Copies(current_filename),
           text \in Copies(IF line \in 1 .. source.count THEN source.file ELSE None) :
        entry = EntryOf(level, name, text)
  BY DEF NewEntries
<1>3. text \in {None, source.file}
  BY DEF Copies
<1>4. name \in FileNames \union {None}
  BY <1>1 DEF Copies
<1> QED BY <1>1, <1>2, <1>3, <1>4 DEF EntryOf, Entry

(* So is the state that a report leaves, whatever it runs out of. *)
LEMMA ReportOK ==
  ASSUME ErrInv, NEW level \in Levels, NEW line \in Nat, Report(level, line)
  PROVE  ErrInv'
<1>1. PICK entry \in NewEntries(level, line) : ReportsAs(entry, level)
  BY ReportKept
<1>6. entry \in Entry
  BY NewEntryOK
<1>2. ArrayOK(errors, error_capacity) /\ ArrayOK(warnings, warning_capacity)
  BY InvArrays
<1>3. ArrayOK(errors', error_capacity')
  BY <1>1, <1>2, <1>6, KeptOK DEF ReportsAs
<1>4. ArrayOK(warnings', warning_capacity')
  BY <1>1, <1>2, <1>6, KeptOK DEF ReportsAs
<1>5. UNCHANGED <<attribution, flags, session>>
  BY ReportKept
<1> QED BY <1>3, <1>4, <1>5
        DEF ErrInv, ErrTypeOK, EntriesHaveSlots, ArrayOK, attribution, flags, session, Entry

(* Freeing the manager leaves empty arrays without slots. *)
LEMMA FreeOK == ErrInv /\ FreeManager => ErrInv'
BY WidthAssumption
   DEF ErrInv, FreeManager, ErrTypeOK, EntriesHaveSlots, NoSource, flags, session, Entry

-----------------------------------------------------------------------------
(* What is printed: the errors, then the warnings that are shown, under    *)
(* whichever heading.                                                      *)

LevelsInv ==
  /\ \A i \in DOMAIN errors : errors[i].level # "WARNING"
  /\ \A i \in DOMAIN warnings : warnings[i].level = "WARNING"

WarningsShown == IF suppress_warnings /\ ~warnings_as_errors THEN << >> ELSE warnings

(* The places of an entry.                                                 *)
Places(entry, entries) == {i \in DOMAIN entries : entries[i] = entry}

PlacesPrinted(entry) == {i \in DOMAIN printed' : printed'[i].entry = entry}

Headings == {"ERROR", "WARNING"}
ShownEntry == [heading : Headings, entry : Entry]

LEMMA ShownIs ==
  ASSUME NEW entries \in Seq(Entry), NEW heading \in Headings
  PROVE  /\ Shown(entries, heading) \in Seq(ShownEntry)
         /\ Len(Shown(entries, heading)) = Len(entries)
         /\ \A i \in 1 .. Len(entries) :
              Shown(entries, heading)[i] = [heading |-> heading, entry |-> entries[i]]
<1>1. DOMAIN entries = 1 .. Len(entries) /\ Len(entries) \in Nat
  OBVIOUS
<1>2. \A i \in 1 .. Len(entries) : entries[i] \in Entry
  OBVIOUS
<1> QED BY <1>1, <1>2 DEF Shown, ShownEntry

(* What a sequence is of two parts.                                        *)
LEMMA PartsAre ==
  ASSUME NEW S, NEW x \in Seq(S), NEW y \in Seq(S)
  PROVE  /\ x \o y \in Seq(S)
         /\ Len(x \o y) = Len(x) + Len(y)
         /\ \A i \in 1 .. Len(x) : (x \o y)[i] = x[i]
         /\ \A i \in 1 .. Len(y) : (x \o y)[Len(x) + i] = y[i]
OBVIOUS

(* printed' shows all the entries of a with one heading and then those of  *)
(* b with another.                                                         *)
Shows(a, b, heading) ==
  /\ Len(printed') = Len(a) + Len(b)
  /\ DOMAIN printed' = 1 .. Len(printed')
  /\ \A i \in 1 .. Len(a) : printed'[i] = [heading |-> "ERROR", entry |-> a[i]]
  /\ \A i \in 1 .. Len(b) : printed'[Len(a) + i] = [heading |-> heading, entry |-> b[i]]

LEMMA ShowsIs ==
  ASSUME NEW a \in Seq(Entry), NEW b \in Seq(Entry), NEW heading \in Headings,
         printed' = Shown(a, "ERROR") \o Shown(b, heading)
  PROVE  Shows(a, b, heading)
<1> DEFINE x == Shown(a, "ERROR")
           y == Shown(b, heading)
<1>1. /\ x \in Seq(ShownEntry) /\ Len(x) = Len(a)
      /\ \A i \in 1 .. Len(a) : x[i] = [heading |-> "ERROR", entry |-> a[i]]
  BY ShownIs DEF Headings
<1>2. /\ y \in Seq(ShownEntry) /\ Len(y) = Len(b)
      /\ \A i \in 1 .. Len(b) : y[i] = [heading |-> heading, entry |-> b[i]]
  BY ShownIs
<1>3. printed' = x \o y
  OBVIOUS
<1> HIDE DEF x, y
<1>4. /\ printed' \in Seq(ShownEntry)
      /\ Len(printed') = Len(x) + Len(y)
      /\ \A i \in 1 .. Len(x) : printed'[i] = x[i]
      /\ \A i \in 1 .. Len(y) : printed'[Len(x) + i] = y[i]
  <2>1. x \in Seq(ShownEntry) /\ y \in Seq(ShownEntry)
    BY <1>1, <1>2
  <2>2. (x \o y) \in Seq(ShownEntry)
    BY <2>1
  <2>3. Len(x \o y) = Len(x) + Len(y)
    BY <2>1
  <2>4. \A i \in 1 .. Len(x) : (x \o y)[i] = x[i]
    BY <2>1
  <2>5. \A i \in 1 .. Len(y) : (x \o y)[Len(x) + i] = y[i]
    BY <2>1
  <2> QED BY <1>3, <2>2, <2>3, <2>4, <2>5, Zenon
<1>5. DOMAIN printed' = 1 .. Len(printed') /\ Len(printed') = Len(a) + Len(b)
  BY <1>1, <1>2, <1>4
<1>6. \A i \in 1 .. Len(a) : printed'[i] = [heading |-> "ERROR", entry |-> a[i]]
  BY <1>1, <1>4, Zenon
<1>7. \A i \in 1 .. Len(b) : printed'[Len(a) + i] = [heading |-> heading, entry |-> b[i]]
  BY <1>1, <1>2, <1>4, Zenon
<1> QED BY <1>5, <1>6, <1>7, Zenon DEF Shows

(* A part under one heading is two parts.                                  *)
LEMMA ShownApart ==
  ASSUME NEW a \in Seq(Entry), NEW b \in Seq(Entry), NEW heading \in Headings
  PROVE  Shown(a \o b, heading) = Shown(a, heading) \o Shown(b, heading)
<1> DEFINE ab == a \o b
           x == Shown(a, heading)
           y == Shown(b, heading)
           s == Shown(ab, heading)
<1>1. /\ ab \in Seq(Entry) /\ Len(ab) = Len(a) + Len(b)
      /\ \A i \in 1 .. Len(a) : ab[i] = a[i]
      /\ \A i \in 1 .. Len(b) : ab[Len(a) + i] = b[i]
  BY PartsAre
<1> HIDE DEF ab
<1>2. /\ x \in Seq(ShownEntry) /\ Len(x) = Len(a)
      /\ \A i \in 1 .. Len(a) : x[i] = [heading |-> heading, entry |-> a[i]]
  BY ShownIs
<1>3. /\ y \in Seq(ShownEntry) /\ Len(y) = Len(b)
      /\ \A i \in 1 .. Len(b) : y[i] = [heading |-> heading, entry |-> b[i]]
  BY ShownIs
<1>4. /\ s \in Seq(ShownEntry) /\ Len(s) = Len(ab)
      /\ \A i \in 1 .. Len(ab) : s[i] = [heading |-> heading, entry |-> ab[i]]
  BY <1>1, ShownIs
<1> HIDE DEF x, y, s
<1>5. /\ x \o y \in Seq(ShownEntry)
      /\ Len(x \o y) = Len(x) + Len(y)
      /\ \A i \in 1 .. Len(x) : (x \o y)[i] = x[i]
      /\ \A i \in 1 .. Len(y) : (x \o y)[Len(x) + i] = y[i]
  <2>1. x \in Seq(ShownEntry) /\ y \in Seq(ShownEntry)
    BY <1>2, <1>3
  <2> QED BY <2>1
<1> DEFINE xy == x \o y
<1> HIDE DEF xy
<1>6. xy \in Seq(ShownEntry) /\ Len(xy) = Len(s)
  BY <1>1, <1>2, <1>3, <1>4, <1>5 DEF xy
<1>7. ASSUME NEW i \in 1 .. Len(s) PROVE xy[i] = s[i]
  <2>1. CASE i \in 1 .. Len(a)
    <3>1. s[i] = [heading |-> heading, entry |-> ab[i]] /\ ab[i] = a[i]
      BY <1>1, <1>4, <2>1, Zenon
    <3>2. xy[i] = x[i] /\ x[i] = [heading |-> heading, entry |-> a[i]]
      BY <1>2, <1>5, <2>1, Zenon DEF xy
    <3> QED BY <3>1, <3>2, Zenon
  <2>2. CASE i \notin 1 .. Len(a)
    <3>1. PICK j \in 1 .. Len(b) : i = Len(a) + j
      <4>1. Len(a) \in Nat /\ Len(b) \in Nat /\ i \in 1 .. (Len(a) + Len(b))
        BY <1>1, <1>4
      <4>2. i - Len(a) \in 1 .. Len(b) /\ i = Len(a) + (i - Len(a))
        BY <2>2, <4>1
      <4> QED BY <4>2
    <3>2. s[i] = [heading |-> heading, entry |-> ab[i]] /\ ab[i] = b[j]
      BY <1>1, <1>4, <3>1, Zenon
    <3>3. xy[i] = y[j] /\ y[j] = [heading |-> heading, entry |-> b[j]]
      BY <1>2, <1>3, <1>5, <3>1, Zenon DEF xy
    <3> QED BY <3>2, <3>3, Zenon
  <2> QED BY <2>1, <2>2
<1>8. xy = s
  BY <1>4, <1>6, <1>7
<1> QED BY <1>8 DEF xy, x, y, s, ab

LEMMA PrintedIs ==
  ASSUME errors \in Seq(Entry), warnings \in Seq(Entry), printed = << >>, PrintAll
  PROVE  Shows(errors, WarningsShown, IF warnings_as_errors THEN "ERROR" ELSE "WARNING")
<1> DEFINE heading == IF warnings_as_errors THEN "ERROR" ELSE "WARNING"
<1>1. heading \in Headings /\ WarningsShown \in Seq(Entry)
  BY DEF Headings, WarningsShown
<1>2. \A h \in Headings : Shown(errors, h) \in Seq(ShownEntry) /\ Shown(WarningsShown, h) \in Seq(ShownEntry)
  BY <1>1, ShownIs
<1>3. Shown(<< >>, "WARNING") = << >>
  BY DEF Shown
<1>4. CASE warnings_as_errors
  <2>1. ErrorOutput = errors \o WarningsShown /\ WarningOutput = << >>
    BY <1>4 DEF ErrorOutput, WarningOutput, WarningsShown
  <2>2. Shown(ErrorOutput, "ERROR") = Shown(errors, "ERROR") \o Shown(WarningsShown, "ERROR")
    BY <1>1, <2>1, ShownApart DEF Headings
  <2>3. printed' = << >> \o (Shown(errors, "ERROR") \o Shown(WarningsShown, "ERROR")) \o << >>
    BY <1>3, <2>1, <2>2, Zenon DEF PrintAll
  <2> DEFINE p == Shown(errors, "ERROR") \o Shown(WarningsShown, "ERROR")
  <2>4. p \in Seq(ShownEntry)
    BY <1>2 DEF Headings
  <2> HIDE DEF p
  <2>5. << >> \o p \o << >> = p
    BY <2>4
  <2>6. printed' = Shown(errors, "ERROR") \o Shown(WarningsShown, "ERROR")
    BY <2>3, <2>5, Zenon DEF p
  <2>7. "ERROR" \in Headings
    BY DEF Headings
  <2> QED BY <1>1, <1>4, <2>6, <2>7, ShowsIs, Zenon
<1>5. CASE ~warnings_as_errors
  <2>1. ErrorOutput = errors \o << >> /\ WarningOutput = WarningsShown
    BY <1>5 DEF ErrorOutput, WarningOutput, WarningsShown
  <2>2. errors \o << >> = errors
    OBVIOUS
  <2>3. printed' = << >> \o Shown(errors, "ERROR") \o Shown(WarningsShown, "WARNING")
    BY <2>1, <2>2, Zenon DEF PrintAll
  <2>4. << >> \o Shown(errors, "ERROR") = Shown(errors, "ERROR")
    BY <1>2 DEF Headings
  <2>5. printed' = Shown(errors, "ERROR") \o Shown(WarningsShown, "WARNING")
    BY <2>3, <2>4, Zenon
  <2>6. "WARNING" \in Headings
    BY DEF Headings
  <2> QED BY <1>1, <1>5, <2>5, <2>6, ShowsIs, Zenon
<1> QED BY <1>4, <1>5

(* The places of an entry in the second part are moved by the length of    *)
(* the first, so there are as many.                                        *)
LEMMA MovedPlaces ==
  ASSUME NEW entries \in Seq(Entry), NEW entry, NEW n \in Nat, NEW S,
         S = {n + i : i \in Places(entry, entries)}
  PROVE  Cardinality(S) = Times(entry, entries)
<1> DEFINE P == Places(entry, entries)
           f == [i \in P |-> n + i]
<1>1. P \subseteq 1 .. Len(entries) /\ Len(entries) \in Nat
  BY DEF Places
<1>2. IsFiniteSet(P)
  <2>1. IsFiniteSet(1 .. Len(entries))
    BY <1>1, FS_Interval
  <2> QED BY <1>1, <2>1, FS_Subset
<1>3. Cardinality(P) = Times(entry, entries)
  BY DEF Places, Times
<1> HIDE DEF P
<1>4. f \in Bijection(P, S)
  BY <1>1 DEF Bijection, Injection, Surjection, IsInjective, P
<1>5. ExistsBijection(P, S)
  BY <1>4 DEF ExistsBijection
<1> QED BY <1>2, <1>3, <1>5, FS_Bijection

LEMMA PrintingShowsEachOnce ==
  ASSUME errors \in Seq(Entry), warnings \in Seq(Entry), LevelsInv, printed = << >>, PrintAll
  PROVE  ShowsEachOnce
<1> DEFINE W == WarningsShown
           n == Len(errors)
           heading == IF warnings_as_errors THEN "ERROR" ELSE "WARNING"
<1>1. Shows(errors, W, heading)
  BY PrintedIs
<1>2. W \in Seq(Entry) /\ n \in Nat /\ Len(W) \in Nat
  BY DEF WarningsShown
<1>3. \A i \in 1 .. Len(W) : W[i].level = "WARNING"
  BY DEF WarningsShown, LevelsInv
<1>4. \A i \in 1 .. n : errors[i].level # "WARNING"
  BY DEF LevelsInv
<1> HIDE DEF W, heading
<1>5. DOMAIN printed' = 1 .. (n + Len(W))
  BY <1>1 DEF Shows
<1>6. \A i \in 1 .. n : printed'[i].entry = errors[i] /\ printed'[i].heading = "ERROR"
  <2> SUFFICES ASSUME NEW i \in 1 .. n
               PROVE  printed'[i].entry = errors[i] /\ printed'[i].heading = "ERROR"
    BY Zenon
  <2>1. printed'[i] = [heading |-> "ERROR", entry |-> errors[i]]
    BY <1>1, Zenon DEF Shows
  <2> QED BY <2>1
<1>7. \A i \in 1 .. Len(W) : printed'[n + i].entry = W[i] /\ printed'[n + i].heading = heading
  <2> SUFFICES ASSUME NEW i \in 1 .. Len(W)
               PROVE  printed'[n + i].entry = W[i] /\ printed'[n + i].heading = heading
    BY Zenon
  <2>1. printed'[n + i] = [heading |-> heading, entry |-> W[i]]
    BY <1>1, Zenon DEF Shows
  <2> QED BY <2>1
<1>8. \A i \in 1 .. (n + Len(W)) : i \in 1 .. n \/ \E j \in 1 .. Len(W) : i = n + j
  <2> TAKE i \in 1 .. (n + Len(W))
  <2>1. CASE i > n
    <3>1. i - n \in 1 .. Len(W) /\ i = n + (i - n)
      BY <1>2, <2>1
    <3> QED BY <3>1
  <2> QED BY <1>2, <2>1
<1>9. \A i \in 1 .. n : i \in 1 .. (n + Len(W))
  BY <1>2
<1>10. \A i \in 1 .. Len(W) : n + i \in 1 .. (n + Len(W))
  BY <1>2
<1> HIDE DEF n
<1>11. ASSUME NEW entry \in Range(errors) PROVE TimesPrinted(entry) = Times(entry, errors)
  <2>1. entry.level # "WARNING"
    BY <1>4, <1>11 DEF Range, n
  <2>2. DOMAIN errors = 1 .. n
    BY DEF n
  <2>3. ASSUME NEW i PROVE i \in PlacesPrinted(entry) <=> i \in Places(entry, errors)
    <3>1. CASE i \in 1 .. n
      BY <1>5, <1>6, <1>9, <2>2, <3>1, Zenon DEF PlacesPrinted, Places
    <3>2. CASE i \notin 1 .. n
      <4>1. i \notin Places(entry, errors)
        BY <2>2, <3>2 DEF Places
      <4>2. ASSUME i \in PlacesPrinted(entry) PROVE FALSE
        <5>1. PICK j \in 1 .. Len(W) : i = n + j
          BY <1>5, <1>8, <3>2, <4>2, Zenon DEF PlacesPrinted
        <5>2. entry = W[j]
          BY <1>7, <4>2, <5>1, Zenon DEF PlacesPrinted
        <5> QED BY <1>3, <2>1, <5>2, Zenon
      <4> QED BY <4>1, <4>2
    <3> QED BY <3>1, <3>2
  <2>4. PlacesPrinted(entry) = Places(entry, errors)
    BY <2>3
  <2> QED BY <2>4, Zenon DEF TimesPrinted, Times, Places, PlacesPrinted
<1>12. ASSUME NEW entry \in Range(warnings) PROVE TimesPrinted(entry) = Times(entry, W)
  <2>1. entry.level = "WARNING"
    BY <1>12 DEF Range, LevelsInv
  <2>2. DOMAIN W = 1 .. Len(W)
    BY <1>2
  <2>3. ASSUME NEW i
        PROVE  i \in PlacesPrinted(entry) <=> \E j \in Places(entry, W) : i = n + j
    <3>1. ASSUME i \in PlacesPrinted(entry) PROVE \E j \in Places(entry, W) : i = n + j
      <4>1. i \notin 1 .. n
        BY <1>4, <1>6, <2>1, <3>1, Zenon DEF PlacesPrinted
      <4>2. PICK j \in 1 .. Len(W) : i = n + j
        BY <1>5, <1>8, <3>1, <4>1, Zenon DEF PlacesPrinted
      <4>3. j \in Places(entry, W)
        BY <1>7, <2>2, <3>1, <4>2, Zenon DEF PlacesPrinted, Places
      <4> QED BY <4>2, <4>3
    <3>2. ASSUME NEW j \in Places(entry, W), i = n + j PROVE i \in PlacesPrinted(entry)
      <4>1. j \in 1 .. Len(W) /\ W[j] = entry
        BY <2>2, Zenon DEF Places
      <4> QED BY <1>5, <1>7, <1>10, <3>2, <4>1, Zenon DEF PlacesPrinted
    <3> QED BY <3>1, <3>2
  <2>4. PlacesPrinted(entry) = {n + j : j \in Places(entry, W)}
    BY <2>3
  <2>5. n \in Nat
    BY <1>2 DEF n
  <2>6. Cardinality(PlacesPrinted(entry)) = Times(entry, W)
    BY <1>2, <2>4, <2>5, MovedPlaces
  <2> QED BY <2>6, Zenon DEF TimesPrinted, PlacesPrinted
<1>13. ASSUME NEW entry \in Range(warnings)
       PROVE  Times(entry, W) = IF suppress_warnings /\ ~warnings_as_errors
                                THEN 0 ELSE Times(entry, warnings)
  <2>1. CASE suppress_warnings /\ ~warnings_as_errors
    <3>1. W = << >>
      BY <2>1 DEF W, WarningsShown
    <3>2. {i \in DOMAIN W : W[i] = entry} = {}
      BY <3>1
    <3>3. Times(entry, W) = 0
      BY <3>2, FS_EmptySet DEF Times
    <3> QED BY <2>1, <3>3
  <2>2. CASE ~(suppress_warnings /\ ~warnings_as_errors)
    BY <2>2 DEF W, WarningsShown
  <2> QED BY <2>1, <2>2
<1>14. HasErrors <=> \E i \in DOMAIN printed' : printed'[i].heading = "ERROR"
  <2>1. n > 0 <=> errors # << >>
    BY DEF n
  <2>2. Len(W) > 0 <=> W # << >>
    BY <1>2
  <2>3. n > 0 <=> 1 \in 1 .. n
    BY <1>2 DEF n
  <2>4. Len(W) > 0 <=> 1 \in 1 .. Len(W)
    BY <1>2
  <2>5. heading = "ERROR" <=> warnings_as_errors
    BY DEF heading
  <2>6. warnings_as_errors => (W # << >> <=> warnings # << >>)
    BY DEF W, WarningsShown
  <2>7. ASSUME HasErrors PROVE \E i \in DOMAIN printed' : printed'[i].heading = "ERROR"
    <3>1. CASE errors # << >>
      BY <1>5, <1>6, <1>9, <2>1, <2>3, <3>1, Zenon
    <3>2. CASE warnings_as_errors /\ warnings # << >>
      <4>1. 1 \in 1 .. Len(W)
        BY <2>2, <2>4, <2>6, <3>2, Zenon
      <4>2. n + 1 \in DOMAIN printed' /\ printed'[n + 1].heading = heading
        BY <1>5, <1>7, <1>10, <4>1, Zenon
      <4> QED BY <2>5, <3>2, <4>2, Zenon
    <3> QED BY <2>7, <3>1, <3>2, Zenon DEF HasErrors
  <2>8. ASSUME NEW i \in DOMAIN printed', printed'[i].heading = "ERROR" PROVE HasErrors
    <3>1. CASE i \in 1 .. n
      <4>1. errors # << >>
        BY <3>1 DEF n
      <4> QED BY <4>1, Zenon DEF HasErrors
    <3>2. CASE i \notin 1 .. n
      <4>1. PICK j \in 1 .. Len(W) : i = n + j
        BY <1>5, <1>8, <2>8, <3>2, Zenon
      <4>2. heading = "ERROR"
        BY <1>7, <2>8, <4>1, Zenon
      <4>3. W # << >>
        BY <4>1
      <4> QED BY <2>5, <2>6, <4>2, <4>3, Zenon DEF HasErrors
    <3> QED BY <3>1, <3>2
  <2> QED BY <2>7, <2>8, Zenon
<1> QED BY <1>11, <1>12, <1>13, <1>14, Zenon DEF ShowsEachOnce

-----------------------------------------------------------------------------

(* The driver.                                                             *)
(* The lines the handler was given are those of the file, whether or not   *)
(* its name could be copied, and there are none until it is preprocessed.  *)
SourceOfFile ==
  /\ source.file \in {None, Current}
  /\ stage \notin {"lex", "parse", "analyze", "generate", "optimize", "assemble", "cleanup"}
       => source = NoSource

EntryOfOneFile(entry) == entry.line # None => entry.filename \in Copies(entry.line)

EntriesOfOneFile(entries) == \A i \in DOMAIN entries : EntryOfOneFile(entries[i])

FilesOK == filenames \in Seq(FileNames) /\ file \in Nat

CurrentIsFile == InFile => Current \in FileNames

LinesInv ==
  /\ ErrInv
  /\ FilesOK
  /\ CurrentIsFile
  /\ AttributedToFile
  /\ SourceOfFile
  /\ EntriesOfOneFile(errors) /\ EntriesOfOneFile(warnings)

-----------------------------------------------------------------------------

LEMMA AppendOfOneFile ==
  ASSUME NEW entries \in Seq(Entry), NEW entry \in Entry,
         EntriesOfOneFile(entries), EntryOfOneFile(entry)
  PROVE  EntriesOfOneFile(Append(entries, entry))
<1> SUFFICES ASSUME NEW i \in DOMAIN Append(entries, entry)
             PROVE  EntryOfOneFile(Append(entries, entry)[i])
  BY DEF EntriesOfOneFile
<1>1. CASE i \in DOMAIN entries
  <2>1. Append(entries, entry)[i] = entries[i]
    BY <1>1
  <2> QED BY <1>1, <2>1, Zenon DEF EntriesOfOneFile
<1>2. CASE i \notin DOMAIN entries
  <2>1. Append(entries, entry)[i] = entry
    BY <1>2
  <2> QED BY <2>1, Zenon
<1> QED BY <1>1, <1>2

(* A report adds an entry of one file, since the lines are those of the    *)
(* current file.                                                           *)
LEMMA ReportOfOneFile ==
  ASSUME LinesInv, NEW level \in Levels, NEW line \in Nat, Report(level, line)
  PROVE  /\ ErrInv'
         /\ EntriesOfOneFile(errors') /\ EntriesOfOneFile(warnings')
         /\ UNCHANGED <<source, current_filename, memory_may_fail>>
<1>1. ErrInv'
  BY ReportOK DEF LinesInv
<1>8. PICK entry \in NewEntries(level, line) : ReportsAs(entry, level)
  BY ReportKept
<1>2. /\ entry \in Entry
      /\ entry.filename \in Copies(current_filename) /\ entry.line \in {None, source.file}
  BY NewEntryOK DEF LinesInv
<1>3. EntryOfOneFile(entry)
  <2> SUFFICES ASSUME entry.line # None PROVE entry.filename \in Copies(entry.line)
    BY DEF EntryOfOneFile
  <2>1. entry.line = Current /\ source # NoSource
    BY <1>2 DEF LinesInv, SourceOfFile, NoSource
  <2>2. InFile
    BY <2>1 DEF LinesInv, SourceOfFile, InFile, Diagnostics
  <2>3. current_filename \in Copies(Current)
    BY <2>2 DEF LinesInv, AttributedToFile
  <2> QED BY <1>2, <2>1, <2>3 DEF Copies
<1>4. errors \in Seq(Entry) /\ warnings \in Seq(Entry)
  BY DEF LinesInv, ErrInv, ErrTypeOK
<1>5. errors' \in {errors, Append(errors, entry)} /\ warnings' \in {warnings, Append(warnings, entry)}
  BY <1>8 DEF ReportsAs, Kept
<1>6. EntriesOfOneFile(Append(errors, entry)) /\ EntriesOfOneFile(Append(warnings, entry))
  BY <1>2, <1>3, <1>4, AppendOfOneFile DEF LinesInv
<1>7. UNCHANGED <<source, current_filename, memory_may_fail>>
  BY ReportKept DEF attribution, session
<1> QED BY <1>1, <1>5, <1>6, <1>7 DEF LinesInv

(* What the steps that report, or change nothing of the manager, share. *)
Kind ==
  /\ ErrInv' /\ EntriesOfOneFile(errors') /\ EntriesOfOneFile(warnings')
  /\ UNCHANGED <<source, current_filename, memory_may_fail>>

(* Whether memory may fail does not change. *)
LEMMA OfOneFileStays ==
  ASSUME UNCHANGED memory_may_fail, EntriesOfOneFile(errors'), EntriesOfOneFile(warnings')
  PROVE  EntriesOfOneFile(errors)' /\ EntriesOfOneFile(warnings)'
BY DEF EntriesOfOneFile, EntryOfOneFile, Copies

LEMMA ReportOrNothing ==
  ASSUME LinesInv,
         (\E level \in Levels, line \in Nat : Report(level, line)) \/ UNCHANGED errVars
  PROVE  Kind
<1>1. CASE \E level \in Levels, line \in Nat : Report(level, line)
  BY <1>1, ReportOfOneFile DEF Kind
<1>2. CASE UNCHANGED errVars
  BY <1>2 DEF Kind, LinesInv, errVars, arrays, attribution, flags, session,
              ErrInv, ErrTypeOK, EntriesHaveSlots, Entry
<1> QED BY <1>1, <1>2

(* A step of that kind that stays in its file, or stays outside of files. *)
LEMMA StayKeeps ==
  ASSUME LinesInv, Kind,
         InFile <=> InFile',
         FilesOK', InFile => UNCHANGED <<file, filenames>>,
         stage' \in {"lex", "parse", "analyze", "generate", "optimize", "assemble", "cleanup"}
           \/ source = NoSource
  PROVE  LinesInv'
<1>1. AttributedToFile'
  BY DEF LinesInv, Kind, AttributedToFile, Current, Copies
<1>2. SourceOfFile'
  <2>1. CASE InFile
    BY <2>1 DEF LinesInv, Kind, SourceOfFile, Current
  <2>2. CASE ~InFile
    BY <2>2 DEF LinesInv, Kind, SourceOfFile, InFile, Diagnostics, NoSource
  <2> QED BY <2>1, <2>2
<1>3. CurrentIsFile'
  BY DEF LinesInv, CurrentIsFile, Current
<1> QED BY <1>1, <1>2, <1>3, OfOneFileStays DEF LinesInv, Kind

(* Printing everything and freeing the manager, outside of files. *)
LEMMA FreeKeeps ==
  ASSUME LinesInv, FreeManager, FilesOK', ~InFile'
  PROVE  LinesInv'
<1>1. ErrInv'
  BY FreeOK DEF LinesInv
<1>2. EntriesOfOneFile(errors)' /\ EntriesOfOneFile(warnings)'
  BY DEF FreeManager, EntriesOfOneFile
<1>3. AttributedToFile'
  BY DEF FreeManager, AttributedToFile
<1>4. SourceOfFile'
  BY DEF FreeManager, SourceOfFile, NoSource
<1> QED BY <1>1, <1>2, <1>3, <1>4 DEF LinesInv, CurrentIsFile

-----------------------------------------------------------------------------
(* The steps, one after the other. *)

LEMMA ParseArgumentKeeps == LinesInv /\ ParseArgument => LinesInv'
<1> SUFFICES ASSUME LinesInv, ParseArgument PROVE LinesInv'
  OBVIOUS
<1>1. (\E level \in Levels, line \in Nat : Report(level, line)) \/ UNCHANGED errVars
  BY Zenon DEF ParseArgument, ParseFileName, ParseOutput, ParseHelp, ParseOption, SetOutput, Levels
<1>2. stage = "arguments" /\ stage' \in {"arguments", "exit"} /\ file' = file
  BY DEF ParseArgument, ParseFileName, ParseOutput, ParseHelp, ParseOption, SetOutput
<1>3. \/ filenames' = filenames
      \/ Head(argv) \in FileNames /\ filenames' = Append(filenames, Head(argv))
  BY DEF ParseArgument, ParseFileName, ParseOutput, ParseHelp, ParseOption, SetOutput
<1>4. FilesOK'
  BY <1>2, <1>3 DEF LinesInv, FilesOK
<1>5. source = NoSource
  BY <1>2 DEF LinesInv, SourceOfFile
<1>6. ~InFile /\ ~InFile'
  BY <1>2 DEF InFile, Diagnostics
<1> QED BY <1>1, <1>4, <1>5, <1>6, ReportOrNothing, StayKeeps

LEMMA ConfigureKeeps == LinesInv /\ Configure => LinesInv'
<1> SUFFICES ASSUME LinesInv, Configure PROVE LinesInv'
  OBVIOUS
<1>1. Kind
  <2>1. UNCHANGED <<errors, warnings, error_capacity, warning_capacity, source, current_filename,
                  memory_may_fail>>
    BY DEF Configure, arrays, attribution, session
  <2>2. warnings_as_errors' \in BOOLEAN /\ suppress_warnings' \in BOOLEAN
    <3>1. /\ warnings_as_errors' = ("-Werror" \in options)
          /\ suppress_warnings' = ("-Wignor" \in options)
      BY Zenon DEF Configure, SetFlags
    <3>2. ("-Werror" \in options) \in BOOLEAN /\ ("-Wignor" \in options) \in BOOLEAN
      OBVIOUS
    <3> QED BY <3>1, <3>2, Zenon
  <2>3. ErrInv'
    BY <2>1, <2>2 DEF LinesInv, ErrInv, ErrTypeOK, EntriesHaveSlots, Entry
  <2>4. EntriesOfOneFile(errors') /\ EntriesOfOneFile(warnings')
    BY <2>1, Zenon DEF LinesInv
  <2> QED BY <2>1, <2>3, <2>4 DEF Kind
<1>2. stage = "arguments" /\ stage' = "check output" /\ UNCHANGED <<file, filenames>>
  BY DEF Configure, arguments
<1>3. source = NoSource
  BY <1>2 DEF LinesInv, SourceOfFile
<1>4. ~InFile /\ ~InFile'
  BY <1>2 DEF InFile, Diagnostics
<1>5. FilesOK'
  BY <1>2 DEF LinesInv, FilesOK
<1> QED BY <1>1, <1>3, <1>4, <1>5, StayKeeps

(* The tests of the arguments and the contexts: outside of files. *)
LEMMA OutsideKeeps ==
  LinesInv /\ (CheckOutput \/ CheckSources \/ CreateContext \/ RecreateContext) => LinesInv'
<1> SUFFICES ASSUME LinesInv, CheckOutput \/ CheckSources \/ CreateContext \/ RecreateContext
             PROVE  LinesInv'
  OBVIOUS
<1>1. (\E level \in Levels, line \in Nat : Report(level, line)) \/ UNCHANGED errVars
  BY Zenon DEF CheckOutput, CheckSources, CreateContext, RecreateContext, Levels
<1>2. /\ stage \in {"check output", "check sources", "context", "recreate"}
      /\ stage' \in {"check sources", "context", "next"}
      /\ UNCHANGED <<file, filenames>>
  BY DEF CheckOutput, CheckSources, CreateContext, RecreateContext, arguments
<1>3. source = NoSource
  BY <1>2 DEF LinesInv, SourceOfFile
<1>4. ~InFile /\ ~InFile'
  BY <1>2 DEF InFile, Diagnostics
<1>5. FilesOK'
  BY <1>2 DEF LinesInv, FilesOK
<1> QED BY <1>1, <1>3, <1>4, <1>5, ReportOrNothing, StayKeeps

LEMMA EndKeeps == LinesInv /\ (Refuse \/ Finish) => LinesInv'
<1> SUFFICES ASSUME LinesInv, Refuse \/ Finish PROVE LinesInv'
  OBVIOUS
<1>1. FreeManager /\ stage' = "exit" /\ UNCHANGED <<file, filenames>>
  BY DEF Refuse, Finish, arguments
<1>2. FilesOK' /\ ~InFile'
  BY <1>1 DEF LinesInv, FilesOK, InFile, Diagnostics
<1> QED BY <1>1, <1>2, FreeKeeps

(* The next file is named before anything of it can be reported. *)
LEMMA NextFileKeeps == LinesInv /\ NextFile => LinesInv'
<1> SUFFICES ASSUME LinesInv, NextFile PROVE LinesInv'
  OBVIOUS
<1>1. stage = "next" /\ file < Len(filenames) /\ file' = file + 1 /\ filenames' = filenames
  BY DEF NextFile, arguments
<1>2. FilesOK' /\ source = NoSource
  BY <1>1 DEF LinesInv, FilesOK, SourceOfFile
<1>3. CASE stage' = "read" /\ current_filename' \in Copies(filenames[file + 1])
           /\ UNCHANGED <<arrays, source, flags, session>>
  <2>1. filenames[file + 1] \in FileNames
    BY <1>1 DEF LinesInv, FilesOK
  <2>2. ErrInv'
    BY <1>3, <2>1
       DEF LinesInv, arrays, flags, session, ErrInv, ErrTypeOK, EntriesHaveSlots, Entry, Copies
  <2>3. EntriesOfOneFile(errors') /\ EntriesOfOneFile(warnings')
    BY <1>3, Zenon DEF LinesInv, arrays
  <2>4. AttributedToFile'
    BY <1>1, <1>3 DEF AttributedToFile, InFile, Current, Copies, session
  <2>5. SourceOfFile'
    BY <1>2, <1>3 DEF SourceOfFile, NoSource
  <2>6. CurrentIsFile'
    BY <1>1, <2>1 DEF CurrentIsFile, Current
  <2> QED BY <1>2, <1>3, <2>2, <2>3, <2>4, <2>5, <2>6, OfOneFileStays DEF LinesInv, session
<1>4. CASE stage' = "next" /\ Report("ERROR", 0)
  <2>1. Kind
    BY <1>4, ReportOrNothing DEF Levels
  <2>2. ~InFile /\ ~InFile'
    BY <1>1, <1>4 DEF InFile, Diagnostics
  <2> QED BY <1>2, <2>1, <2>2, StayKeeps
<1> QED BY <1>3, <1>4 DEF NextFile

-----------------------------------------------------------------------------

LEMMA DiagnoseKeeps == LinesInv /\ Diagnose => LinesInv'
<1> SUFFICES ASSUME LinesInv, Diagnose PROVE LinesInv'
  OBVIOUS
<1>1. stage \in DOMAIN Diagnostics /\ UNCHANGED <<stage, file, filenames>>
  BY DEF Diagnose, driverVars, arguments
<1>2. PICK level \in Diagnostics[stage], line \in LineNumbers : Report(level, line)
  BY DEF Diagnose
<1>3. level \in Levels
  BY <1>1, <1>2 DEF Diagnostics, Levels
<1>4. Kind
  BY <1>2, <1>3, LinesAssumption, ReportOrNothing
<1>5. InFile <=> InFile'
  BY <1>1 DEF InFile, Diagnostics
<1>6. FilesOK'
  BY <1>1 DEF LinesInv, FilesOK
<1>7. stage' \in {"lex", "parse", "analyze", "generate", "optimize", "assemble", "cleanup"}
        \/ source = NoSource
  BY <1>1 DEF LinesInv, SourceOfFile
<1> QED BY <1>1, <1>4, <1>5, <1>6, <1>7, StayKeeps

(* The stages that go from one to the next. *)
LEMMA StageKeeps ==
  LinesInv /\ (Read \/ Lex \/ Parse \/ Analyze \/ Generate \/ Optimize \/ Assemble) => LinesInv'
<1> SUFFICES ASSUME LinesInv, Read \/ Lex \/ Parse \/ Analyze \/ Generate \/ Optimize \/ Assemble
             PROVE  LinesInv'
  OBVIOUS
<1>1. (\E level \in Levels, line \in Nat : Report(level, line)) \/ UNCHANGED errVars
  BY Zenon DEF Read, Lex, Parse, Analyze, Generate, Optimize, Assemble, Levels
<1>2. UNCHANGED <<file, filenames>>
  BY DEF Read, Lex, Parse, Analyze, Generate, Optimize, Assemble, arguments
<1>3. \/ stage = "read" /\ stage' \in {"preprocess", "cleanup"}
      \/ /\ stage \in {"lex", "parse", "analyze", "generate", "optimize", "assemble"}
         /\ stage' \in {"parse", "analyze", "generate", "optimize", "assemble", "cleanup"}
  BY DEF Read, Lex, Parse, Analyze, Generate, Optimize, Assemble
<1>4. InFile /\ InFile'
  BY <1>3 DEF InFile, Diagnostics
<1>5. stage' \in {"lex", "parse", "analyze", "generate", "optimize", "assemble", "cleanup"}
        \/ source = NoSource
  BY <1>3 DEF LinesInv, SourceOfFile
<1>6. FilesOK'
  BY <1>2 DEF LinesInv, FilesOK
<1> QED BY <1>1, <1>2, <1>4, <1>5, <1>6, ReportOrNothing, StayKeeps

(* The lines set are those of the file that is named. *)
LEMMA PreprocessKeeps == LinesInv /\ Preprocess => LinesInv'
<1> SUFFICES ASSUME LinesInv, Preprocess PROVE LinesInv'
  OBVIOUS
<1>1. stage = "preprocess" /\ stage' \in {"lex", "cleanup"} /\ UNCHANGED <<file, filenames>>
  BY DEF Preprocess, arguments
<1>2. FilesOK' /\ InFile /\ InFile'
  BY <1>1 DEF LinesInv, FilesOK, InFile, Diagnostics
<1>3. current_filename \in Copies(Current)
  BY <1>2 DEF LinesInv, AttributedToFile
<1>4. CASE /\ (\E lines \in LineCounts \ {0} : SetSource(Current, lines)) \/ UNCHANGED source
           /\ UNCHANGED <<arrays, current_filename, flags, session>>
  <2>1. /\ source' \in [file : FileNames \union {None}, count : Nat]
        /\ source'.file \in {None, Current}
    <3>1. CASE UNCHANGED source
      BY <3>1 DEF LinesInv, SourceOfFile, ErrInv, ErrTypeOK
    <3>2. CASE \E lines \in LineCounts \ {0} : SetSource(Current, lines)
      <4>1. PICK lines \in LineCounts \ {0} : SetSource(Current, lines)
        BY <3>2
      <4>2. lines \in Nat /\ LineWidth \in Nat \ {0}
        BY LineCountsAssumption, WidthAssumption
      <4>3. lines % LineWidth \in Nat
        BY <4>2
      <4>4. Current \in FileNames \union {None}
        BY <1>2 DEF LinesInv, CurrentIsFile
      <4> QED BY <4>1, <4>2, <4>3, <4>4 DEF SetSource
    <3> QED BY <1>4, <3>1, <3>2
  <2>2. ErrInv'
    BY <1>4, <2>1 DEF LinesInv, arrays, flags, session, ErrInv, ErrTypeOK, EntriesHaveSlots, Entry
  <2>3. EntriesOfOneFile(errors') /\ EntriesOfOneFile(warnings')
    BY <1>4, Zenon DEF LinesInv, arrays
  <2>4. AttributedToFile'
    BY <1>1, <1>2, <1>3, <1>4 DEF AttributedToFile, Current, Copies, session
  <2>5. SourceOfFile'
    BY <1>1, <2>1 DEF SourceOfFile, Current
  <2>6. CurrentIsFile'
    BY <1>1, <1>2 DEF LinesInv, CurrentIsFile, Current
  <2> QED BY <1>2, <1>4, <2>2, <2>3, <2>4, <2>5, <2>6, OfOneFileStays DEF LinesInv, session
<1>5. CASE Report("ERROR", 0) /\ stage' = "cleanup"
  <2>1. Kind
    BY <1>5, ReportOrNothing DEF Levels
  <2> QED BY <1>1, <1>2, <1>5, <2>1, StayKeeps
<1> QED BY <1>4, <1>5 DEF Preprocess

LEMMA CleanupKeeps == LinesInv /\ Cleanup => LinesInv'
<1> SUFFICES ASSUME LinesInv, Cleanup PROVE LinesInv'
  OBVIOUS
<1>1. /\ source' = NoSource /\ current_filename' = None /\ stage' = "recreate"
      /\ UNCHANGED <<arrays, flags, session, file, filenames>>
  BY DEF Cleanup, ClearSource, arguments
<1>2. ErrInv'
  BY <1>1 DEF LinesInv, arrays, flags, session, ErrInv, ErrTypeOK, EntriesHaveSlots, Entry, NoSource
<1>3. EntriesOfOneFile(errors') /\ EntriesOfOneFile(warnings')
  BY <1>1, Zenon DEF LinesInv, arrays
<1>4. AttributedToFile' /\ SourceOfFile' /\ FilesOK'
  BY <1>1 DEF LinesInv, FilesOK, AttributedToFile, SourceOfFile, InFile, Diagnostics, NoSource
<1>5. CurrentIsFile'
  BY <1>1 DEF CurrentIsFile, InFile, Diagnostics
<1> QED BY <1>1, <1>2, <1>3, <1>4, <1>5, OfOneFileStays DEF LinesInv, session

-----------------------------------------------------------------------------

LEMMA LinesStep == LinesInv /\ [Next]_vars => LinesInv'
<1> SUFFICES ASSUME LinesInv, [Next]_vars PROVE LinesInv'
  OBVIOUS
<1>1. CASE UNCHANGED vars
  <2>1. Kind
    BY <1>1, ReportOrNothing DEF vars
  <2>2. UNCHANGED <<stage, file, filenames>>
    BY <1>1 DEF vars, driverVars, arguments
  <2>3. FilesOK' /\ (InFile <=> InFile')
    BY <2>2 DEF LinesInv, FilesOK, InFile, Diagnostics
  <2>4. stage' \in {"lex", "parse", "analyze", "generate", "optimize", "assemble", "cleanup"}
          \/ source = NoSource
    BY <2>2 DEF LinesInv, SourceOfFile
  <2> QED BY <2>1, <2>2, <2>3, <2>4, StayKeeps
<1>2. CASE ParseArgument
  BY <1>2, ParseArgumentKeeps
<1>3. CASE Configure
  BY <1>3, ConfigureKeeps
<1>4. CASE CheckOutput \/ CheckSources \/ CreateContext \/ RecreateContext
  BY <1>4, OutsideKeeps
<1>5. CASE Refuse \/ Finish
  BY <1>5, EndKeeps
<1>6. CASE NextFile
  BY <1>6, NextFileKeeps
<1>7. CASE Diagnose
  BY <1>7, DiagnoseKeeps
<1>8. CASE Read \/ Lex \/ Parse \/ Analyze \/ Generate \/ Optimize \/ Assemble
  BY <1>8, StageKeeps
<1>9. CASE Preprocess
  BY <1>9, PreprocessKeeps
<1>10. CASE Cleanup
  BY <1>10, CleanupKeeps
<1> QED BY <1>1, <1>2, <1>3, <1>4, <1>5, <1>6, <1>7, <1>8, <1>9, <1>10, Zenon
        DEF Next, ProcessFile, Exited

LEMMA LinesInvariant == Spec => []LinesInv
<1>1. Init => LinesInv
  <2> SUFFICES ASSUME Init PROVE LinesInv
    OBVIOUS
  <2>1. ErrInit
    BY DEF Init
  <2>2. EntriesOfOneFile(errors) /\ EntriesOfOneFile(warnings)
    BY <2>1 DEF ErrInit, EntriesOfOneFile
  <2>3. AttributedToFile /\ SourceOfFile /\ FilesOK /\ CurrentIsFile
    BY <2>1 DEF Init, ErrInit, AttributedToFile, SourceOfFile, FilesOK, CurrentIsFile, InFile,
                Diagnostics, NoSource
  <2> QED BY <2>1, <2>2, <2>3, InitOK DEF LinesInv
<1> QED BY <1>1, LinesStep, PTL DEF Spec

(* Every entry has a slot of its array, at any capacities and with any     *)
(* pattern of failing allocations (ensure_capacity, add_error_entry).      *)
THEOREM SlotsForEntries == Spec => []EntriesHaveSlots
<1>1. LinesInv => EntriesHaveSlots
  BY DEF LinesInv, ErrInv
<1> QED BY <1>1, LinesInvariant, PTL

(* A report made while a file is processed names that file, or none where  *)
(* its name could not be copied, and any other report names none, on every *)
(* way through process_one_file.                                           *)
THEOREM Attribution == Spec => []AttributedToFile
<1>1. LinesInv => AttributedToFile
  BY DEF LinesInv
<1> QED BY <1>1, LinesInvariant, PTL

(* No entry shows a line of another file than the one it names, whichever  *)
(* of its copies fail (add_error_entry, process_one_file).                 *)
THEOREM LinesOfFiles == Spec => []LineOfNamedFile
<1>1. LinesInv => LineOfNamedFile
  <2> SUFFICES ASSUME LinesInv PROVE LineOfNamedFile
    OBVIOUS
  <2>1. \A entry \in Range(errors) \union Range(warnings) :
          entry.line # None => entry.filename \in Copies(entry.line)
    BY DEF LinesInv, EntriesOfOneFile, EntryOfOneFile, Range
  <2>2. source.file # None => InFile /\ source.file = Current
    BY DEF LinesInv, SourceOfFile, NoSource, InFile, Diagnostics
  <2> QED BY <2>1, <2>2, Zenon DEF LineOfNamedFile
<1> QED BY <1>1, LinesInvariant, PTL

-----------------------------------------------------------------------------
(* The exit code: what a report does to errhandler__has_errors, and where  *)
(* the program is.                                                         *)

Before == {"arguments", "check output", "check sources", "context"}
Between == {"next", "recreate"}

ProgressInv ==
  /\ stage \in Stages
  /\ file \in 0 .. Len(filenames)
  /\ stage \in Before => file = 0 /\ exit_code = 0 /\ assembly = {}
  /\ InFile => file > 0
  /\ exit_code \in {0, 1}

(* While memory lasts, the exit code between two files and the errors of   *)
(* the manager say the same, and inside of a file what failed was          *)
(* reported; without memory, errors still leave no exit code of zero.      *)
ExitInv ==
  /\ stage \in Between /\ file > 0 /\ exit_code = 0 => ~HasErrors
  /\ ~memory_may_fail /\ stage \in Between => (exit_code = 0 <=> ~HasErrors)
  /\ ~memory_may_fail /\ InFile /\ (exit_code # 0 \/ err) => HasErrors

(* The effect of a step that reports or leaves the manager alone.          *)
Effect == (HasErrors => HasErrors') /\ UNCHANGED <<flags, session>>

(* The first error of all has a slot, so an error that is lost is lost to  *)
(* other errors, or to an allocation that failed.                          *)
LEMMA ErrorNoticed ==
  ASSUME ErrInv, NEW level \in Levels \ {"WARNING"}, NEW line \in Nat,
         Report(level, line), ~memory_may_fail
  PROVE  errors' # << >>
<1>6. PICK entry \in NewEntries(level, line) :
        \E added \in Added(errors, error_capacity, entry) : errors' = added[1]
  BY Zenon DEF Report
<1>1. PICK added \in Added(errors, error_capacity, entry) : errors' = added[1]
  BY <1>6
<1>2. errors \in Seq(Entry) /\ error_capacity \in Nat /\ Len(errors) <= error_capacity
  BY DEF ErrInv, ErrTypeOK, EntriesHaveSlots
<1>3. Append(errors, entry) # << >>
  BY <1>2
<1>4. CASE Len(errors) < error_capacity
  <2>1. added = <<Append(errors, entry), error_capacity>>
    BY <1>4, Zenon DEF Added
  <2> QED BY <1>1, <1>3, <2>1
<1>5. CASE ~(Len(errors) < error_capacity)
  <2>1. \/ added = <<Append(errors, entry), Grown(error_capacity)>>
        \/ added = <<errors, error_capacity>> /\ Grown(error_capacity) <= error_capacity
    BY <1>5, Zenon DEF Added
  <2>2. InitialSlots % CapacityWidth = InitialSlots
    BY SlotsAssumption, WidthAssumption
  <2>3. Grown(error_capacity) <= error_capacity => error_capacity # 0
    BY <2>2, SlotsAssumption, WidthAssumption DEF Grown
  <2>4. error_capacity # 0 => errors # << >>
    BY <1>2, <1>5
  <2> QED BY <1>1, <1>3, <2>1, <2>3, <2>4
<1> QED BY <1>4, <1>5

LEMMA ReportEffect ==
  ASSUME ErrInv, NEW level \in Levels, NEW line \in Nat, Report(level, line)
  PROVE  /\ Effect
         /\ level # "WARNING" /\ ~memory_may_fail => HasErrors'
<1>1. UNCHANGED <<attribution, flags, session>>
  BY ReportKept
<1>7. PICK entry \in NewEntries(level, line) : ReportsAs(entry, level)
  BY ReportKept
<1>2. errors \in Seq(Entry) /\ warnings \in Seq(Entry)
  BY DEF ErrInv, ErrTypeOK
<1>3. errors' \in {errors, Append(errors, entry)} /\ warnings' \in {warnings, Append(warnings, entry)}
  BY <1>7 DEF ReportsAs, Kept
<1>4. Append(errors, entry) # << >> /\ Append(warnings, entry) # << >>
  BY <1>2
<1>5. Effect
  BY <1>1, <1>3, <1>4 DEF Effect, HasErrors, flags
<1>6. level # "WARNING" /\ ~memory_may_fail => HasErrors'
  BY ErrorNoticed, Zenon DEF HasErrors
<1> QED BY <1>5, <1>6

LEMMA StutterEffect == UNCHANGED errVars => Effect /\ HasErrors' = HasErrors
BY DEF errVars, arrays, flags, Effect, HasErrors

(* Only the flags, set before all files, and printing at the end are of    *)
(* another effect.                                                         *)
LEMMA StepEffect ==
  ASSUME LinesInv, [Next]_vars
  PROVE  Effect \/ Configure \/ Refuse \/ Finish
<1>1. CASE (\E level \in Levels, line \in Nat : Report(level, line)) \/ UNCHANGED errVars
  BY <1>1, ReportEffect, StutterEffect DEF LinesInv
<1>2. CASE UNCHANGED <<arrays, flags, session>>
  BY <1>2 DEF arrays, flags, Effect, HasErrors
<1>3. CASE ParseArgument
  BY <1>1, <1>3, Zenon DEF ParseArgument, ParseFileName, ParseOutput, ParseHelp, ParseOption,
                           SetOutput, Levels
<1>4. CASE CheckOutput \/ CheckSources \/ CreateContext \/ RecreateContext
  BY <1>1, <1>4, Zenon DEF CheckOutput, CheckSources, CreateContext, RecreateContext, Levels
<1>5. CASE NextFile
  BY <1>1, <1>2, <1>5 DEF NextFile, Levels
<1>6. CASE Diagnose
  <2>1. PICK level \in Diagnostics[stage], line \in LineNumbers : Report(level, line)
    BY <1>6 DEF Diagnose
  <2>2. level \in Levels /\ line \in Nat
    BY <1>6, LinesAssumption DEF Diagnose, Diagnostics, Levels
  <2> QED BY <1>1, <2>1, <2>2
<1>7. CASE Read \/ Lex \/ Parse \/ Analyze \/ Generate \/ Optimize \/ Assemble
  BY <1>1, <1>7, Zenon DEF Read, Lex, Parse, Analyze, Generate, Optimize, Assemble, Levels
<1>8. CASE Preprocess
  BY <1>1, <1>2, <1>8 DEF Preprocess, Levels
<1>9. CASE Cleanup
  BY <1>2, <1>9 DEF Cleanup
<1>10. CASE UNCHANGED vars
  BY <1>1, <1>10 DEF vars
<1> QED BY <1>3, <1>4, <1>5, <1>6, <1>7, <1>8, <1>9, <1>10, Zenon DEF Next, ProcessFile, Exited

StagesOfFiles ==
  {"preprocess", "lex", "parse", "analyze", "generate", "optimize", "read", "assemble", "cleanup"}

LEMMA StagesAre ==
  /\ InFile <=> stage \in StagesOfFiles
  /\ InFile' <=> stage' \in StagesOfFiles
  /\ Stages = StagesOfFiles \union Before \union Between \union {"print", "exit"}
  /\ Stages' = StagesOfFiles \union Before \union Between \union {"print", "exit"}
BY DEF InFile, Stages, Diagnostics, StagesOfFiles, Before, Between

LEMMA FollowingFile ==
  ASSUME NEW n \in Nat, NEW i \in 0 .. n, i < n
  PROVE  i + 1 \in 0 .. n /\ i + 1 > 0
OBVIOUS

LEMMA NoFile == \A n \in Nat : 0 \in 0 .. n
OBVIOUS

LEMMA EffectInside ==
  ASSUME LinesInv, [Next]_vars, InFile
  PROVE  Effect
BY StepEffect, StagesAre DEF Configure, Refuse, Finish, StagesOfFiles

LEMMA ProgressStep == LinesInv /\ ProgressInv /\ [Next]_vars => ProgressInv'
<1> SUFFICES ASSUME LinesInv, ProgressInv, [Next]_vars PROVE ProgressInv'
  OBVIOUS
<1>0. Len(filenames) \in Nat /\ Len(filenames') \in Nat
  <2>1. filenames \in Seq(FileNames) /\ filenames' \in Seq(FileNames)
    BY LinesStep DEF LinesInv, FilesOK
  <2> QED BY <2>1
<1> USE StagesAre DEF ProgressInv, StagesOfFiles, Before, Between, arguments
<1>1. CASE ParseArgument
  <2>3. file = 0 /\ exit_code = 0 /\ assembly = {} /\ UNCHANGED <<file, assembly>>
    BY <1>1 DEF ParseArgument
  <2>4. \/ exit_code' = exit_code /\ stage' = stage
        \/ exit_code' \in {0, 1} /\ stage' = "exit"
    BY <1>1, Zenon DEF ParseArgument, ParseFileName, ParseOutput, ParseHelp, ParseOption, SetOutput
  <2>5. stage = "arguments"
    BY <1>1 DEF ParseArgument
  <2>6. file' \in 0 .. Len(filenames')
    BY <1>0, <2>3, NoFile, Zenon
  <2> QED BY <2>3, <2>4, <2>5, <2>6
<1>2. CASE Configure \/ CheckOutput \/ CheckSources \/ Refuse \/ CreateContext
  BY <1>2 DEF Configure, CheckOutput, CheckSources, Refuse, CreateContext
<1>3. CASE NextFile
  <2>1. /\ file < Len(filenames) /\ file' = file + 1
        /\ UNCHANGED <<filenames, assembly>>
    BY <1>3 DEF NextFile
  <2>2. \/ stage' = "read" /\ UNCHANGED exit_code
        \/ stage' = "next" /\ exit_code' = 1
    BY <1>3, Zenon DEF NextFile
  <2>3. stage' \in Stages' /\ (stage' \in Before => FALSE)
    BY <2>2
  <2>4. exit_code' \in {0, 1}
    BY <2>2
  <2>5. file' \in 0 .. Len(filenames') /\ file' > 0
    BY <1>0, <2>1, FollowingFile, Zenon
  <2> QED BY <2>3, <2>4, <2>5
<1>4. CASE RecreateContext \/ Finish
  BY <1>4 DEF RecreateContext, Finish
<1>5. CASE Diagnose
  BY <1>5 DEF Diagnose, driverVars
<1>6. CASE Read \/ Preprocess \/ Lex \/ Parse \/ Analyze
  BY <1>6 DEF Read, Preprocess, Lex, Parse, Analyze
<1>7. CASE Generate \/ Optimize \/ Assemble \/ Cleanup
  BY <1>7 DEF Generate, Optimize, Assemble, Cleanup
<1>8. CASE UNCHANGED vars
  BY <1>8 DEF vars, driverVars
<1> QED BY <1>1, <1>2, <1>3, <1>4, <1>5, <1>6, <1>7, <1>8, Zenon DEF Next, ProcessFile, Exited

(* With a report of an error that memory did not lose there are errors.    *)
LEMMA ErrorReported ==
  ASSUME LinesInv, Report("ERROR", 0)
  PROVE  Effect /\ (~memory_may_fail => HasErrors')
BY ReportEffect DEF LinesInv, Levels

(* The same with what it says of the next state spelled out, for steps     *)
(* between two files and inside of one.                                    *)
LEMMA ExitAfter ==
  ASSUME ~InFile',
         exit_code' = 0 /\ file' > 0 => ~HasErrors',
         ~memory_may_fail => (exit_code' = 0 <=> ~HasErrors'),
         memory_may_fail' <=> memory_may_fail
  PROVE  ExitInv'
BY Zenon DEF ExitInv

LEMMA ExitInside ==
  ASSUME stage' \notin Between,
         ~memory_may_fail /\ (exit_code' # 0 \/ err') => HasErrors',
         memory_may_fail' <=> memory_may_fail
  PROVE  ExitInv'
BY Zenon DEF ExitInv

LEMMA MemoryStays ==
  ASSUME LinesInv, [Next]_vars
  PROVE  memory_may_fail' <=> memory_may_fail
<1>1. CASE Effect
  BY <1>1 DEF Effect, session
<1>2. CASE Configure \/ Refuse \/ Finish
  <2>1. UNCHANGED memory_may_fail
    BY <1>2 DEF Configure, Refuse, Finish, FreeManager, session
  <2> QED BY <2>1
<1> QED BY <1>1, <1>2, StepEffect

LEMMA ExitStep == LinesInv /\ ProgressInv /\ ExitInv /\ [Next]_vars => ExitInv'
<1> SUFFICES ASSUME LinesInv, ProgressInv, ExitInv, [Next]_vars PROVE ExitInv'
  OBVIOUS
<1>0. memory_may_fail' <=> memory_may_fail
  BY MemoryStays
<1> USE DEF StagesOfFiles, Before, Between
<1>1. ASSUME ~InFile', stage' \notin Between PROVE ExitInv'
  BY <1>0, <1>1, Zenon DEF ExitInv
<1>2. CASE CreateContext
  <2>1. file = 0 /\ exit_code = 0
    BY <1>2 DEF CreateContext, ProgressInv
  <2>2. ~(file' > 0) /\ exit_code' = 0
    BY <1>2, <2>1 DEF CreateContext
  <2>5. ~HasErrors /\ ~InFile'
    BY <1>2, StagesAre DEF CreateContext
  <2>3. ~memory_may_fail => UNCHANGED errVars
    BY <1>2 DEF CreateContext, Created, NoContext
  <2>4. ~memory_may_fail => (HasErrors' <=> HasErrors)
    BY <2>3, StutterEffect
  <2> QED BY <2>2, <2>4, <2>5, <1>0, ExitAfter, Zenon
<1>3. CASE NextFile
  <2>1. CASE stage' = "read" /\ UNCHANGED <<arrays, flags, exit_code>> /\ err' = FALSE
    <3>1. /\ HasErrors' <=> HasErrors
          /\ exit_code' = exit_code /\ ~err' /\ stage' \notin Between
      BY <2>1 DEF arrays, flags, HasErrors
    <3>2. stage \in Between
      BY <1>3 DEF NextFile
    <3> QED BY <3>1, <3>2, <1>0, ExitInside, Zenon DEF ExitInv
  <2>2. CASE stage' = "next" /\ exit_code' = 1 /\ memory_may_fail
    <3>1. exit_code' # 0
      BY <2>2
    <3>2. ~InFile'
      BY <2>2, StagesAre
    <3> QED BY <2>2, <3>1, <3>2, <1>0, ExitAfter, Zenon
  <2> QED BY <1>3, <2>1, <2>2 DEF NextFile
<1>4. CASE RecreateContext
  <2>1. stage \in Between /\ ~InFile' /\ file' = file
    BY <1>4, StagesAre DEF RecreateContext
  <2>2. CASE UNCHANGED <<errVars, exit_code>>
    <3>1. HasErrors' <=> HasErrors
      BY <2>2, StutterEffect
    <3>2. exit_code' = exit_code
      BY <2>2
    <3> QED BY <2>1, <3>1, <3>2, <1>0, ExitAfter, Zenon DEF ExitInv
  <2>3. CASE exit_code' = 1 /\ memory_may_fail
    <3>1. exit_code' # 0
      BY <2>3
    <3> QED BY <2>1, <2>3, <3>1, <1>0, ExitAfter, Zenon
  <2>4. \/ UNCHANGED <<errVars, exit_code>>
        \/ exit_code' = 1 /\ semantic_ctx' \in Created /\ semantic_ctx' = NoContext
    BY <1>4, Zenon DEF RecreateContext
  <2>5. semantic_ctx' \in Created /\ semantic_ctx' = NoContext => memory_may_fail
    BY DEF Created, NoContext
  <2> QED BY <2>2, <2>3, <2>4, <2>5
<1>5. CASE Diagnose \/ Lex \/ Parse \/ Analyze \/ Assemble
  <2>1. InFile /\ stage' \notin Between
    BY <1>5, StagesAre DEF Diagnose, driverVars, Diagnostics, Lex, Parse, Analyze, Assemble
  <2>3. exit_code' = exit_code /\ err' = err
    BY <1>5 DEF Diagnose, driverVars, Lex, Parse, Analyze, Assemble, results
  <2>4. err' <=> err
    BY <2>3
  <2>2. HasErrors => HasErrors'
    BY <2>1, EffectInside DEF Effect
  <2> QED BY <2>1, <2>2, <2>3, <2>4, <1>0, ExitInside, Zenon DEF ExitInv
<1>6. CASE Read \/ Preprocess \/ Generate
  <2>1. InFile /\ stage' \notin Between /\ exit_code' = exit_code
    BY <1>6, StagesAre DEF Read, Preprocess, Generate
  <2>2. HasErrors => HasErrors'
    BY <2>1, EffectInside DEF Effect
  <2>3. ~(err' <=> err) => memory_may_fail \/ HasErrors'
    BY <1>6, ErrorReported, Zenon DEF Read, Preprocess, Generate
  <2> QED BY <2>1, <2>2, <2>3, <1>0, ExitInside, Zenon DEF ExitInv
<1>7. CASE Optimize
  <2>1. InFile /\ stage' \notin Between /\ exit_code' = exit_code
    BY <1>7, StagesAre DEF Optimize
  <2>2. err' => err \/ HasErrors
    BY <1>7 DEF Optimize
  <2>3. HasErrors' <=> HasErrors
    BY <1>7, StutterEffect DEF Optimize
  <2> QED BY <2>1, <2>2, <2>3, <1>0, ExitInside, Zenon DEF ExitInv
<1>8. CASE Cleanup
  <2>1. InFile /\ ~InFile'
    BY <1>8, StagesAre DEF Cleanup
  <2>2. IF err \/ HasErrors THEN exit_code' = 1 ELSE exit_code' = exit_code
    BY <1>8, Zenon DEF Cleanup
  <2>3. 1 # 0
    OBVIOUS
  <2>4. HasErrors' <=> HasErrors
    BY <1>8 DEF Cleanup, arrays, flags, HasErrors
  <2> QED BY <2>1, <2>2, <2>3, <2>4, <1>0, ExitAfter, Zenon DEF ExitInv
<1>9. CASE UNCHANGED vars
  <2>1. UNCHANGED <<stage, file, exit_code, err>>
    BY <1>9 DEF vars, driverVars, results
  <2>2. HasErrors' <=> HasErrors
    BY <1>9, StutterEffect DEF vars
  <2>3. err' <=> err
    BY <2>1
  <2>4. InFile' <=> InFile
    BY <2>1, StagesAre
  <2> QED BY <1>0, <2>1, <2>2, <2>3, <2>4, Zenon DEF ExitInv
<1>10. CASE ParseArgument \/ Configure \/ CheckOutput \/ CheckSources \/ Refuse \/ Finish
  <2>1. stage' \in Before \union {"exit"}
    BY <1>10, Zenon DEF ParseArgument, ParseFileName, ParseOutput, ParseHelp, ParseOption, SetOutput,
                 Configure, CheckOutput, CheckSources, Refuse, Finish
  <2>2. ~InFile' /\ stage' \notin Between
    BY <2>1, StagesAre
  <2> QED BY <1>1, <2>2
<1> QED BY <1>2, <1>3, <1>4, <1>5, <1>6, <1>7, <1>8, <1>9, <1>10, Zenon
        DEF Next, ProcessFile, Exited

LEMMA ExitInvariant == Spec => [](LinesInv /\ ProgressInv /\ ExitInv)
<1>1. Init => ProgressInv /\ ExitInv
  <2> SUFFICES ASSUME Init PROVE ProgressInv /\ ExitInv
    OBVIOUS
  <2>1. /\ stage = "arguments" /\ file = 0 /\ exit_code = 0 /\ assembly = {}
        /\ filenames = << >>
    BY DEF Init
  <2>2. 0 \in 0 .. Len(<< >>)
    OBVIOUS
  <2> QED BY <2>1, <2>2, StagesAre DEF ProgressInv, ExitInv, StagesOfFiles, Before, Between
<1> QED BY <1>1, LinesInvariant, ProgressStep, ExitStep, PTL DEF Spec

(* When the files are done, the exit code tells whether there were errors, *)
(* as long as memory lasts; without, no error that was recorded goes with  *)
(* an exit code of zero (main, process_one_file).                          *)
THEOREM ExitCode == Spec => []ExitTells
<1>1. ProgressInv /\ ExitInv => ExitTells
  BY DEF ExitInv, ExitTells, Between
<1> QED BY <1>1, ExitInvariant, PTL

-----------------------------------------------------------------------------
(* The assembly: of which files there is one.                              *)

FilesDone(n) == {filenames[i] : i \in 1 .. n}
FilesSoFar == FilesDone(file)
FilesBefore == FilesDone(file - 1)

(* Assembly is only of the files so far, and none of the current one until *)
(* its last stage.                                                         *)
OnlyOfDone ==
  /\ assembly \subseteq FilesSoFar
  /\ InFile /\ stage # "cleanup" => assembly \subseteq FilesBefore

(* Under -S and while memory lasts there is a semantic context, no stage   *)
(* is left out without an error, and a success so far means that all files *)
(* so far have their assembly.                                             *)
AllOfDone ==
  /\ stage \in Between \/ InFile => semantic_ctx # NoContext
  /\ stage \in Between /\ exit_code = 0 => FilesSoFar \subseteq assembly
  /\ InFile /\ exit_code = 0 => FilesBefore \subseteq assembly
  /\ stage \in {"optimize", "assemble"} => HasErrors \/ ir_mod
  /\ stage = "cleanup" => HasErrors \/ Current \in assembly

AssemblyInv ==
  /\ OnlyOfDone
  /\ ~memory_may_fail /\ "-S" \in options => AllOfDone

LEMMA NothingDone == FilesDone(0) = {}
BY DEF FilesDone

LEMMA CurrentIsLast ==
  ASSUME LinesInv, ProgressInv, InFile
  PROVE  /\ FilesSoFar = FilesBefore \union {Current}
         /\ Current \in FileNames
<1>1. file \in 1 .. Len(filenames) /\ filenames \in Seq(FileNames)
  BY DEF LinesInv, FilesOK, ProgressInv
<1> QED BY <1>1 DEF FilesSoFar, FilesBefore, FilesDone, Current

(* Once the arguments are read, they stay.                                 *)
LEMMA ArgumentsStay ==
  ASSUME [Next]_vars, ~ParseArgument
  PROVE  UNCHANGED <<filenames, options>>
BY DEF Next, ProcessFile, Exited, vars, driverVars, arguments, Configure, CheckOutput,
       CheckSources, Refuse, CreateContext, NextFile, Diagnose, Read, Preprocess, Lex, Parse,
       Analyze, Generate, Optimize, Assemble, Cleanup, RecreateContext, Finish

LEMMA FilesStay ==
  ASSUME UNCHANGED <<filenames, file>>
  PROVE  FilesSoFar' = FilesSoFar /\ FilesBefore' = FilesBefore /\ Current' = Current
BY DEF FilesSoFar, FilesBefore, FilesDone, Current

LEMMA FollowingFiles ==
  ASSUME ProgressInv, file' = file + 1, UNCHANGED filenames
  PROVE  FilesBefore' = FilesSoFar /\ FilesSoFar \subseteq FilesSoFar'
<1>1. file \in Nat /\ file' - 1 = file
  BY DEF ProgressInv
<1> QED BY <1>1 DEF FilesSoFar, FilesBefore, FilesDone

LEMMA OnlyOfDoneStep == LinesInv /\ ProgressInv /\ OnlyOfDone /\ [Next]_vars => OnlyOfDone'
<1> SUFFICES ASSUME LinesInv, ProgressInv, OnlyOfDone, [Next]_vars PROVE OnlyOfDone'
  OBVIOUS
<1>1. CASE ParseArgument
  <2>1. assembly' = {}
    BY <1>1 DEF ParseArgument, ProgressInv, Before
  <2> QED BY <2>1 DEF OnlyOfDone
<1>2. CASE NextFile
  <2>1. file' = file + 1 /\ UNCHANGED <<filenames, assembly>>
    BY <1>2 DEF NextFile, arguments
  <2> QED BY <2>1, FollowingFiles DEF OnlyOfDone
<1>3. CASE Assemble
  <2>1. /\ InFile /\ assembly' \in {assembly, assembly \union {Current}}
        /\ stage' = "cleanup" /\ UNCHANGED <<filenames, file>>
    BY <1>3, StagesAre DEF Assemble, arguments, StagesOfFiles
  <2>2. FilesSoFar' = FilesSoFar /\ FilesSoFar = FilesBefore \union {Current}
    BY <2>1, FilesStay, CurrentIsLast
  <2> QED BY <2>1, <2>2 DEF OnlyOfDone
<1>4. CASE \/ Configure \/ CheckOutput \/ CheckSources \/ Refuse \/ CreateContext
           \/ RecreateContext \/ Finish \/ Cleanup
  <2>1. UNCHANGED <<filenames, file, assembly>>
    BY <1>4 DEF Configure, CheckOutput, CheckSources, Refuse, CreateContext, RecreateContext,
                Finish, Cleanup, arguments
  <2>2. ~InFile'
    BY <1>4, StagesAre DEF Configure, CheckOutput, CheckSources, Refuse, CreateContext,
       RecreateContext, Finish, Cleanup, StagesOfFiles
  <2> QED BY <2>1, <2>2, FilesStay, Zenon DEF OnlyOfDone
<1>5. CASE Read \/ Preprocess \/ Lex \/ Parse \/ Analyze \/ Generate \/ Optimize
  <2>1. UNCHANGED <<filenames, file, assembly>>
    BY <1>5 DEF Read, Preprocess, Lex, Parse, Analyze, Generate, Optimize, arguments
  <2>2. InFile /\ stage # "cleanup"
    BY <1>5, StagesAre DEF Read, Preprocess, Lex, Parse, Analyze, Generate, Optimize, StagesOfFiles
  <2> QED BY <2>1, <2>2, FilesStay, Zenon DEF OnlyOfDone
<1>6. CASE Diagnose \/ UNCHANGED vars
  <2>1. UNCHANGED <<filenames, file, assembly, stage>>
    BY <1>6 DEF Diagnose, vars, driverVars, arguments
  <2>2. InFile' <=> InFile
    BY <2>1, StagesAre
  <2> QED BY <2>1, <2>2, FilesStay, Zenon DEF OnlyOfDone
<1> QED BY <1>1, <1>2, <1>3, <1>4, <1>5, <1>6, Zenon DEF Next, ProcessFile, Exited

(* The steps of AllOfDone, for an execution in which memory lasts.         *)
MemoryLasts == ~memory_may_fail /\ "-S" \in options

LEMMA AllOfDoneStep ==
  ASSUME LinesInv, ProgressInv, ExitInv, OnlyOfDone, MemoryLasts, ~ParseArgument,
         AllOfDone, [Next]_vars
  PROVE  AllOfDone'
<1> USE DEF StagesOfFiles, Before, Between, MemoryLasts
<1>1. CASE Configure \/ CheckOutput \/ CheckSources \/ Refuse \/ Finish
  <2>1. stage' \in Before \union {"exit"}
    BY <1>1, Zenon DEF Configure, CheckOutput, CheckSources, Refuse, Finish
  <2>2. ~InFile'
    BY <2>1, StagesAre
  <2> QED BY <2>1, <2>2 DEF AllOfDone
<1>2. CASE CreateContext
  <2>1. FilesSoFar' = {}
    BY <1>2, FilesStay, NothingDone DEF CreateContext, ProgressInv, FilesSoFar, arguments
  <2>2. ~InFile' /\ stage' = "next"
    BY <1>2, StagesAre DEF CreateContext
  <2>3. semantic_ctx' # NoContext
    BY <1>2 DEF CreateContext, Created, NoContext
  <2> QED BY <2>1, <2>2, <2>3, Zenon DEF AllOfDone
<1>3. CASE NextFile
  <2>1. /\ file' = file + 1 /\ UNCHANGED <<filenames, semantic_ctx, assembly>>
        /\ stage = "next" /\ stage' = "read" /\ exit_code' = exit_code
    BY <1>3 DEF NextFile, arguments
  <2>2. FilesBefore' = FilesSoFar
    BY <2>1, FollowingFiles
  <2>3. stage' \notin Between \union {"optimize", "assemble", "cleanup"} /\ stage \in Between
    BY <2>1
  <2> QED BY <2>1, <2>2, <2>3, Zenon DEF AllOfDone
<1>4. CASE RecreateContext
  <2>1. semantic_ctx' # NoContext => UNCHANGED exit_code
    BY <1>4 DEF RecreateContext
  <2>2. semantic_ctx # NoContext => semantic_ctx' # NoContext
    BY <1>4 DEF RecreateContext, Created, NoContext
  <2>3. stage \in Between /\ stage' = "next" /\ UNCHANGED <<filenames, file, assembly>>
    BY <1>4 DEF RecreateContext, arguments
  <2>4. ~InFile'
    BY <2>3, StagesAre
  <2> QED BY <2>1, <2>2, <2>3, <2>4, FilesStay DEF AllOfDone
<1>5. CASE Cleanup
  <2>1. /\ InFile /\ ~InFile' /\ stage = "cleanup" /\ stage' = "recreate"
        /\ UNCHANGED <<filenames, file, semantic_ctx, assembly>>
    BY <1>5, StagesAre DEF Cleanup, arguments
  <2>2. FilesSoFar' = FilesSoFar /\ FilesSoFar = FilesBefore \union {Current}
    BY <2>1, FilesStay, CurrentIsLast
  <2>3. IF err \/ HasErrors THEN exit_code' = 1 ELSE exit_code' = exit_code
    BY <1>5, Zenon DEF Cleanup
  <2>4. 1 # 0
    OBVIOUS
  <2>5. exit_code' = 0 => ~HasErrors /\ exit_code = 0
    BY <2>3, <2>4, Zenon
  <2>6. exit_code' = 0 => FilesSoFar' \subseteq assembly'
    <3>1. ASSUME exit_code' = 0 PROVE FilesBefore \subseteq assembly /\ Current \in assembly
      BY <2>1, <2>5, <3>1, Zenon DEF AllOfDone
    <3> QED BY <2>1, <2>2, <3>1
  <2>7. semantic_ctx' # NoContext
    BY <2>1 DEF AllOfDone
  <2>8. stage' \notin {"optimize", "assemble", "cleanup"}
    BY <2>1
  <2> QED BY <2>1, <2>6, <2>7, <2>8, Zenon DEF AllOfDone
(* Inside of a file: a context and the files before stay.                  *)
<1>6. ASSUME InFile, InFile', UNCHANGED <<filenames, file, exit_code>>,
             assembly \subseteq assembly', semantic_ctx' # NoContext,
             stage' \in {"optimize", "assemble"} => HasErrors' \/ ir_mod',
             stage' = "cleanup" => HasErrors' \/ Current \in assembly'
      PROVE  AllOfDone'
  <2>1. FilesBefore' = FilesBefore /\ Current' = Current
    BY <1>6, FilesStay
  <2>2. stage' \notin Between
    BY <1>6, StagesAre
  <2>3. exit_code' = 0 => FilesBefore' \subseteq assembly'
    BY <1>6, <2>1 DEF AllOfDone
  <2> QED BY <1>6, <2>1, <2>2, <2>3, Zenon DEF AllOfDone
<1>7. CASE Diagnose
  <2>1. /\ InFile /\ stage' = stage /\ UNCHANGED <<filenames, file, exit_code, assembly, semantic_ctx>>
        /\ ir_mod' = ir_mod
    BY <1>7, StagesAre DEF Diagnose, Diagnostics, driverVars, arguments, results
  <2>2. HasErrors => HasErrors'
    BY <2>1, EffectInside DEF Effect
  <2>3. stage # "cleanup"
    BY <1>7 DEF Diagnose, Diagnostics
  <2>4. InFile'
    BY <2>1, StagesAre
  <2>5. semantic_ctx' # NoContext
    BY <2>1 DEF AllOfDone
  <2>6. stage \in {"optimize", "assemble"} => HasErrors \/ ir_mod
    BY DEF AllOfDone
  <2>7. ir_mod => ir_mod'
    BY <2>1
  <2>8. stage' \in {"optimize", "assemble"} => HasErrors' \/ ir_mod'
    BY <2>1, <2>2, <2>6, <2>7, Zenon
  <2> QED BY <1>6, <2>1, <2>3, <2>4, <2>5, <2>8
<1>8. CASE Read \/ Preprocess
  <2>1. /\ InFile /\ stage' \in {"preprocess", "lex", "cleanup"}
        /\ UNCHANGED <<filenames, file, exit_code, assembly, semantic_ctx>>
    BY <1>8, StagesAre DEF Read, Preprocess, arguments
  <2>2. stage' = "cleanup" => HasErrors'
    BY <1>8, ErrorReported, Zenon DEF Read, Preprocess
  <2>3. InFile'
    BY <2>1, StagesAre
  <2>4. semantic_ctx' # NoContext
    BY <2>1 DEF AllOfDone
  <2> QED BY <1>6, <2>1, <2>2, <2>3, <2>4
<1>9. CASE Lex \/ Parse \/ Analyze
  <2>1. /\ InFile /\ stage' \in {"parse", "analyze", "generate", "assemble"}
        /\ UNCHANGED <<filenames, file, exit_code, assembly>>
    BY <1>9, StagesAre DEF Lex, Parse, Analyze, arguments
  <2>2. semantic_ctx # NoContext
    BY <2>1 DEF AllOfDone
  <2>3. semantic_ctx' # NoContext
    BY <1>9, <2>2 DEF Lex, Parse, Analyze, NoContext
  <2>7. UNCHANGED errVars
    BY <1>9 DEF Lex, Parse, Analyze
  <2>4. HasErrors' <=> HasErrors
    BY <2>7, StutterEffect
  <2>5. stage' = "assemble" => HasErrors
    BY <1>9, <2>2 DEF Lex, Parse, Analyze
  <2>6. InFile'
    BY <2>1, StagesAre
  <2> QED BY <1>6, <2>1, <2>3, <2>4, <2>5, <2>6
<1>10. CASE Generate
  <2>1. /\ InFile /\ UNCHANGED <<filenames, file, exit_code, assembly, semantic_ctx>>
        /\ stage' \in {"assemble", "optimize"}
    BY <1>10, StagesAre DEF Generate, arguments
  <2>2. ir_mod'
    BY <1>10 DEF Generate
  <2>3. InFile'
    BY <2>1, StagesAre
  <2>4. semantic_ctx' # NoContext
    BY <2>1 DEF AllOfDone
  <2> QED BY <1>6, <2>1, <2>2, <2>3, <2>4
<1>11. CASE Optimize
  <2>1. /\ InFile /\ UNCHANGED <<filenames, file, exit_code, assembly, semantic_ctx, ir_mod>>
        /\ stage = "optimize" /\ stage' = "assemble"
    BY <1>11, StagesAre DEF Optimize, arguments
  <2>2. HasErrors' <=> HasErrors
    BY <1>11, StutterEffect DEF Optimize
  <2>3. HasErrors \/ ir_mod
    BY <2>1 DEF AllOfDone
  <2>4. ir_mod => ir_mod'
    BY <2>1
  <2>5. InFile' /\ semantic_ctx' # NoContext
    BY <2>1, StagesAre DEF AllOfDone
  <2>6. HasErrors' \/ ir_mod'
    BY <2>2, <2>3, <2>4, Zenon
  <2> QED BY <1>6, <2>1, <2>5, <2>6
<1>12. CASE Assemble
  <2>1. /\ InFile /\ UNCHANGED <<filenames, file, exit_code, semantic_ctx>>
        /\ stage = "assemble" /\ stage' = "cleanup"
        /\ assembly' \in {assembly, assembly \union {Current}}
    BY <1>12, StagesAre DEF Assemble, arguments
  <2>2. HasErrors \/ ir_mod
    BY <2>1 DEF AllOfDone
  <2>3. HasErrors => HasErrors'
    BY <2>1, EffectInside DEF Effect
  <2>4. HasErrors' \/ assembly' = assembly \union {Current}
    BY <1>12, <2>2, <2>3, ErrorReported, Zenon DEF Assemble
  <2>5. InFile' /\ semantic_ctx' # NoContext
    BY <2>1, StagesAre DEF AllOfDone
  <2>6. assembly \subseteq assembly'
    BY <2>1
  <2>7. HasErrors' \/ Current \in assembly'
    BY <2>4
  <2> QED BY <1>6, <2>1, <2>5, <2>6, <2>7
<1>13. CASE UNCHANGED vars
  <2>1. UNCHANGED <<filenames, file, exit_code, semantic_ctx, ir_mod, assembly, stage>>
    BY <1>13 DEF vars, driverVars, arguments, results
  <2>2. HasErrors' <=> HasErrors
    BY <1>13, StutterEffect DEF vars
  <2>3. ir_mod' <=> ir_mod
    BY <2>1
  <2>4. InFile' <=> InFile
    BY <2>1, StagesAre
  <2> QED BY <2>1, <2>2, <2>3, <2>4, FilesStay, Zenon DEF AllOfDone
<1> QED BY <1>1, <1>2, <1>3, <1>4, <1>5, <1>7, <1>8, <1>9, <1>10, <1>11, <1>12, <1>13, Zenon
        DEF Next, ProcessFile, Exited

(* Before the files there is nothing that AllOfDone speaks of.             *)
LEMMA AssemblyStep == LinesInv /\ ProgressInv /\ ExitInv /\ AssemblyInv /\ [Next]_vars => AssemblyInv'
<1> SUFFICES ASSUME LinesInv, ProgressInv, ExitInv, AssemblyInv, [Next]_vars PROVE AssemblyInv'
  OBVIOUS
<1>1. OnlyOfDone'
  BY OnlyOfDoneStep DEF AssemblyInv
<1>2. CASE ParseArgument
  <2>1. stage' \in {"arguments", "exit"}
    BY <1>2 DEF ParseArgument, ParseFileName, ParseOutput, ParseHelp, ParseOption, SetOutput
  <2>2. ~InFile'
    BY <2>1, StagesAre DEF StagesOfFiles
  <2>3. AllOfDone'
    BY <2>1, <2>2 DEF AllOfDone, Between
  <2> QED BY <1>1, <2>3, Zenon DEF AssemblyInv
<1>3. CASE ~ParseArgument
  <2>1. memory_may_fail' <=> memory_may_fail
    BY MemoryStays
  <2>2. "-S" \in options' <=> "-S" \in options
    BY <1>3, ArgumentsStay
  <2>3. ~memory_may_fail /\ "-S" \in options => AllOfDone'
    BY <1>3, AllOfDoneStep, Zenon DEF AssemblyInv, MemoryLasts
  <2> QED BY <1>1, <2>1, <2>2, <2>3, Zenon DEF AssemblyInv
<1> QED BY <1>2, <1>3

-----------------------------------------------------------------------------
(* No error, and under -Werror no warning, names a file that has assembly. *)

NoneNames(entries, files) == \A i \in DOMAIN entries : entries[i].filename \notin files

CleanInv ==
  IsInjective(filenames) =>
    /\ NoneNames(errors, assembly)
    /\ warnings_as_errors => NoneNames(warnings, assembly)

LEMMA AppendedNames ==
  ASSUME NEW entries, NEW files, NEW entry \in Entry, entries \in Seq(Entry),
         NoneNames(entries, files), entry.filename \notin files
  PROVE  NoneNames(Append(entries, entry), files)
<1> SUFFICES ASSUME NEW i \in DOMAIN Append(entries, entry)
             PROVE  Append(entries, entry)[i].filename \notin files
  BY DEF NoneNames
<1>1. CASE i \in DOMAIN entries
  <2>1. Append(entries, entry)[i] = entries[i]
    BY <1>1
  <2> QED BY <1>1, <2>1, Zenon DEF NoneNames
<1>2. CASE i \notin DOMAIN entries
  <2>1. Append(entries, entry)[i] = entry
    BY <1>2
  <2> QED BY <2>1, Zenon
<1> QED BY <1>1, <1>2

(* A report names the current file, or none.                               *)
LEMMA ReportNames ==
  ASSUME LinesInv, NEW level \in Levels, NEW line \in Nat, Report(level, line),
         NEW files, current_filename \notin files, None \notin files
  PROVE  /\ NoneNames(errors, files) => NoneNames(errors', files)
         /\ NoneNames(warnings, files) => NoneNames(warnings', files)
         /\ UNCHANGED warnings_as_errors
<1>7. PICK entry \in NewEntries(level, line) : ReportsAs(entry, level)
  BY ReportKept
<1>1. entry \in Entry /\ entry.filename \notin files
  BY NewEntryOK DEF LinesInv, Copies
<1>2. errors \in Seq(Entry) /\ warnings \in Seq(Entry)
  BY DEF LinesInv, ErrInv, ErrTypeOK
<1>3. errors' \in {errors, Append(errors, entry)} /\ warnings' \in {warnings, Append(warnings, entry)}
  BY <1>7 DEF ReportsAs, Kept
<1>4. UNCHANGED warnings_as_errors
  BY ReportKept DEF flags
<1>5. NoneNames(errors, files) => NoneNames(Append(errors, entry), files)
  BY <1>1, <1>2, AppendedNames
<1>6. NoneNames(warnings, files) => NoneNames(Append(warnings, entry), files)
  BY <1>1, <1>2, AppendedNames
<1> QED BY <1>3, <1>4, <1>5, <1>6, Zenon

(* The file that is processed has no assembly yet, and NULL is no file.    *)
LEMMA CurrentIsClean ==
  ASSUME LinesInv, ProgressInv, OnlyOfDone, IsInjective(filenames), stage # "cleanup"
  PROVE  current_filename \notin assembly /\ None \notin assembly
<1>3. None \notin assembly
  <2>1. file \in 0 .. Len(filenames) /\ filenames \in Seq(FileNames)
    BY DEF LinesInv, FilesOK, ProgressInv
  <2>2. FilesSoFar \subseteq FileNames
    BY <2>1 DEF FilesSoFar, FilesDone
  <2> QED BY <2>2, NoneAssumption DEF OnlyOfDone
<1>1. CASE InFile
  <2>1. file \in 1 .. Len(filenames) /\ filenames \in Seq(FileNames)
    BY <1>1 DEF LinesInv, FilesOK, ProgressInv
  <2>2. filenames[file] \notin FilesBefore
    BY <2>1 DEF IsInjective, FilesBefore, FilesDone
  <2>3. current_filename \in {None, filenames[file]} /\ assembly \subseteq FilesBefore
    BY <1>1 DEF LinesInv, AttributedToFile, Current, OnlyOfDone, Copies
  <2> QED BY <1>3, <2>2, <2>3
<1>2. CASE ~InFile
  <2>1. current_filename = None
    BY <1>2 DEF LinesInv, AttributedToFile
  <2> QED BY <1>3, <2>1
<1> QED BY <1>1, <1>2

LEMMA CleanStep == LinesInv /\ ProgressInv /\ OnlyOfDone /\ CleanInv /\ [Next]_vars => CleanInv'
<1> SUFFICES ASSUME LinesInv, ProgressInv, OnlyOfDone, CleanInv, [Next]_vars PROVE CleanInv'
  OBVIOUS
<1>1. CASE ParseArgument \/ Configure \/ CheckOutput \/ CheckSources \/ Refuse \/ CreateContext
  <2>1. assembly' = {}
    BY <1>1 DEF ParseArgument, Configure, CheckOutput, CheckSources, Refuse, CreateContext,
                ProgressInv, Before
  <2> QED BY <2>1 DEF CleanInv, NoneNames
<1>2. CASE Finish
  <2>1. errors' = << >> /\ warnings' = << >>
    BY <1>2 DEF Finish, FreeManager
  <2> QED BY <2>1 DEF CleanInv, NoneNames
<1>3. ASSUME ~ParseArgument, UNCHANGED <<arrays, flags, assembly>> PROVE CleanInv'
  <2>1. UNCHANGED <<errors, warnings, warnings_as_errors, assembly, filenames>>
    BY <1>3, ArgumentsStay DEF arrays, flags
  <2>2. warnings_as_errors' <=> warnings_as_errors
    BY <2>1
  <2> QED BY <2>1, <2>2, Zenon DEF CleanInv
<1>4. ASSUME ~ParseArgument, stage # "cleanup", UNCHANGED assembly,
             \E level \in Levels, line \in Nat : Report(level, line)
      PROVE  CleanInv'
  <2>1. UNCHANGED filenames
    BY <1>4, ArgumentsStay
  <2> SUFFICES ASSUME IsInjective(filenames)
               PROVE  /\ NoneNames(errors', assembly)
                      /\ warnings_as_errors' => NoneNames(warnings', assembly)
    BY <1>4, <2>1 DEF CleanInv
  <2>2. current_filename \notin assembly /\ None \notin assembly
    BY <1>4, CurrentIsClean
  <2>3. /\ NoneNames(errors, assembly) => NoneNames(errors', assembly)
        /\ NoneNames(warnings, assembly) => NoneNames(warnings', assembly)
        /\ UNCHANGED warnings_as_errors
    BY <1>4, <2>2, ReportNames
  <2>4. warnings_as_errors' <=> warnings_as_errors
    BY <2>3
  <2> QED BY <2>3, <2>4, Zenon DEF CleanInv
<1>5. CASE NextFile
  <2>1. stage # "cleanup" /\ UNCHANGED assembly /\ ~ParseArgument
    BY <1>5 DEF NextFile, ParseArgument
  <2>2. CASE UNCHANGED <<arrays, flags>>
    BY <1>3, <2>1, <2>2
  <2>3. CASE Report("ERROR", 0)
    BY <1>4, <2>1, <2>3 DEF Levels
  <2> QED BY <1>5, <2>2, <2>3 DEF NextFile
<1>6. CASE RecreateContext \/ Read \/ Preprocess \/ Generate
  <2>1. stage # "cleanup" /\ UNCHANGED assembly /\ ~ParseArgument
    BY <1>6 DEF RecreateContext, Read, Preprocess, Generate, ParseArgument
  <2>2. Report("ERROR", 0) \/ UNCHANGED errVars \/ UNCHANGED <<arrays, flags>>
    BY <1>6, Zenon DEF RecreateContext, Read, Preprocess, Generate
  <2>3. UNCHANGED errVars => UNCHANGED <<arrays, flags>>
    BY DEF errVars
  <2> QED BY <1>3, <1>4, <2>1, <2>2, <2>3 DEF Levels
<1>7. CASE Diagnose
  <2>1. stage # "cleanup" /\ UNCHANGED assembly /\ ~ParseArgument
    BY <1>7 DEF Diagnose, driverVars, Diagnostics, ParseArgument
  <2>2. PICK level \in Diagnostics[stage], line \in LineNumbers : Report(level, line)
    BY <1>7 DEF Diagnose
  <2>3. level \in Levels /\ line \in Nat
    BY <1>7, LinesAssumption DEF Diagnose, Diagnostics, Levels
  <2> QED BY <1>4, <2>1, <2>2, <2>3
<1>8. CASE Lex \/ Parse \/ Analyze \/ Optimize \/ Cleanup
  <2>1. UNCHANGED <<arrays, flags, assembly>> /\ ~ParseArgument
    BY <1>8 DEF Lex, Parse, Analyze, Optimize, Cleanup, errVars, ParseArgument
  <2> QED BY <1>3, <2>1
<1>9. CASE Assemble
  <2>1. stage # "cleanup" /\ ~ParseArgument
    BY <1>9 DEF Assemble, ParseArgument
  <2>2. CASE ~HasErrors /\ UNCHANGED errVars
    <3>1. errors' = << >> /\ (warnings_as_errors' => warnings' = << >>)
      BY <2>2, Zenon DEF HasErrors, errVars, arrays, flags
    <3>2. NoneNames(<< >>, assembly')
      BY DEF NoneNames
    <3> QED BY <3>1, <3>2, Zenon DEF CleanInv
  <2>3. CASE Report("ERROR", 0) /\ UNCHANGED assembly
    BY <1>4, <2>1, <2>3 DEF Levels
  <2>4. CASE UNCHANGED <<assembly, errVars>>
    BY <1>3, <2>1, <2>4 DEF errVars
  <2> QED BY <1>9, <2>2, <2>3, <2>4, Zenon DEF Assemble
<1>10. CASE UNCHANGED vars
  <2>1. UNCHANGED <<arrays, flags, assembly, filenames>>
    BY <1>10 DEF vars, driverVars, arguments, errVars
  <2> QED BY <2>1 DEF CleanInv, arrays, flags
<1> QED BY <1>1, <1>2, <1>5, <1>6, <1>7, <1>8, <1>9, <1>10, Zenon DEF Next, ProcessFile, Exited

DriverInv == LinesInv /\ ProgressInv /\ ExitInv /\ AssemblyInv /\ CleanInv

LEMMA DriverInvariant == Spec => []DriverInv
<1>1. Init => AssemblyInv /\ CleanInv
  <2> SUFFICES ASSUME Init PROVE AssemblyInv /\ CleanInv
    OBVIOUS
  <2>1. assembly = {} /\ stage = "arguments"
    BY DEF Init
  <2>2. ~InFile
    BY <2>1, StagesAre DEF StagesOfFiles
  <2>3. OnlyOfDone /\ AllOfDone
    BY <2>1, <2>2 DEF OnlyOfDone, AllOfDone, Between
  <2>4. CleanInv
    BY <2>1 DEF CleanInv, NoneNames
  <2> QED BY <2>3, <2>4, Zenon DEF AssemblyInv
<1>2. AssemblyInv => OnlyOfDone
  BY DEF AssemblyInv
<1> QED BY <1>1, <1>2, ExitInvariant, AssemblyStep, CleanStep, PTL DEF Spec, DriverInv

(* Under -S a success leaves the assembly of every source, while memory    *)
(* lasts, and no source that an error shown names has any, however many    *)
(* files there are and whatever fails (process_one_file).                  *)
THEOREM AssemblyOfClean == Spec => []AssemblyOfCleanSources
<1>1. DriverInv => AssemblyOfCleanSources
  <2> SUFFICES ASSUME DriverInv, stage = "next", file = Len(filenames), "-S" \in options
               PROVE  /\ exit_code = 0 /\ ~memory_may_fail => assembly = Range(filenames)
                      /\ IsInjective(filenames) =>
                           \A entry \in Range(ErrorOutput) : entry.filename \notin assembly
    BY Zenon DEF AssemblyOfCleanSources
  <2>1. FilesSoFar = Range(filenames)
    BY DEF DriverInv, LinesInv, FilesOK, FilesSoFar, FilesDone, Range
  <2>2. exit_code = 0 /\ ~memory_may_fail => FilesSoFar \subseteq assembly
    BY Zenon DEF DriverInv, AssemblyInv, AllOfDone, Between
  <2>3. assembly \subseteq FilesSoFar
    BY DEF DriverInv, AssemblyInv, OnlyOfDone
  <2>4. ASSUME IsInjective(filenames), NEW entry \in Range(ErrorOutput)
        PROVE  entry.filename \notin assembly
    <3>1. errors \in Seq(Entry) /\ warnings \in Seq(Entry)
      BY DEF DriverInv, LinesInv, ErrInv, ErrTypeOK
    <3>2. \/ entry \in Range(errors)
          \/ warnings_as_errors /\ entry \in Range(warnings)
      BY <2>4, <3>1 DEF ErrorOutput, Range
    <3> QED BY <2>4, <3>2 DEF DriverInv, CleanInv, NoneNames, Range
  <2> QED BY <2>1, <2>2, <2>3, <2>4
<1> QED BY <1>1, DriverInvariant, PTL

-----------------------------------------------------------------------------
(* What is printed at the end. *)

PrintedInv == LevelsInv /\ (stage # "exit" => printed = << >>)

LEMMA AppendedLevels ==
  ASSUME NEW entries \in Seq(Entry), NEW entry \in Entry, NEW levels,
         \A i \in DOMAIN entries : entries[i].level \in levels, entry.level \in levels
  PROVE  \A i \in DOMAIN Append(entries, entry) : Append(entries, entry)[i].level \in levels
<1> SUFFICES ASSUME NEW i \in DOMAIN Append(entries, entry)
             PROVE  Append(entries, entry)[i].level \in levels
  OBVIOUS
<1>1. CASE i \in DOMAIN entries
  <2>1. Append(entries, entry)[i] = entries[i]
    BY <1>1
  <2> QED BY <1>1, <2>1, Zenon
<1>2. CASE i \notin DOMAIN entries
  <2>1. Append(entries, entry)[i] = entry
    BY <1>2
  <2> QED BY <2>1, Zenon
<1> QED BY <1>1, <1>2

(* A report puts its entry among those of its level.                       *)
LEMMA ReportLevels ==
  ASSUME LinesInv, LevelsInv, NEW level \in Levels, NEW line \in Nat, Report(level, line)
  PROVE  LevelsInv'
<1> DEFINE severe == Levels \ {"WARNING"}
<1>10. PICK entry \in NewEntries(level, line) : ReportsAs(entry, level)
  BY ReportKept
<1>1. entry \in Entry /\ entry.level = level
  BY NewEntryOK DEF LinesInv
<1>2. errors \in Seq(Entry) /\ warnings \in Seq(Entry)
  BY DEF LinesInv, ErrInv, ErrTypeOK
<1>3. errors' \in {errors, Append(errors, entry)} /\ warnings' \in {warnings, Append(warnings, entry)}
  BY <1>10 DEF ReportsAs, Kept
<1>4. (level = "WARNING" => errors' = errors) /\ (level # "WARNING" => warnings' = warnings)
  BY <1>10 DEF ReportsAs
<1>5. /\ \A i \in DOMAIN errors : errors[i].level \in severe
      /\ \A i \in DOMAIN warnings : warnings[i].level \in {"WARNING"}
  <2>1. ASSUME NEW i \in DOMAIN errors PROVE errors[i].level \in severe
    <3>1. errors[i] \in Entry
      BY <1>2
    <3>2. errors[i].level \in Levels
      BY <3>1 DEF Entry
    <3> QED BY <3>2 DEF LevelsInv
  <2>2. ASSUME NEW i \in DOMAIN warnings PROVE warnings[i].level \in {"WARNING"}
    BY DEF LevelsInv
  <2> QED BY <2>1, <2>2
<1>6. level # "WARNING" =>
        \A i \in DOMAIN Append(errors, entry) : Append(errors, entry)[i].level \in severe
  BY <1>1, <1>2, <1>5, AppendedLevels
<1>7. level = "WARNING" =>
        \A i \in DOMAIN Append(warnings, entry) : Append(warnings, entry)[i].level \in {"WARNING"}
  BY <1>1, <1>2, <1>5, AppendedLevels
<1>8. \A i \in DOMAIN errors' : errors'[i].level \in severe
  BY <1>3, <1>4, <1>5, <1>6, Zenon
<1>9. \A i \in DOMAIN warnings' : warnings'[i].level \in {"WARNING"}
  BY <1>3, <1>4, <1>5, <1>7, Zenon
<1> QED BY <1>8, <1>9 DEF LevelsInv

LEMMA PrintedStep == LinesInv /\ PrintedInv /\ [Next]_vars => PrintedInv'
<1> SUFFICES ASSUME LinesInv, PrintedInv, [Next]_vars PROVE PrintedInv'
  OBVIOUS
<1>1. CASE Refuse \/ Finish
  <2>1. errors' = << >> /\ warnings' = << >> /\ stage' = "exit"
    BY <1>1 DEF Refuse, Finish, FreeManager
  <2> QED BY <2>1 DEF PrintedInv, LevelsInv
<1>2. CASE ~(Refuse \/ Finish)
  <2>1. UNCHANGED printed
    <3>1. CASE Effect
      BY <3>1 DEF Effect, session
    <3>2. CASE Configure
      BY <3>2 DEF Configure, session
    <3> QED BY <1>2, <3>1, <3>2, StepEffect
  <2>2. stage = "exit" => stage' = "exit"
    BY DEF Next, ProcessFile, Exited, vars, driverVars, ParseArgument, Configure, CheckOutput,
           CheckSources, Refuse, CreateContext, NextFile, Diagnose, Diagnostics, Read, Preprocess,
           Lex, Parse, Analyze, Generate, Optimize, Assemble, Cleanup, RecreateContext, Finish
  <2>3. \/ \E level \in Levels, line \in Nat : Report(level, line)
        \/ UNCHANGED <<errors, warnings>>
    <3>1. CASE Diagnose
      <4>1. PICK level \in Diagnostics[stage], line \in LineNumbers : Report(level, line)
        BY <3>1 DEF Diagnose
      <4>2. level \in Levels /\ line \in Nat
        BY <3>1, LinesAssumption DEF Diagnose, Diagnostics, Levels
      <4> QED BY <4>1, <4>2
    <3>2. UNCHANGED errVars \/ UNCHANGED <<arrays, source, flags, session>>
            \/ UNCHANGED <<arrays, attribution, session>>
            \/ UNCHANGED <<arrays, current_filename, flags, session>>
            \/ UNCHANGED <<arrays, flags, session>>
          => UNCHANGED <<errors, warnings>>
      BY DEF errVars, arrays
    <3>3. CASE UNCHANGED vars
      BY <3>2, <3>3 DEF vars
    <3>4. CASE ParseArgument
      BY <3>2, <3>4, Zenon DEF ParseArgument, ParseFileName, ParseOutput, ParseHelp, ParseOption,
                               SetOutput, Levels
    <3>5. CASE Configure
      BY <3>2, <3>5 DEF Configure
    <3>6. CASE CheckOutput \/ CheckSources \/ CreateContext \/ RecreateContext
      BY <3>2, <3>6, Zenon DEF CheckOutput, CheckSources, CreateContext, RecreateContext, Levels
    <3>7. CASE NextFile
      BY <3>2, <3>7 DEF NextFile, Levels
    <3>8. CASE Read \/ Lex \/ Parse \/ Analyze \/ Generate \/ Optimize \/ Assemble
      BY <3>2, <3>8, Zenon DEF Read, Lex, Parse, Analyze, Generate, Optimize, Assemble, Levels
    <3>9. CASE Preprocess
      BY <3>2, <3>9 DEF Preprocess, Levels
    <3>10. CASE Cleanup
      BY <3>2, <3>10 DEF Cleanup
    <3> QED BY <1>2, <3>1, <3>3, <3>4, <3>5, <3>6, <3>7, <3>8, <3>9, <3>10, Zenon
            DEF Next, ProcessFile, Exited
  <2>4. LevelsInv'
    <3>1. CASE \E level \in Levels, line \in Nat : Report(level, line)
      BY <3>1, ReportLevels DEF PrintedInv
    <3>2. CASE UNCHANGED <<errors, warnings>>
      BY <3>2 DEF PrintedInv, LevelsInv
    <3> QED BY <2>3, <3>1, <3>2
  <2> QED BY <2>1, <2>2, <2>4 DEF PrintedInv
<1> QED BY <1>1, <1>2

(* Printing at the end shows each report once and under the heading that   *)
(* the flags ask for, warnings that are suppressed excepted, and shows     *)
(* something as an error if and only if there are errors                   *)
(* (errhandler__print_errors, errhandler__print_warnings, main).           *)
THEOREM PrintedOnce == Spec => PrintsEachOnce
<1>1. Init => PrintedInv
  BY DEF Init, ErrInit, PrintedInv, LevelsInv
<1>2. LinesInv /\ PrintedInv /\ [Next]_vars => [Refuse \/ Finish => ShowsEachOnce]_vars
  <2> SUFFICES ASSUME LinesInv, PrintedInv, Refuse \/ Finish PROVE ShowsEachOnce
    OBVIOUS
  <2>1. PrintAll /\ printed = << >>
    BY DEF Refuse, Finish, PrintedInv
  <2>2. errors \in Seq(Entry) /\ warnings \in Seq(Entry)
    BY DEF LinesInv, ErrInv, ErrTypeOK
  <2> QED BY <2>1, <2>2, PrintingShowsEachOnce DEF PrintedInv
<1> QED BY <1>1, <1>2, LinesInvariant, PrintedStep, PTL DEF Spec, PrintsEachOnce

=============================================================================
