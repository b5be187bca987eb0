------------------------- MODULE Preprocessor_proof -------------------------
(***************************************************************************)
(* Proofs about Preprocessor, for all files, libraries, builtin macros and *)
(* whatever the conditions come to.                                        *)
(*                                                                         *)
(* First the types of what the reading moves about, then the registry of   *)
(* include.c, then the conditional stack, whose handlers Conditional_proof *)
(* has sorted into four kinds of move, then what a unit comes to, for      *)
(* which its steps are written as functions of what it has, and last the   *)
(* macro table, along the chain of names by which a definition expands.    *)
(***************************************************************************)
EXTENDS Preprocessor, Conditional_proof, RecursiveFunctions, FiniteSetTheorems

SourceLine == [op : STRING, args : Texts]

Activation == [path : Texts, next : Nat \ {0}]

FilesOK ==
  /\ units \in Seq(Texts)
  /\ \A i \in DOMAIN units : Exists(units[i])
  /\ \A path \in DOMAIN files : files[path] \in Seq(SourceLine)

(* An active buffer is one of a file that is there, read up to its end at  *)
(* most.                                                                   *)
PlaceOK(system, a) ==
  /\ Canonical(a.path) \in DOMAIN system
  /\ a.next <= Len(system[Canonical(a.path)]) + 1

ActiveOK ==
  /\ active \in Seq(Activation)
  /\ \A k \in DOMAIN active : PlaceOK(files, active[k])

ReadingInv == FilesOK /\ ActiveOK /\ unit \in Nat \ {0} /\ StackOK

-----------------------------------------------------------------------------
(* The steps, as far as they move the reading *)

LEMMA LinesType ==
  ASSUME FilesOK, NEW path, Exists(path)
  PROVE  Lines(path) \in Seq(SourceLine)
BY DEF FilesOK, Exists, Lines

LEMMA CurrentType ==
  ASSUME ReadingInv, active # << >>
  PROVE  /\ Len(active) \in Nat \ {0}
         /\ Len(active) \in DOMAIN active
         /\ Current \in Activation
         /\ Exists(Current.path)
         /\ Lines(Current.path) \in Seq(SourceLine)
         /\ Current.next <= Len(Lines(Current.path)) + 1
<1>1. Len(active) \in Nat \ {0} /\ Len(active) \in DOMAIN active
  BY EmptySeq DEF ReadingInv, ActiveOK
<1>2. /\ Current \in Activation
      /\ Exists(Current.path)
      /\ Current.next <= Len(Lines(Current.path)) + 1
  BY <1>1 DEF ReadingInv, ActiveOK, Current, PlaceOK, Exists, Lines
<1> QED BY <1>1, <1>2, LinesType DEF ReadingInv

LEMMA LineType ==
  ASSUME ReadingInv, active # << >>, ~AtEnd
  PROVE  /\ Current.next \in 1 .. Len(Lines(Current.path))
         /\ Line \in SourceLine
<1>1. Current.next \in 1 .. Len(Lines(Current.path))
  BY CurrentType DEF AtEnd, Activation
<1> QED BY <1>1, CurrentType DEF Line

(* The line is behind: nothing else of the activations has changed. *)
LEMMA NextLineShape ==
  ASSUME ReadingInv, active # << >>
  PROVE  /\ NextLine \in Seq(Activation)
         /\ Len(NextLine) = Len(active)
         /\ DOMAIN NextLine = DOMAIN active
         /\ \A k \in 1 .. Len(active) - 1 : NextLine[k] = active[k]
         /\ \A k \in DOMAIN active : NextLine[k].path = active[k].path
         /\ NextLine[Len(active)].next = Current.next + 1
<1> DEFINE n == Len(active)
           top == [Current EXCEPT !.next = @ + 1]
<1>1. /\ active \in Seq(Activation)
      /\ n \in Nat \ {0}
      /\ DOMAIN active = 1 .. n
      /\ n \in 1 .. n
  BY CurrentType DEF ReadingInv, ActiveOK
<1>2. Current = active[n] /\ Current \in Activation
  BY CurrentType DEF Current
<1>3. top \in Activation /\ top.path = Current.path /\ top.next = Current.next + 1
  BY <1>2 DEF Activation
<1>4. NextLine = [active EXCEPT ![n] = top]
  BY <1>2, Zenon DEF NextLine
<1> HIDE DEF n, top
<1>5. NextLine \in Seq(Activation)
  BY <1>1, <1>3, <1>4
<1>6. Len(NextLine) = n /\ DOMAIN NextLine = 1 .. n
  BY <1>1, <1>3, <1>4
<1>7. \A k \in 1 .. n : NextLine[k] = IF k = n THEN top ELSE active[k]
  BY <1>1, <1>4
<1>8. \A k \in 1 .. n - 1 : NextLine[k] = active[k]
  BY <1>1, <1>7
<1>9. \A k \in 1 .. n : NextLine[k].path = active[k].path
  BY <1>2, <1>3, <1>7
<1>10. NextLine[n].next = Current.next + 1
  BY <1>1, <1>3, <1>7
<1> QED BY <1>1, <1>5, <1>6, <1>8, <1>9, <1>10 DEF n

LEMMA LeastExists ==
  ASSUME NEW set, set \subseteq Nat, set # {}
  PROVE  Min(set) \in set
<1>1. PICK m \in set : \A n \in set : ~ (<<n, m>> \in OpToRel(<, Nat))
  BY NatLessThanWellFounded, WFMin
<1>2. \A n \in set : ~(n < m)
  BY <1>1 DEF OpToRel
<1>3. \A n \in set : m =< n
  BY <1>2
<1> QED BY <1>3, Zenon DEF Min

LEMMA PathTypes ==
  ASSUME NEW base \in Texts, NEW name \in Texts
  PROVE  FullPath(base, name) \in Texts /\ LibraryPath(base, name) \in Texts
<1>1. FullPath(base, name) \in Texts
  <2>1. Front(base) \in Texts
    BY DEF Front, Texts
  <2>2. Front(base) \o name \in Texts
    BY <2>1, ConcatProperties DEF Texts
  <2> QED BY <2>2, Zenon DEF FullPath
<1>2. LibraryPath(base, name) \in Texts
  <2> DEFINE asked == [i \in DOMAIN LibraryDirs |-> LibraryDirs[i] \o name]
             places == <<FullPath(base, name), name>> \o asked
             found == SelectInSeq(places, Exists)
  <2>1. \A i \in DOMAIN LibraryDirs : LibraryDirs[i] \o name \in Texts
    BY LibraryAssumption DEF Texts
  <2>2. asked \in Seq(Texts)
    <3>1. DOMAIN LibraryDirs = 1 .. Len(LibraryDirs) /\ Len(LibraryDirs) \in Nat
      BY LibraryAssumption
    <3>2. asked \in [1 .. Len(LibraryDirs) -> Texts]
      BY <2>1, <3>1
    <3> HIDE DEF asked
    <3> QED BY <3>1, <3>2, SeqDef
  <2>3. <<FullPath(base, name), name>> \in Seq(Texts)
    BY <1>1
  <2>4. places \in Seq(Texts)
    BY <2>2, <2>3
  <2>5. found # 0 => found \in 1 .. Len(places)
    <3> DEFINE I == {i \in 1 .. Len(places) : Exists(places[i])}
    <3>1. found = IF I # {} THEN Min(I) ELSE 0
      BY DEF SelectInSeq
    <3>2. I \subseteq Nat
      BY <2>4
    <3>3. I # {} => Min(I) \in I
      BY <3>2, LeastExists
    <3> QED BY <3>1, <3>3
  <2>6. << >> \in Texts
    BY DEF Texts
  <2>7. LibraryPath(base, name) = IF found = 0 THEN << >> ELSE places[found]
    BY DEF LibraryPath
  <2> HIDE DEF places, found
  <2> QED BY <2>4, <2>5, <2>6, <2>7
<1> QED BY <1>1, <1>2

(* The six ways in which a step moves the reading. *)
Opened(path) == [path |-> path, next |-> 1]

Starts == /\ active = << >>
          /\ unit \in DOMAIN units
          /\ active' = <<Opened(units[unit])>>
          /\ UNCHANGED <<unit, included>>

Advances == /\ active # << >> /\ ~AtEnd
            /\ active' = NextLine
            /\ UNCHANGED <<unit, included>>

Descends == /\ active # << >> /\ ~AtEnd
            /\ \E path \in Texts :
                 /\ Exists(path)
                 /\ path \notin included
                 /\ included' = included \union {path}
                 /\ active' = Append(NextLine, Opened(path))
            /\ UNCHANGED unit

Ascends == /\ Len(active) > 1
           /\ AtEnd
           /\ active' = Front(active)
           /\ UNCHANGED <<unit, included>>

Ends == /\ Len(active) = 1
        /\ AtEnd
        /\ active' = << >>
        /\ unit' = unit + 1
        /\ included' = {}

Rests == UNCHANGED <<active, included, unit>>

ReadLine == \/ ReadText \/ ReadConditional \/ ReadDefine \/ ReadUndef
            \/ ReadError \/ ReadInclude

LEMMA ReadingMoves ==
  ASSUME ReadingInv, [Next]_vars
  PROVE  /\ UNCHANGED <<files, units>>
         /\ \/ StartUnit /\ Starts
            \/ ReadLine /\ Advances
            \/ ReadLine /\ Descends
            \/ Return /\ Ascends
            \/ FinishUnit /\ Ends
            \/ UNCHANGED stack /\ Rests
<1>1. CASE StartUnit
  <2>1. unit \in DOMAIN units
    <3>1. units \in Seq(Texts) /\ unit \in Nat \ {0} /\ unit <= Len(units)
      BY <1>1 DEF StartUnit, ReadingInv, FilesOK
    <3> QED BY <3>1
  <2> QED BY <1>1, <2>1, Zenon DEF StartUnit, Starts, Opened
<1>2. CASE ReadText \/ ReadConditional \/ ReadDefine \/ ReadUndef \/ ReadError
  BY <1>2, Zenon
  DEF ReadText, ReadConditional, ReadDefine, ReadUndef, ReadError, Reading,
      LineDone, fileVars, Advances, ReadLine
<1>3. CASE ReadInclude
  <2>1. active # << >> /\ ~AtEnd /\ UNCHANGED <<files, units, unit>>
    BY <1>3, Zenon DEF ReadInclude, Reading
  <2>2. PICK path \in Texts : Include(path)
    <3>1. Line.args \in Texts /\ Current.path \in Texts
      BY <2>1, LineType, CurrentType DEF SourceLine, Activation
    <3> QED BY <1>3, <3>1, PathTypes, Zenon DEF ReadInclude
  <2>3. \/ UNCHANGED included /\ active' = NextLine
        \/ /\ path \notin included
           /\ Exists(path)
           /\ included' = included \union {path}
           /\ active' = Append(NextLine, Opened(path))
    BY <2>2, Zenon DEF Include, LineDone, Opened
  <2> QED BY <1>3, <2>1, <2>3, Zenon DEF Advances, Descends, ReadLine
<1>4. CASE Return
  BY <1>4, Zenon DEF Return, fileVars, Ascends
<1>5. CASE FinishUnit
  BY <1>5, Zenon DEF FinishUnit, Ends
<1>6. CASE Finished \/ UNCHANGED vars
  BY <1>6, Zenon DEF Finished, vars, condVars, fileVars, Rests
<1> QED BY <1>1, <1>2, <1>3, <1>4, <1>5, <1>6, Zenon DEF Next, Step

LEMMA StackMoves ==
  ASSUME StackOK, [Next]_vars
  PROVE  \/ Moves
         \/ StartUnit /\ stack' = << >> /\ capacity' = InitialCapacity
<1>1. CASE StartUnit
  BY <1>1, Zenon DEF StartUnit
<1>2. CASE ReadConditional
  <2>1. CASE If(Outcome(macros, Line.args))
    BY <2>1, IfKind DEF Moves
  <2>2. CASE Ifdef(IsDefined(Line.args)) \/ Ifdef(~IsDefined(Line.args))
    <3>1. IsDefined(Line.args) \in BOOLEAN /\ (~IsDefined(Line.args)) \in BOOLEAN
      BY DEF IsDefined
    <3> QED BY <2>2, <3>1, IfdefKind, Zenon DEF Moves
  <2>3. CASE Elif(Outcome(macros, Line.args))
    BY <2>3, ElifKind DEF Moves
  <2>4. CASE Else \/ Endif
    BY <2>4, ElseKind, EndifKind DEF Moves
  <2> QED BY <1>2, <2>1, <2>2, <2>3, <2>4, Zenon DEF ReadConditional
<1>3. CASE ReadUndef \/ ReadError
  BY <1>3, Zenon DEF ReadUndef, ReadError, Complain, condVars, Keeps, Moves
<1>4. CASE ReadInclude
  BY <1>4, Zenon DEF ReadInclude, Include, Complain, condVars, Keeps, Moves
<1>5. CASE \/ ReadText \/ ReadDefine \/ Return \/ FinishUnit \/ Finished
           \/ UNCHANGED vars
  BY <1>5, Zenon
  DEF ReadText, ReadDefine, Return, FinishUnit, Finished, vars, condVars,
      Keeps, Moves
<1> QED BY <1>1, <1>2, <1>3, <1>4, <1>5, Zenon DEF Next, Step

LEMMA OpenedPlace ==
  ASSUME FilesOK, NEW path \in Texts, Exists(path)
  PROVE  Opened(path) \in Activation /\ PlaceOK(files, Opened(path))
<1>1. Len(Lines(path)) \in Nat
  BY LinesType
<1> QED BY <1>1 DEF Opened, Activation, PlaceOK, Exists, Lines

(* What the moves make of the activations, one by one. *)
LEMMA AdvancedPlaces ==
  ASSUME ReadingInv, active # << >>, ~AtEnd
  PROVE  \A k \in DOMAIN active : PlaceOK(files, NextLine[k])
<1> SUFFICES ASSUME NEW k \in DOMAIN active
             PROVE  PlaceOK(files, NextLine[k])
  OBVIOUS
<1>1. NextLine[k].path = active[k].path /\ PlaceOK(files, active[k])
  BY NextLineShape DEF ReadingInv, ActiveOK
<1>2. CASE k = Len(active)
  <2>1. NextLine[k].next <= Len(Lines(Current.path)) + 1
    BY <1>2, NextLineShape, LineType
  <2> QED BY <1>1, <1>2, <2>1 DEF PlaceOK, Lines, Current
<1>3. CASE k # Len(active)
  <2>1. k \in 1 .. Len(active) - 1
    BY <1>3 DEF ReadingInv, ActiveOK
  <2> QED BY <1>1, <2>1, NextLineShape, Zenon
<1> QED BY <1>2, <1>3

LEMMA DescendedShape ==
  ASSUME ReadingInv, active # << >>, NEW path \in Texts, Exists(path)
  PROVE  LET deeper == Append(NextLine, Opened(path))
         IN /\ deeper \in Seq(Activation)
            /\ Len(deeper) = Len(active) + 1
            /\ \A k \in 1 .. Len(active) : deeper[k] = NextLine[k]
            /\ deeper[Len(active) + 1] = Opened(path)
<1>1. NextLine \in Seq(Activation) /\ Len(NextLine) = Len(active)
  BY NextLineShape
<1>2. Opened(path) \in Activation
  BY OpenedPlace DEF ReadingInv
<1> HIDE DEF NextLine
<1> QED BY <1>1, <1>2

LEMMA AscendedShape ==
  ASSUME ReadingInv, Len(active) > 1
  PROVE  /\ Front(active) \in Seq(Activation)
         /\ Len(Front(active)) = Len(active) - 1
         /\ \A k \in 1 .. Len(active) - 1 : Front(active)[k] = active[k]
<1> DEFINE n == Len(active) - 1
<1>1. active \in Seq(Activation) /\ n \in Nat /\ n <= Len(active)
  BY DEF ReadingInv, ActiveOK
<1>2. Front(active) = SubSeq(active, 1, n)
  BY DEF Front
<1> HIDE DEF n
<1>3. /\ Front(active) \in Seq(Activation)
      /\ Len(Front(active)) = n
      /\ \A k \in 1 .. n : Front(active)[k] = active[k]
  BY <1>1, <1>2, PrefixShape
<1> QED BY <1>3 DEF n

LEMMA ActivePreserved ==
  ASSUME ReadingInv, [Next]_vars
  PROVE  ActiveOK'
<1>0. UNCHANGED files /\ active \in Seq(Activation) /\ DOMAIN active = 1 .. Len(active)
  BY ReadingMoves DEF ReadingInv, ActiveOK
<1>1. CASE Starts
  <2>1. units[unit] \in Texts /\ Exists(units[unit])
    BY <1>1 DEF Starts, ReadingInv, FilesOK
  <2>2. Opened(units[unit]) \in Activation /\ PlaceOK(files, Opened(units[unit]))
    BY <2>1, OpenedPlace DEF ReadingInv
  <2>3. active' = <<Opened(units[unit])>>
    BY <1>1 DEF Starts
  <2> HIDE DEF Opened
  <2> QED BY <1>0, <2>2, <2>3 DEF ActiveOK
<1>2. CASE Advances
  <2>1. active' = NextLine
    BY <1>2 DEF Advances
  <2>2. \A k \in DOMAIN active : PlaceOK(files, NextLine[k])
    BY <1>2, AdvancedPlaces DEF Advances
  <2>3. NextLine \in Seq(Activation) /\ DOMAIN NextLine = DOMAIN active
    BY <1>2, NextLineShape DEF Advances
  <2> QED BY <1>0, <2>1, <2>2, <2>3, Zenon DEF ActiveOK
<1>3. CASE Descends
  <2>1. PICK path \in Texts :
          Exists(path) /\ active' = Append(NextLine, Opened(path))
    BY <1>3 DEF Descends
  <2>2. \A k \in DOMAIN active : PlaceOK(files, NextLine[k])
    BY <1>3, AdvancedPlaces DEF Descends
  <2>3. /\ active' \in Seq(Activation)
        /\ Len(active') = Len(active) + 1
        /\ \A k \in 1 .. Len(active) : active'[k] = NextLine[k]
        /\ active'[Len(active) + 1] = Opened(path)
    BY <1>3, <2>1, DescendedShape, Zenon DEF Descends
  <2>4. PlaceOK(files, Opened(path))
    BY <2>1, OpenedPlace DEF ReadingInv
  <2>5. \A k \in DOMAIN active' : k \in 1 .. Len(active) \/ k = Len(active) + 1
    BY <1>0, <2>3
  <2> QED BY <1>0, <2>2, <2>3, <2>4, <2>5, Zenon DEF ActiveOK
<1>4. CASE Ascends
  <2>1. /\ active' \in Seq(Activation)
        /\ Len(active') = Len(active) - 1
        /\ \A k \in 1 .. Len(active) - 1 : active'[k] = active[k]
    BY <1>4, AscendedShape DEF Ascends
  <2>2. \A k \in DOMAIN active' : k \in DOMAIN active /\ active'[k] = active[k]
    BY <1>0, <2>1
  <2> QED BY <1>0, <2>1, <2>2, Zenon DEF ActiveOK, ReadingInv
<1>5. CASE Ends
  BY <1>5 DEF Ends, ActiveOK
<1>6. CASE Rests
  BY <1>0, <1>6, Zenon DEF Rests, ActiveOK, ReadingInv
<1> QED BY <1>1, <1>2, <1>3, <1>4, <1>5, <1>6, ReadingMoves, Zenon

LEMMA ReadingPreserved ==
  ASSUME ReadingInv, [Next]_vars
  PROVE  ReadingInv'
<1>1. UNCHANGED <<files, units>>
  BY ReadingMoves
<1>2. FilesOK'
  BY <1>1 DEF ReadingInv, FilesOK, Exists
<1>3. unit' \in Nat \ {0}
  <2>1. unit' = unit \/ unit' = unit + 1
    BY ReadingMoves, Zenon DEF Starts, Advances, Descends, Ascends, Ends, Rests
  <2> QED BY <2>1 DEF ReadingInv
<1>4. StackOK'
  <2>1. CASE stack' = << >> /\ capacity' = InitialCapacity
    BY <2>1, CapacityAssumption DEF StackOK
  <2>2. CASE Moves
    BY <2>2, StackPreserved DEF ReadingInv
  <2> QED BY <2>1, <2>2, StackMoves DEF ReadingInv
<1> QED BY <1>2, <1>3, <1>4, ActivePreserved DEF ReadingInv

LEMMA ReadingInitial == Init => ReadingInv
<1> SUFFICES ASSUME Init PROVE ReadingInv
  OBVIOUS
<1>1. PICK call \in Calls : files = call.files /\ units = call.units
  BY DEF Init
<1>2. FilesOK
  BY <1>1, CallsAssumption DEF FilesOK, Exists, SourceLine
<1>3. ActiveOK /\ unit \in Nat \ {0} /\ StackOK
  BY CapacityAssumption DEF Init, CondInit, ActiveOK, StackOK
<1> QED BY <1>2, <1>3 DEF ReadingInv

LEMMA AlwaysReading == Spec => []ReadingInv
<1>1. ReadingInv /\ [Next]_vars => ReadingInv'
  BY ReadingPreserved
<1> QED BY <1>1, ReadingInitial, PTL DEF Spec

(* What Conditional_proof shows of the directives by themselves holds of   *)
(* them here, where every file goes on with the frames of the one that     *)
(* includes it and may leave some behind, and each unit begins anew: a     *)
(* frame has a slot, one inside a skipped block is skipped, what it        *)
(* remembers of its surroundings is not out of date, and a live branch is  *)
(* recorded as taken.                                                      *)
THEOREM FramesOfFiles ==
  Spec => [](WithinCapacity /\ SkipInherited /\ SnapshotFresh /\ LiveIsTaken)
<1>1. stack = << >> /\ capacity = InitialCapacity => WithinCapacity /\ FrameInv
  BY CapacityAssumption DEF WithinCapacity, FrameInv
<1>2. Init => WithinCapacity /\ FrameInv
  BY <1>1, Zenon DEF Init, CondInit
<1>3. ReadingInv /\ WithinCapacity /\ FrameInv /\ [Next]_vars
        => (WithinCapacity /\ FrameInv)'
  <2>1. stack' = << >> /\ capacity' = InitialCapacity => (WithinCapacity /\ FrameInv)'
    BY CapacityAssumption DEF WithinCapacity, FrameInv
  <2> QED BY <2>1, StackMoves, CapacityPreserved, FrameInvPreserved, Zenon DEF ReadingInv
<1>4. ReadingInv /\ FrameInv => SkipInherited /\ SnapshotFresh /\ LiveIsTaken
  BY FrameInvParts DEF ReadingInv
<1> QED BY <1>2, <1>3, <1>4, AlwaysReading, PTL DEF Spec

-----------------------------------------------------------------------------
(* What is written *)

(* SkipInherited at any distance: whatever is open inside a skipped block  *)
(* is skipped.                                                             *)
SkipsDown ==
  \A i, j \in 1 .. Len(stack) : i <= j /\ stack[i].skip => stack[j].skip

LEMMA SkipsDownPreserved ==
  ASSUME StackOK, SkipsDown, Moves
  PROVE  SkipsDown'
<1> DEFINE n == Len(stack)
<1>0. n \in Nat /\ (stack = << >> <=> n = 0)
  BY EmptySeq DEF StackOK
<1>1. CASE Opens
  <2>1. PICK value \in BOOLEAN : Push(NewFrame(value))
    BY <1>1 DEF Opens
  <2>2. /\ Len(stack') = n + 1
        /\ \A i \in 1 .. n : stack'[i] = stack[i]
        /\ stack'[n + 1] = NewFrame(value)
    BY <2>1, OpensShape
  <2>3. stack # << >> /\ stack[n].skip => stack'[n + 1].skip
    <3>1. stack # << >> /\ stack[n].skip => ~ShouldOutput
      BY Zenon DEF ShouldOutput, Top
    <3>2. stack'[n + 1].skip = (~ShouldOutput \/ ~value)
      BY <2>2 DEF NewFrame
    <3> QED BY <3>1, <3>2, Zenon
  <2>4. ASSUME NEW i \in 1 .. n + 1, NEW j \in 1 .. n + 1, i <= j, stack'[i].skip
        PROVE  stack'[j].skip
    <3>1. CASE j \in 1 .. n
      BY <1>0, <2>2, <2>4, <3>1 DEF SkipsDown
    <3>2. CASE i = n + 1
      BY <1>0, <2>4, <3>2
    <3>3. CASE i \in 1 .. n /\ j = n + 1
      <4>1. n \in 1 .. n /\ i <= n /\ stack # << >> /\ stack[i].skip
        BY <1>0, <2>2, <2>4, <3>3
      <4>2. stack[n].skip
        BY <3>3, <4>1 DEF SkipsDown
      <4> QED BY <2>3, <3>3, <4>1, <4>2, Zenon
    <3> QED BY <1>0, <3>1, <3>2, <3>3
  <2> QED BY <2>2, <2>4 DEF SkipsDown
<1>2. CASE Switches
  <2>1. PICK frame \in Frame :
          /\ stack' = [stack EXCEPT ![Len(stack)] = frame]
          /\ EnclosingSkip => frame.skip
    BY <1>2 DEF Switches
  <2>2. /\ Len(stack') = n
        /\ \A i \in 1 .. n - 1 : stack'[i] = stack[i]
        /\ stack'[n] = frame
    BY <1>2, <2>1, SwitchesShape DEF Switches
  <2>3. ASSUME NEW i \in 1 .. n, NEW j \in 1 .. n, i <= j, stack'[i].skip
        PROVE  stack'[j].skip
    <3>1. CASE j \in 1 .. n - 1
      BY <1>0, <2>2, <2>3, <3>1 DEF SkipsDown
    <3>2. CASE i = n
      BY <1>0, <2>3, <3>2
    <3>3. CASE i \in 1 .. n - 1 /\ j = n
      <4>1. n - 1 \in 1 .. n /\ i \in 1 .. n /\ i <= n - 1 /\ n > 1 /\ stack[i].skip
        BY <1>0, <2>2, <2>3, <3>3
      <4>2. stack[n - 1].skip
        BY <4>1 DEF SkipsDown
      <4>3. EnclosingSkip
        BY <4>1, <4>2, Zenon DEF EnclosingSkip
      <4> QED BY <2>1, <2>2, <3>3, <4>3, Zenon
    <3> QED BY <1>0, <3>1, <3>2, <3>3
  <2> QED BY <2>2, <2>3 DEF SkipsDown
<1>3. CASE Closes
  <2>1. /\ Len(stack') = n - 1
        /\ \A i \in 1 .. Len(stack') : stack'[i] = stack[i]
    BY <1>3, ClosesShape
  <2>2. \A i \in 1 .. Len(stack') : i \in 1 .. n
    BY <1>0, <2>1
  <2> QED BY <2>1, <2>2, Zenon DEF SkipsDown
<1>4. CASE Keeps
  BY <1>4, Zenon DEF Keeps, SkipsDown
<1> QED BY <1>1, <1>2, <1>3, <1>4 DEF Moves

LEMMA AlwaysSkipsDown == Spec => []SkipsDown
<1>1. Init => SkipsDown
  BY DEF Init, CondInit, SkipsDown
<1>2. ReadingInv /\ SkipsDown /\ [Next]_vars => SkipsDown'
  <2>1. stack' = << >> => SkipsDown'
    BY DEF SkipsDown
  <2> QED BY <2>1, StackMoves, SkipsDownPreserved, Zenon DEF ReadingInv
<1> QED BY <1>1, <1>2, AlwaysReading, PTL DEF Spec

(* The output grows only where every group that is open, in whatever file, *)
(* has its branch selected, though add_to_output asks the innermost frame  *)
(* alone: for all files, whatever directives they leave open or close too  *)
(* often, and even when the stack cannot grow.                             *)
THEOREM EmitLive == Spec => EmitOnlyWhenAllLive
<1>1. ReadingInv /\ SkipsDown /\ [Next]_vars =>
        [active # << >> /\ active' # << >> /\ output' # output
           => \A k \in DOMAIN stack : ~stack[k].skip]_vars
  <2> SUFFICES ASSUME ReadingInv, SkipsDown, [Next]_vars,
                      active # << >>, active' # << >>, output' # output,
                      NEW k \in DOMAIN stack
               PROVE  ~stack[k].skip
    OBVIOUS
  <2>1. ReadText
    BY Zenon
    DEF Next, Step, StartUnit, ReadConditional, ReadDefine, ReadUndef, ReadError,
        ReadInclude, Return, FinishUnit, Finished, vars, fileVars
  <2>2. ShouldOutput
    BY <2>1, Zenon DEF ReadText
  <2>3. k \in 1 .. Len(stack) /\ Len(stack) \in 1 .. Len(stack) /\ k <= Len(stack)
        /\ stack # << >>
    BY EmptySeq DEF ReadingInv, StackOK
  <2>4. ~stack[Len(stack)].skip
    BY <2>2, <2>3, Zenon DEF ShouldOutput, Top
  <2> QED BY <2>3, <2>4, Zenon DEF SkipsDown
<1> QED BY <1>1, AlwaysReading, AlwaysSkipsDown, PTL DEF Spec, EmitOnlyWhenAllLive

-----------------------------------------------------------------------------
(* What is included *)

(* A path is registered, and never before, when its buffer is opened, and  *)
(* stays registered until the unit ends.                                   *)
THEOREM Once == Spec => OncePerUnit
<1>1. ReadingInv /\ [Next]_vars =>
        [/\ unit' = unit => included \subseteq included'
         /\ (active # << >> /\ Len(active') > Len(active))
              => Last(active').path \in included' \ included]_vars
  <2> SUFFICES ASSUME ReadingInv, [Next]_vars
               PROVE  /\ unit' = unit => included \subseteq included'
                      /\ (active # << >> /\ Len(active') > Len(active))
                           => Last(active').path \in included' \ included
    OBVIOUS
  <2>0. unit' = unit + 1 => unit' # unit
    BY DEF ReadingInv
  <2>1. CASE Starts
    BY <2>1 DEF Starts
  <2>2. CASE Advances
    <3>1. Len(active') = Len(active) /\ Len(active) \in Nat
      BY <2>2, NextLineShape, CurrentType DEF Advances
    <3> QED BY <2>2, <3>1 DEF Advances
  <2>3. CASE Descends
    <3>1. PICK path \in Texts :
            /\ Exists(path)
            /\ path \notin included
            /\ included' = included \union {path}
            /\ active' = Append(NextLine, Opened(path))
      BY <2>3 DEF Descends
    <3>2. Len(active') = Len(active) + 1 /\ active'[Len(active) + 1] = Opened(path)
      BY <2>3, <3>1, DescendedShape, Zenon DEF Descends
    <3>3. Last(active').path = path
      <4>1. Last(active') = Opened(path)
        BY <3>2, Zenon DEF Last
      <4> QED BY <4>1 DEF Opened
    <3> QED BY <3>1, <3>3
  <2>4. CASE Ascends
    <3>1. Len(active') = Len(active) - 1 /\ Len(active) \in Nat
      BY <2>4, AscendedShape DEF Ascends, ReadingInv, ActiveOK
    <3> QED BY <2>4, <3>1 DEF Ascends
  <2>5. CASE Ends
    <3>1. Len(active') = 0 /\ Len(active) = 1
      BY <2>5 DEF Ends
    <3> QED BY <2>0, <2>5, <3>1 DEF Ends
  <2>6. CASE Rests
    <3>1. Len(active) \in Nat
      BY DEF ReadingInv, ActiveOK
    <3> QED BY <2>6, <3>1 DEF Rests
  <2> QED BY <2>1, <2>2, <2>3, <2>4, <2>5, <2>6, ReadingMoves, Zenon
<1> QED BY <1>1, AlwaysReading, PTL DEF Spec, OncePerUnit

(* What is being included is registered and is being included once: a      *)
(* buffer's path is new when it is opened, and the registry forgets        *)
(* nothing before the unit itself is at its end.                           *)
THEOREM Registry == Spec => []RegistryGuards
<1>1. Init => RegistryGuards
  BY DEF Init, RegistryGuards
<1>2. ReadingInv /\ RegistryGuards /\ [Next]_vars => RegistryGuards'
  <2> SUFFICES ASSUME ReadingInv, RegistryGuards, [Next]_vars
               PROVE  RegistryGuards'
    OBVIOUS
  <2> DEFINE n == Len(active)
  <2>0. n \in Nat /\ active \in Seq(Activation)
    BY DEF ReadingInv, ActiveOK
  <2>1. CASE Len(active') < 2
    <3>1. Len(active') \in Nat
      BY ActivePreserved DEF ActiveOK
    <3>2. 2 .. Len(active') = {}
      BY <2>1, <3>1
    <3> QED BY <3>2, Zenon DEF RegistryGuards
  <2>2. CASE Advances
    <3>1. /\ included' = included
          /\ Len(active') = n
          /\ \A k \in 2 .. n : active'[k].path = active[k].path
      BY <2>0, <2>2, NextLineShape DEF Advances
    <3> QED BY <3>1, Zenon DEF RegistryGuards
  <2>3. CASE Descends
    <3>1. PICK path \in Texts :
            /\ Exists(path)
            /\ path \notin included
            /\ included' = included \union {path}
            /\ active' = Append(NextLine, Opened(path))
      BY <2>3 DEF Descends
    <3>2. /\ Len(active') = n + 1
          /\ \A k \in 1 .. n : active'[k] = NextLine[k]
          /\ active'[n + 1] = Opened(path)
      BY <2>3, <3>1, DescendedShape, Zenon DEF Descends
    <3>3. active'[n + 1].path = path
      BY <3>2 DEF Opened
    <3>4. \A k \in 2 .. n : active'[k].path = active[k].path
      BY <2>0, <2>3, <3>2, NextLineShape DEF Descends
    <3>5. \A k \in 2 .. n : active'[k].path \in included /\ active'[k].path # path
      BY <3>1, <3>4, Zenon DEF RegistryGuards
    <3>6. \A i, j \in 2 .. n : active'[i].path = active'[j].path => i = j
      BY <3>4, Zenon DEF RegistryGuards
    <3>7. \A k \in 2 .. Len(active') : k \in 2 .. n \/ k = n + 1
      BY <2>0, <3>2
    <3>8. included \subseteq included' /\ path \in included'
      BY <3>1
    <3>9. \A k \in 2 .. Len(active') : active'[k].path \in included'
      BY <3>3, <3>5, <3>7, <3>8, Zenon
    <3>10. \A i, j \in 2 .. Len(active') : active'[i].path = active'[j].path => i = j
      BY <3>3, <3>5, <3>6, <3>7, Zenon
    <3> QED BY <3>9, <3>10, Zenon DEF RegistryGuards
  <2>4. CASE Ascends
    <3>1. /\ included' = included
          /\ Len(active') = n - 1
          /\ \A k \in 1 .. n - 1 : active'[k] = active[k]
      BY <2>4, AscendedShape DEF Ascends
    <3>2. \A k \in 2 .. Len(active') : k \in 2 .. n /\ active'[k].path = active[k].path
      BY <2>0, <3>1
    <3> QED BY <3>1, <3>2, Zenon DEF RegistryGuards
  <2>5. CASE Rests
    BY <2>5, Zenon DEF Rests, RegistryGuards
  <2>6. Starts \/ Ends => Len(active') < 2
    <3>1. Starts => Len(active') = 1
      <4> DEFINE a == Opened(units[unit])
      <4>1. Starts => active' = <<a>>
        BY Zenon DEF Starts
      <4> HIDE DEF a
      <4> QED BY <4>1
    <3>2. Ends => Len(active') = 0
      BY DEF Ends
    <3> QED BY <3>1, <3>2
  <2> QED BY <2>1, <2>2, <2>3, <2>4, <2>5, <2>6, ReadingMoves, Zenon
<1> QED BY <1>1, <1>2, AlwaysReading, PTL DEF Spec

-----------------------------------------------------------------------------
(* The depth of the conditional stack *)

LEMMA OfType ==
  ASSUME NEW lines, NEW n \in Nat, NEW kinds
  PROVE  /\ IsFiniteSet(Of(lines, n, kinds))
         /\ Cardinality(Of(lines, n, kinds)) \in Nat
<1>1. IsFiniteSet(1 .. n)
  BY FS_Interval
<1>2. Of(lines, n, kinds) \in SUBSET (1 .. n)
  BY DEF Of
<1>3. IsFiniteSet(Of(lines, n, kinds))
  BY <1>1, <1>2, FS_Subset
<1> QED BY <1>3, FS_CardinalityType

LEMMA OfNext ==
  ASSUME NEW lines, NEW n \in Nat, NEW kinds
  PROVE  Cardinality(Of(lines, n + 1, kinds)) =
           Cardinality(Of(lines, n, kinds))
             + (IF lines[n + 1].op \in kinds THEN 1 ELSE 0)
<1>1. n + 1 \notin Of(lines, n, kinds)
  BY DEF Of
<1>2. CASE lines[n + 1].op \in kinds
  <2>1. Of(lines, n + 1, kinds) = Of(lines, n, kinds) \cup {n + 1}
    BY <1>2 DEF Of
  <2>2. Cardinality(Of(lines, n, kinds) \cup {n + 1}) = Cardinality(Of(lines, n, kinds)) + 1
    BY <1>1, OfType, FS_AddElement
  <2> QED BY <1>2, <2>1, <2>2
<1>3. CASE lines[n + 1].op \notin kinds
  <2>1. Of(lines, n + 1, kinds) = Of(lines, n, kinds)
    BY <1>3 DEF Of
  <2> QED BY <1>3, <2>1, OfType
<1> QED BY <1>2, <1>3

LEMMA OpenNext ==
  ASSUME NEW lines, NEW n \in Nat
  PROVE  /\ OpenAfter(lines, n) \in Int
         /\ OpenAfter(lines, n + 1) =
              OpenAfter(lines, n)
                + (IF lines[n + 1].op \in Openers THEN 1
                   ELSE IF lines[n + 1].op = "endif" THEN -1 ELSE 0)
<1> DEFINE op == lines[n + 1].op
<1>1. op = "endif" => op \notin Openers
  BY DEF Openers
<1>2. op \in {"endif"} <=> op = "endif"
  OBVIOUS
<1>3. /\ Cardinality(Of(lines, n, Openers)) \in Nat
      /\ Cardinality(Of(lines, n, {"endif"})) \in Nat
  BY OfType
<1>4. Cardinality(Of(lines, n + 1, Openers)) =
        Cardinality(Of(lines, n, Openers)) + (IF op \in Openers THEN 1 ELSE 0)
  BY OfNext
<1>5. Cardinality(Of(lines, n + 1, {"endif"})) =
        Cardinality(Of(lines, n, {"endif"})) + (IF op \in {"endif"} THEN 1 ELSE 0)
  BY OfNext
<1> HIDE DEF op
<1>6. OpenAfter(lines, n + 1) =
        OpenAfter(lines, n) + (IF op \in Openers THEN 1
                               ELSE IF op = "endif" THEN -1 ELSE 0)
  BY <1>1, <1>2, <1>3, <1>4, <1>5 DEF OpenAfter
<1>7. OpenAfter(lines, n) \in Int
  BY <1>3 DEF OpenAfter
<1> QED BY <1>6, <1>7 DEF op

LEMMA OpenNothing ==
  ASSUME NEW lines
  PROVE  OpenAfter(lines, 0) = 0
<1>1. Of(lines, 0, Openers) = {} /\ Of(lines, 0, {"endif"}) = {}
  BY DEF Of
<1> QED BY <1>1, FS_EmptySet DEF OpenAfter

(* The lines that have been read of the first m activations. *)
ReadOf(system, a, kinds) == Of(system[Canonical(a.path)], a.next - 1, kinds)

ReadBy(system, acts, m, kinds) ==
  UNION {{k} \X ReadOf(system, acts[k], kinds) : k \in 1 .. m}

Depth(system, acts, m) ==
  Cardinality(ReadBy(system, acts, m, Openers))
    - Cardinality(ReadBy(system, acts, m, {"endif"}))

OpenOf(system, a) == OpenAfter(system[Canonical(a.path)], a.next - 1)

LEMMA ReadNext ==
  ASSUME NEW system, NEW acts, NEW m \in Nat, NEW kinds,
         acts[m + 1].next \in Nat \ {0},
         IsFiniteSet(ReadBy(system, acts, m, kinds))
  PROVE  /\ IsFiniteSet(ReadBy(system, acts, m + 1, kinds))
         /\ Cardinality(ReadBy(system, acts, m + 1, kinds)) =
              Cardinality(ReadBy(system, acts, m, kinds))
                + Cardinality(ReadOf(system, acts[m + 1], kinds))
<1> DEFINE before == ReadBy(system, acts, m, kinds)
           here   == ReadOf(system, acts[m + 1], kinds)
           added  == {m + 1} \X here
<1>1. ReadBy(system, acts, m + 1, kinds) = before \cup added
  <2>1. 1 .. m + 1 = (1 .. m) \cup {m + 1}
    OBVIOUS
  <2> QED BY <2>1, Zenon DEF ReadBy
<1>2. IsFiniteSet(here) /\ Cardinality(here) \in Nat
  <2>1. acts[m + 1].next - 1 \in Nat
    OBVIOUS
  <2> QED BY <2>1, OfType DEF ReadOf
<1>3. IsFiniteSet(added) /\ Cardinality(added) = Cardinality(here)
  <2>1. IsFiniteSet({m + 1}) /\ Cardinality({m + 1}) = 1
    BY FS_Singleton
  <2> HIDE DEF here
  <2>2. /\ IsFiniteSet(added)
        /\ Cardinality(added) = 1 * Cardinality(here)
    BY <1>2, <2>1, FS_Product
  <2> QED BY <1>2, <2>2
<1>4. before \cap added = {}
  <2> SUFFICES ASSUME NEW x \in before, x \in added
               PROVE  FALSE
    OBVIOUS
  <2>1. PICK k \in 1 .. m : x \in {k} \X ReadOf(system, acts[k], kinds)
    BY Zenon DEF ReadBy
  <2>2. x[1] = k /\ x[1] = m + 1
    BY <2>1
  <2> QED BY <2>2
<1> HIDE DEF before, added, here
<1>5. /\ IsFiniteSet(before \cup added)
      /\ Cardinality(before \cup added) =
           Cardinality(before) + Cardinality(added) - Cardinality({})
  BY <1>3, <1>4, FS_Union DEF before
<1>6. Cardinality({}) = 0 /\ Cardinality(before) \in Nat
  BY FS_EmptySet, FS_CardinalityType DEF before
<1>7. Cardinality(before \cup added) = Cardinality(before) + Cardinality(here)
  BY <1>2, <1>3, <1>5, <1>6
<1> QED BY <1>1, <1>5, <1>7, Zenon DEF before, here

LEMMA ReadFinite ==
  ASSUME NEW system, NEW acts, NEW m \in Nat, NEW kinds,
         \A k \in 1 .. m : acts[k].next \in Nat \ {0}
  PROVE  /\ IsFiniteSet(ReadBy(system, acts, m, kinds))
         /\ Cardinality(ReadBy(system, acts, m, kinds)) \in Nat
<1> DEFINE f == [k \in 1 .. m |-> {k} \X ReadOf(system, acts[k], kinds)]
           parts == {f[k] : k \in 1 .. m}
<1>1. IsFiniteSet(1 .. m)
  BY FS_Interval
<1>2. IsFiniteSet(parts)
  <2>1. f \in Surjection(1 .. m, parts)
    BY DEF Surjection
  <2> HIDE DEF f
  <2> QED BY <1>1, <2>1, FS_Surjection
<1>3. ASSUME NEW k \in 1 .. m
      PROVE  IsFiniteSet(f[k])
  <2>1. acts[k].next - 1 \in Nat
    OBVIOUS
  <2>2. IsFiniteSet(ReadOf(system, acts[k], kinds))
    BY <2>1, OfType DEF ReadOf
  <2>3. IsFiniteSet({k})
    BY FS_Singleton
  <2>4. IsFiniteSet({k} \X ReadOf(system, acts[k], kinds))
    BY <2>2, <2>3, FS_Product
  <2> QED BY <2>4
<1>4. IsFiniteSet(UNION parts)
  BY <1>2, <1>3, FS_UNION
<1>5. ReadBy(system, acts, m, kinds) = UNION parts
  BY DEF ReadBy
<1> QED BY <1>4, <1>5, FS_CardinalityType

LEMMA DepthNext ==
  ASSUME NEW system, NEW acts, NEW m \in Nat,
         \A k \in 1 .. m + 1 : acts[k].next \in Nat \ {0}
  PROVE  /\ Depth(system, acts, m) \in Int
         /\ OpenOf(system, acts[m + 1]) \in Int
         /\ Depth(system, acts, m + 1) =
              Depth(system, acts, m) + OpenOf(system, acts[m + 1])
<1> DEFINE a == acts[m + 1]
           opened(n) == Cardinality(ReadBy(system, acts, n, Openers))
           closed(n) == Cardinality(ReadBy(system, acts, n, {"endif"}))
<1>1. a.next \in Nat \ {0} /\ \A k \in 1 .. m : acts[k].next \in Nat \ {0}
  OBVIOUS
<1>2. /\ opened(m) \in Nat
      /\ opened(m + 1) = opened(m) + Cardinality(ReadOf(system, a, Openers))
  BY <1>1, ReadFinite, ReadNext
<1>3. /\ closed(m) \in Nat
      /\ closed(m + 1) = closed(m) + Cardinality(ReadOf(system, a, {"endif"}))
  BY <1>1, ReadFinite, ReadNext
<1>4. /\ Cardinality(ReadOf(system, a, Openers)) \in Nat
      /\ Cardinality(ReadOf(system, a, {"endif"})) \in Nat
  <2>1. a.next - 1 \in Nat
    BY <1>1
  <2> QED BY <2>1, OfType DEF ReadOf
<1>5. OpenOf(system, a) = Cardinality(ReadOf(system, a, Openers))
                            - Cardinality(ReadOf(system, a, {"endif"}))
  BY DEF OpenOf, OpenAfter, ReadOf
<1>6. \A n : Depth(system, acts, n) = opened(n) - closed(n)
  BY DEF Depth
<1> HIDE DEF a, opened, closed
<1>7. /\ Depth(system, acts, m) \in Int
      /\ OpenOf(system, a) \in Int
      /\ Depth(system, acts, m + 1) = Depth(system, acts, m) + OpenOf(system, a)
  BY <1>2, <1>3, <1>4, <1>5, <1>6
<1> QED BY <1>7 DEF a

LEMMA DepthNothing ==
  ASSUME NEW system, NEW acts
  PROVE  Depth(system, acts, 0) = 0
<1>1. \A kinds : ReadBy(system, acts, 0, kinds) = {}
  <2>1. 1 .. 0 = {}
    OBVIOUS
  <2> QED BY <2>1, Zenon DEF ReadBy
<1> QED BY <1>1, FS_EmptySet DEF Depth

LEMMA DepthSame ==
  ASSUME NEW system, NEW acts, NEW others, NEW m \in Nat,
         \A k \in 1 .. m : others[k] = acts[k]
  PROVE  Depth(system, others, m) = Depth(system, acts, m)
<1>1. \A kinds : ReadBy(system, others, m, kinds) = ReadBy(system, acts, m, kinds)
  BY Zenon DEF ReadBy
<1>2. /\ ReadBy(system, others, m, Openers) = ReadBy(system, acts, m, Openers)
      /\ ReadBy(system, others, m, {"endif"}) = ReadBy(system, acts, m, {"endif"})
  BY <1>1
<1> QED BY <1>2 DEF Depth

Change(op) == IF op \in Openers THEN 1 ELSE IF op = "endif" THEN -1 ELSE 0

(* What a directive does to the depth, when memory for the stack never     *)
(* runs out.                                                               *)
LEMMA LineDepth ==
  ASSUME ReadingInv, AllocMayFail = FALSE, ReadLine
  PROVE  \/ Len(stack') = Len(stack) + Change(Line.op)
         \/ Line.op = "endif" /\ Len(stack) = 0
<1> DEFINE op == Line.op
<1>0. Len(stack) \in Nat /\ StackOK
  BY DEF ReadingInv, StackOK
<1>1. ASSUME Opens, op \in Openers
      PROVE  Len(stack') = Len(stack) + Change(op)
  <2>1. Len(stack') = Len(stack) + 1
    BY <1>0, <1>1, OpensShape DEF Opens
  <2> QED BY <1>1, <2>1 DEF Change
<1>2. ASSUME Len(stack') = Len(stack), op \notin Openers, op # "endif"
      PROVE  Len(stack') = Len(stack) + Change(op)
  BY <1>0, <1>2 DEF Change
<1>3. CASE ReadConditional
  <2>1. CASE Reading("if") /\ If(Outcome(macros, Line.args))
    <3>1. op \in Openers
      BY <2>1 DEF Reading, Openers
    <3>2. Opens
      BY <2>1 DEF If, PushFails, Opens, Holds
    <3> QED BY <1>1, <3>1, <3>2
  <2>2. CASE Reading("ifdef") /\ Ifdef(IsDefined(Line.args))
    <3>1. op \in Openers /\ IsDefined(Line.args) \in BOOLEAN
      BY <2>2 DEF Reading, Openers, IsDefined
    <3>2. Opens
      BY <2>2, <3>1 DEF Ifdef, PushFails, Opens
    <3> QED BY <1>1, <3>1, <3>2
  <2>3. CASE Reading("ifndef") /\ Ifdef(~IsDefined(Line.args))
    <3>1. op \in Openers /\ (~IsDefined(Line.args)) \in BOOLEAN
      BY <2>3 DEF Reading, Openers, IsDefined
    <3>2. Opens
      BY <2>3, <3>1 DEF Ifdef, PushFails, Opens
    <3> QED BY <1>1, <3>1, <3>2
  <2>4. CASE \/ Reading("elif") /\ Elif(Outcome(macros, Line.args))
             \/ Reading("else") /\ Else
    <3>1. op \notin Openers /\ op # "endif"
      BY <2>4 DEF Reading, Openers
    <3>2. Switches \/ Keeps
      BY <1>0, <2>4, ElifKind, ElseKind
    <3>3. Len(stack') = Len(stack)
      BY <1>0, <3>2, SwitchesShape DEF Switches, Keeps
    <3> QED BY <1>2, <3>1, <3>3
  <2>5. CASE Reading("endif") /\ Endif
    <3>1. op = "endif"
      BY <2>5 DEF Reading
    <3>2. CASE stack = << >>
      BY <3>1, <3>2
    <3>3. CASE stack # << >>
      <4>1. Closes
        BY <2>5, <3>3 DEF Endif, Closes
      <4>2. Len(stack') = Len(stack) - 1
        BY <1>0, <4>1, ClosesShape
      <4> QED BY <1>0, <3>1, <4>2 DEF Change, Openers
    <3> QED BY <3>2, <3>3
  <2> QED BY <1>3, <2>1, <2>2, <2>3, <2>4, <2>5, Zenon DEF ReadConditional
<1>4. CASE ReadText \/ ReadDefine \/ ReadUndef \/ ReadError \/ ReadInclude
  <2>1. stack' = stack
    BY <1>4, Zenon
    DEF ReadText, ReadDefine, ReadUndef, ReadError, ReadInclude, Include,
        Complain, condVars
  <2>2. op \in {"text", "define", "define()", "undef", "error", "malformed",
                "unknown", "include", "using"}
    BY <1>4 DEF ReadText, ReadDefine, ReadUndef, ReadError, ReadInclude, Reading
  <2>3. op \notin Openers /\ op # "endif"
    BY <2>2 DEF Openers
  <2> QED BY <1>2, <2>1, <2>3
<1> QED BY <1>3, <1>4 DEF ReadLine

AllBalanced == \A path \in DOMAIN files : Balanced(files[path])

DepthInv ==
  AllBalanced => /\ \A m \in 0 .. Len(active) : Depth(files, active, m) >= 0
                 /\ Len(stack) = Depth(files, active, Len(active))

LEMMA NextIsCount ==
  ASSUME NEW acts \in Seq(Activation)
  PROVE  /\ Len(acts) \in Nat
         /\ \A k \in 1 .. Len(acts) : acts[k].next \in Nat \ {0}
<1>1. \A k \in 1 .. Len(acts) : acts[k] \in Activation
  OBVIOUS
<1> QED BY <1>1 DEF Activation

LEMMA NextsType ==
  ASSUME ReadingInv
  PROVE  /\ Len(active) \in Nat
         /\ \A k \in 1 .. Len(active) : active[k].next \in Nat \ {0}
<1>1. active \in Seq(Activation)
  BY DEF ReadingInv, ActiveOK
<1> QED BY <1>1, NextIsCount

(* The depth up to the running buffer, and behind its line. *)
LEMMA TopDepth ==
  ASSUME ReadingInv, active # << >>
  PROVE  /\ Depth(files, active, Len(active) - 1) \in Int
         /\ OpenOf(files, Current) \in Int
         /\ Depth(files, active, Len(active)) =
              Depth(files, active, Len(active) - 1) + OpenOf(files, Current)
<1> DEFINE m == Len(active) - 1
<1>1. m \in Nat /\ m + 1 = Len(active)
  BY CurrentType
<1>2. \A k \in 1 .. m + 1 : active[k].next \in Nat \ {0}
  BY <1>1, NextsType
<1>3. Current = active[m + 1]
  BY <1>1 DEF Current
<1> HIDE DEF m
<1>4. /\ Depth(files, active, m) \in Int
      /\ OpenOf(files, active[m + 1]) \in Int
      /\ Depth(files, active, m + 1) =
           Depth(files, active, m) + OpenOf(files, active[m + 1])
  BY <1>1, <1>2, DepthNext
<1> QED BY <1>1, <1>3, <1>4 DEF m

LEMMA NextLineDepth ==
  ASSUME ReadingInv, active # << >>, ~AtEnd
  PROVE  /\ \A m \in 0 .. Len(active) - 1 :
              Depth(files, NextLine, m) = Depth(files, active, m)
         /\ Depth(files, NextLine, Len(active)) =
              Depth(files, active, Len(active)) + Change(Line.op)
         /\ AllBalanced =>
              Depth(files, NextLine, Len(active)) >=
                Depth(files, active, Len(active) - 1)
<1> DEFINE m == Len(active) - 1
           top == NextLine[m + 1]
<1>1. m \in Nat /\ m + 1 = Len(active) /\ Current \in Activation
  BY CurrentType
<1>2. \A k \in 1 .. m + 1 : NextLine[k].next \in Nat \ {0}
  <2>1. NextLine \in Seq(Activation) /\ Len(NextLine) = m + 1
    BY <1>1, NextLineShape
  <2> QED BY <2>1, NextIsCount
<1>3. /\ \A k \in 1 .. m : NextLine[k] = active[k]
      /\ top.path = Current.path
      /\ top.next = Current.next + 1
  BY <1>1, NextLineShape DEF Current
<1> HIDE DEF m, top
<1>4. ASSUME NEW i \in 0 .. m
      PROVE  Depth(files, NextLine, i) = Depth(files, active, i)
  <2>1. i \in Nat /\ \A k \in 1 .. i : NextLine[k] = active[k]
    BY <1>1, <1>3
  <2> QED BY <2>1, DepthSame
<1>5. /\ OpenOf(files, top) \in Int
      /\ Depth(files, NextLine, m + 1) = Depth(files, NextLine, m) + OpenOf(files, top)
  BY <1>1, <1>2, DepthNext DEF top
<1>6. Depth(files, NextLine, m) = Depth(files, active, m)
  BY <1>1, <1>4
<1>7. /\ Depth(files, active, m) \in Int
      /\ OpenOf(files, Current) \in Int
      /\ Depth(files, active, m + 1) = Depth(files, active, m) + OpenOf(files, Current)
  BY <1>1, TopDepth DEF m
<1> DEFINE lines == Lines(Current.path)
<1>8. Current.next \in 1 .. Len(lines) /\ Len(lines) \in Nat
  BY LineType, CurrentType
<1>9. /\ OpenOf(files, top) = OpenAfter(lines, Current.next)
      /\ OpenOf(files, Current) = OpenAfter(lines, Current.next - 1)
  <2>1. top.next - 1 = Current.next
    BY <1>1, <1>3 DEF Activation
  <2> QED BY <1>3, <2>1, Zenon DEF OpenOf, Lines
<1>10. OpenAfter(lines, Current.next) =
         OpenAfter(lines, Current.next - 1) + Change(Line.op)
  <2>1. Current.next - 1 \in Nat /\ (Current.next - 1) + 1 = Current.next
    BY <1>8
  <2>2. Line = lines[Current.next]
    BY DEF Line
  <2> HIDE DEF lines
  <2> QED BY <2>1, <2>2, OpenNext DEF Change
<1>11. Change(Line.op) \in Int
  BY DEF Change
<1>12. AllBalanced => OpenAfter(lines, Current.next) >= 0
  <2>1. Exists(Current.path)
    BY CurrentType
  <2> QED BY <1>8, <2>1 DEF AllBalanced, Exists, Lines, Balanced
<1> HIDE DEF lines
<1>13. /\ Depth(files, NextLine, m + 1) =
            Depth(files, active, m + 1) + Change(Line.op)
       /\ AllBalanced => Depth(files, NextLine, m + 1) >= Depth(files, active, m)
  BY <1>5, <1>6, <1>7, <1>9, <1>10, <1>11, <1>12
<1> QED BY <1>1, <1>4, <1>13 DEF m

LEMMA DepthPreserved ==
  ASSUME AllocMayFail = FALSE, ReadingInv, DepthInv, [Next]_vars
  PROVE  DepthInv'
<1> DEFINE n == Len(active)
<1>0. UNCHANGED files /\ n \in Nat /\ Len(stack) \in Nat
  BY ReadingMoves, NextsType DEF ReadingInv, StackOK
<1> SUFFICES ASSUME AllBalanced
             PROVE  /\ \A m \in 0 .. Len(active') : Depth(files, active', m) >= 0
                    /\ Len(stack') = Depth(files, active', Len(active'))
  BY <1>0, Zenon DEF DepthInv, AllBalanced
<1>1. /\ \A m \in 0 .. n : Depth(files, active, m) >= 0
      /\ Len(stack) = Depth(files, active, n)
  BY DEF DepthInv
(* A buffer just opened has nothing open. *)
<1>2. ASSUME NEW acts \in Seq(Activation), NEW m \in Nat, Len(acts) = m + 1,
             acts[m + 1].next = 1
      PROVE  Depth(files, acts, m + 1) = Depth(files, acts, m)
  <2>1. \A k \in 1 .. m + 1 : acts[k].next \in Nat \ {0}
    BY <1>2, NextIsCount
  <2>2. OpenOf(files, acts[m + 1]) = 0
    <3>1. acts[m + 1].next - 1 = 0
      BY <1>2
    <3> QED BY <3>1, OpenNothing DEF OpenOf
  <2>3. /\ Depth(files, acts, m) \in Int
        /\ Depth(files, acts, m + 1) = Depth(files, acts, m) + OpenOf(files, acts[m + 1])
    BY <2>1, DepthNext
  <2> QED BY <2>2, <2>3
<1>3. CASE StartUnit /\ Starts
  <2> DEFINE a == Opened(units[unit])
  <2>1. active' = <<a>> /\ stack' = << >>
    BY <1>3, Zenon DEF StartUnit, Starts
  <2>2. a.next = 1
    BY DEF Opened
  <2>3. active' \in Seq(Activation)
    BY ActivePreserved DEF ActiveOK
  <2> HIDE DEF a
  <2>4. Len(active') = 0 + 1 /\ active'[0 + 1].next = 1
    BY <2>1, <2>2
  <2>5. Depth(files, active', 0 + 1) = Depth(files, active', 0)
    BY <1>2, <2>3, <2>4
  <2>6. Depth(files, active', 0) = 0 /\ Depth(files, active', 1) = 0
    BY <2>5, DepthNothing
  <2>7. Len(stack') = 0 /\ Len(active') = 1
    BY <2>1, <2>4
  <2>8. \A m \in 0 .. 1 : m = 0 \/ m = 1
    OBVIOUS
  <2>9. \A m \in 0 .. 1 : Depth(files, active', m) >= 0
    BY <2>6, <2>8
  <2> QED BY <2>6, <2>7, <2>9
(* One line further, in the running buffer. *)
<1>4. ASSUME ReadLine, active # << >>, ~AtEnd
      PROVE  /\ \A m \in 0 .. n : Depth(files, NextLine, m) >= 0
             /\ Len(stack') = Depth(files, NextLine, n)
  <2>1. /\ \A m \in 0 .. n - 1 : Depth(files, NextLine, m) = Depth(files, active, m)
        /\ Depth(files, NextLine, n) = Depth(files, active, n) + Change(Line.op)
        /\ Depth(files, NextLine, n) >= Depth(files, active, n - 1)
    BY <1>4, NextLineDepth
  <2>2. n - 1 \in 0 .. n /\ Depth(files, active, n - 1) \in Int
    BY <1>0, <1>4, TopDepth, CurrentType
  <2>3. Change(Line.op) \in Int /\ (Line.op = "endif" => Change(Line.op) = -1)
    BY DEF Change, Openers
  <2>4. Depth(files, NextLine, n) \in Int /\ Depth(files, NextLine, n) >= 0
    BY <1>0, <1>1, <2>1, <2>2, <2>3
  <2>5. \A m \in 0 .. n : Depth(files, NextLine, m) >= 0
    <3>1. \A m \in 0 .. n : m \in 0 .. n - 1 \/ m = n
      BY <1>0
    <3> QED BY <1>1, <2>1, <2>4, <3>1
  <2>6. ~(Line.op = "endif" /\ Len(stack) = 0)
    BY <1>1, <2>1, <2>3, <2>4
  <2>7. Len(stack') = Len(stack) + Change(Line.op)
    BY <1>4, <2>6, LineDepth
  <2> QED BY <1>1, <2>1, <2>5, <2>7
<1>5. CASE ReadLine /\ Advances
  <2>1. Len(NextLine) = n
    BY <1>5, NextLineShape DEF Advances
  <2> QED BY <1>4, <1>5, <2>1 DEF Advances
<1>6. CASE ReadLine /\ Descends
  <2>1. PICK path \in Texts :
          Exists(path) /\ active' = Append(NextLine, Opened(path))
    BY <1>6 DEF Descends
  <2>2. /\ active' \in Seq(Activation)
        /\ Len(active') = n + 1
        /\ \A k \in 1 .. n : active'[k] = NextLine[k]
        /\ active'[n + 1] = Opened(path)
    BY <1>6, <2>1, DescendedShape, Zenon DEF Descends
  <2>3. active'[n + 1].next = 1
    BY <2>2 DEF Opened
  <2>4. Depth(files, active', n + 1) = Depth(files, active', n)
    BY <1>0, <1>2, <2>2, <2>3
  <2>5. ASSUME NEW m \in 0 .. n
        PROVE  Depth(files, active', m) = Depth(files, NextLine, m)
    <3>1. m \in Nat /\ \A k \in 1 .. m : active'[k] = NextLine[k]
      BY <1>0, <2>2
    <3> QED BY <3>1, DepthSame
  <2>6. /\ \A m \in 0 .. n : Depth(files, active', m) >= 0
        /\ Len(stack') = Depth(files, active', n)
    <3>1. n \in 0 .. n
      BY <1>0
    <3> QED BY <1>4, <1>6, <2>5, <3>1 DEF Descends
  <2>7. \A m \in 0 .. n + 1 : m \in 0 .. n \/ m = n + 1
    BY <1>0
  <2>8. n \in 0 .. n
    BY <1>0
  <2> QED BY <2>2, <2>4, <2>6, <2>7, <2>8
<1>7. ASSUME active # << >>, AtEnd
      PROVE  Depth(files, active, n - 1) = Depth(files, active, n)
  <2>1. Exists(Current.path) /\ Len(Lines(Current.path)) = Current.next - 1
    BY <1>7, CurrentType DEF AtEnd, Activation
  <2>2. OpenAfter(Lines(Current.path), Len(Lines(Current.path))) = 0
    BY <2>1 DEF AllBalanced, Exists, Lines, Balanced
  <2>3. OpenOf(files, Current) = 0
    BY <2>1, <2>2, Zenon DEF OpenOf, Lines
  <2> QED BY <1>7, <2>3, TopDepth
<1>8. CASE Return /\ Ascends
  <2>1. /\ Len(active') = n - 1
        /\ \A k \in 1 .. n - 1 : active'[k] = active[k]
        /\ n > 1 /\ AtEnd /\ active # << >>
    BY <1>8, AscendedShape DEF Ascends
  <2>2. ASSUME NEW m \in 0 .. n - 1
        PROVE  Depth(files, active', m) = Depth(files, active, m)
    <3>1. m \in Nat /\ \A k \in 1 .. m : active'[k] = active[k]
      BY <1>0, <2>1
    <3> QED BY <3>1, DepthSame
  <2>3. stack' = stack
    BY <1>8 DEF Return, condVars
  <2>4. n - 1 \in 0 .. n - 1 /\ \A m \in 0 .. n - 1 : m \in 0 .. n
    BY <1>0, <2>1
  <2> QED BY <1>1, <1>7, <2>1, <2>2, <2>3, <2>4
<1>9. CASE FinishUnit /\ Ends
  <2>1. active' = << >> /\ n = 1 /\ AtEnd /\ active # << >>
    BY <1>9 DEF Ends
  <2>2. stack' = stack
    BY <1>9 DEF FinishUnit, condVars
  <2>3. Depth(files, active, 0) = 0 /\ Depth(files, active', 0) = 0
    BY DepthNothing
  <2>4. Len(stack) = 0
    BY <1>1, <1>7, <2>1, <2>3
  <2>5. Len(active') = 0
    BY <2>1
  <2> QED BY <2>2, <2>3, <2>4, <2>5
<1>10. CASE UNCHANGED stack /\ Rests
  BY <1>1, <1>10 DEF Rests
<1> QED BY <1>3, <1>5, <1>6, <1>8, <1>9, <1>10, ReadingMoves

(* If every file closes the groups it opens, and no others, then at every  *)
(* moment the stack holds one frame for every group that the text read of  *)
(* the active buffers has open, however the files include one another: the *)
(* frames below those of a file are the ones that were there before it.    *)
(* It is assumed that the stack can always grow: an #ifdef that is not     *)
(* pushed leaves the #endif of its group to close another one.             *)
THEOREM DepthOfText ==
  ASSUME AllocMayFail = FALSE
  PROVE  Spec => []DepthFollowsText
<1>1. Init => DepthInv
  <2> SUFFICES ASSUME Init PROVE DepthInv
    OBVIOUS
  <2>1. Len(active) = 0 /\ Len(stack) = 0
    BY DEF Init, CondInit
  <2>2. Depth(files, active, 0) = 0
    BY DepthNothing
  <2>3. \A m \in 0 .. 0 : m = 0
    OBVIOUS
  <2> QED BY <2>1, <2>2, <2>3 DEF DepthInv
<1>2. ReadingInv /\ DepthInv /\ [Next]_vars => DepthInv'
  BY DepthPreserved
<1>3. ReadingInv /\ DepthInv => DepthFollowsText
  <2> SUFFICES ASSUME ReadingInv, DepthInv
               PROVE  DepthFollowsText
    OBVIOUS
  <2>1. DOMAIN active = 1 .. Len(active)
    BY DEF ReadingInv, ActiveOK
  <2>2. \A kinds : LinesRead(kinds) = ReadBy(files, active, Len(active), kinds)
    BY <2>1, Zenon DEF LinesRead, ReadBy, ReadOf, Lines
  <2>3. Cardinality(LinesRead(Openers)) - Cardinality(LinesRead({"endif"}))
          = Depth(files, active, Len(active))
    BY <2>2 DEF Depth
  <2> QED BY <2>3 DEF DepthInv, DepthFollowsText, AllBalanced
<1> QED BY <1>1, <1>2, <1>3, AlwaysReading, PTL DEF Spec

-----------------------------------------------------------------------------
(* What preprocessing makes of a unit *)

(* What a unit has for itself while it is preprocessed. *)
Own ==
  [stack |-> stack, capacity |-> capacity, errors |-> errors, macros |-> macros,
   active |-> active, included |-> included, output |-> output]

Fresh(path) ==
  [stack |-> << >>, capacity |-> InitialCapacity, errors |-> {}, macros |-> Builtins,
   active |-> <<Opened(path)>>, included |-> {}, output |-> << >>]

(* What the next line makes of each part of it, as a function of what the  *)
(* unit has: the steps with their variables put in as arguments.           *)
Live(frames) == frames = << >> \/ ~frames[Len(frames)].skip

Opening(frames, value) ==
  Append(frames, [parent_skip |-> ~Live(frames),
                  skip        |-> ~Live(frames) \/ ~value,
                  taken       |-> Live(frames) /\ value,
                  else_seen   |-> FALSE])

Within(frames) == Len(frames) > 1 /\ frames[Len(frames) - 1].skip

Topped(frames, frame) == [frames EXCEPT ![Len(frames)] = frame]

AfterElif(frames, outcome) ==
  LET top == frames[Len(frames)]
  IN IF frames = << >> \/ top.else_seen THEN frames
     ELSE IF Within(frames) \/ top.taken THEN Topped(frames, [top EXCEPT !.skip = TRUE])
     ELSE Topped(frames, [top EXCEPT !.skip = ~Holds(outcome), !.taken = Holds(outcome)])

AfterElse(frames) ==
  LET top == frames[Len(frames)]
  IN IF frames = << >> \/ top.else_seen THEN frames
     ELSE Topped(frames,
                 IF Within(frames)
                 THEN [top EXCEPT !.skip = TRUE, !.else_seen = TRUE]
                 ELSE [top EXCEPT !.skip = top.taken, !.taken = TRUE, !.else_seen = TRUE])

DefinedIn(table, args) == Len(args) = 1 /\ args[1] \in DOMAIN table

StackAfter(s, line) ==
  IF line.op = "if" THEN Opening(s.stack, Holds(Outcome(s.macros, line.args)))
  ELSE IF line.op = "ifdef" THEN Opening(s.stack, DefinedIn(s.macros, line.args))
  ELSE IF line.op = "ifndef" THEN Opening(s.stack, ~DefinedIn(s.macros, line.args))
  ELSE IF line.op = "elif" THEN AfterElif(s.stack, Outcome(s.macros, line.args))
  ELSE IF line.op = "else" THEN AfterElse(s.stack)
  ELSE IF line.op = "endif" /\ s.stack # << >> THEN SubSeq(s.stack, 1, Len(s.stack) - 1)
  ELSE s.stack

CapacityAfter(s, line) ==
  IF line.op \in {"if", "ifdef", "ifndef"} /\ Len(s.stack) >= s.capacity
  THEN 2 * s.capacity ELSE s.capacity

PathOf(s, line) ==
  LET base == s.active[Len(s.active)].path
  IN IF line.op = "include" THEN FullPath(base, line.args) ELSE LibraryPath(base, line.args)

(* A path that is asked for, and not registered. *)
Wanted(s, line) == line.op \in {"include", "using"} /\ PathOf(s, line) \notin s.included

Missing(s, line) == Wanted(s, line) /\ ~Exists(PathOf(s, line))

Entering(s, line) ==
  Wanted(s, line) /\ Exists(PathOf(s, line)) /\ Lines(PathOf(s, line)) # << >>

ConditionalErrors(s, line) ==
  LET top == s.stack[Len(s.stack)]
  IN IF line.op = "if" THEN Complaint(Outcome(s.macros, line.args))
     ELSE IF line.op = "elif"
     THEN IF s.stack = << >> THEN {"elif without if"}
          ELSE IF top.else_seen THEN {"elif after else"}
          ELSE IF Within(s.stack) \/ top.taken THEN {}
          ELSE Complaint(Outcome(s.macros, line.args))
     ELSE IF line.op = "else"
     THEN IF s.stack = << >> THEN {"else without if"}
          ELSE IF top.else_seen THEN {"duplicate else"} ELSE {}
     ELSE IF line.op = "endif" /\ s.stack = << >> THEN {"endif without if"}
     ELSE {}

OtherErrors(s, line) ==
  IF line.op = "undef" /\ Head(line.args) \notin DOMAIN s.macros
  THEN {"undefining undefined macro"}
  ELSE IF line.op = "error" THEN {"error directive"}
  ELSE IF line.op = "malformed" THEN {"malformed directive"}
  ELSE IF line.op = "unknown" THEN {"unknown directive"}
  ELSE IF Missing(s, line) THEN {"file not found"}
  ELSE {}

ErrorsAfter(s, line) ==
  s.errors \union ConditionalErrors(s, line) \union OtherErrors(s, line)

DefinedAs(table, args, params) ==
  Entered(table, Head(args), params, Expansion(table, Head(args), Tail(args)))

MacrosAfter(s, line) ==
  IF line.op = "define" THEN DefinedAs(s.macros, line.args, FALSE)
  ELSE IF line.op = "define()" THEN DefinedAs(s.macros, line.args, TRUE)
  ELSE IF line.op = "undef" /\ Head(line.args) \in DOMAIN s.macros
  THEN Restrict(s.macros, DOMAIN s.macros \ {Head(line.args)})
  ELSE s.macros

ActiveAfter(s, line) ==
  LET read == [s.active EXCEPT ![Len(s.active)].next = @ + 1]
  IN IF Entering(s, line) THEN Append(read, Opened(PathOf(s, line))) ELSE read

IncludedAfter(s, line) ==
  IF Entering(s, line) THEN s.included \union {PathOf(s, line)} ELSE s.included

OutputAfter(s, line) ==
  IF line.op = "text" /\ Live(s.stack)
  THEN s.output \o ExpandedText(s.macros, line.args) ELSE s.output

AfterLine(s, line) ==
  [stack |-> StackAfter(s, line), capacity |-> CapacityAfter(s, line),
   errors |-> ErrorsAfter(s, line), macros |-> MacrosAfter(s, line),
   active |-> ActiveAfter(s, line), included |-> IncludedAfter(s, line),
   output |-> OutputAfter(s, line)]

LinesOf(s) == Lines(s.active[Len(s.active)].path)

Read(s) == s.active[Len(s.active)].next > Len(LinesOf(s))

After(s) ==
  IF Read(s) THEN [s EXCEPT !.active = Front(@)]
  ELSE AfterLine(s, LinesOf(s)[s.active[Len(s.active)].next])

LEMMA OwnFields ==
  /\ Own.stack = stack /\ Own.capacity = capacity /\ Own.errors = errors
  /\ Own.macros = macros /\ Own.active = active /\ Own.included = included
  /\ Own.output = output
BY DEF Own

LEMMA StackOfLine ==
  ASSUME AllocMayFail = FALSE, ReadLine
  PROVE  stack' = StackAfter(Own, Line)
<1>0. ASSUME NEW value PROVE Opening(stack, value) = Append(stack, NewFrame(value))
  BY Zenon DEF Opening, Live, NewFrame, ShouldOutput, Top
<1>00. Within(stack) = EnclosingSkip
  BY Zenon DEF Within, EnclosingSkip
<1>1. CASE Reading("if") /\ If(Outcome(macros, Line.args))
  <2>1. /\ Line.op = "if"
        /\ stack' = Append(stack, NewFrame(Holds(Outcome(macros, Line.args))))
    BY <1>1, Zenon DEF Reading, If, Push, PushFails
  <2> QED BY <2>1, <1>0, OwnFields, Zenon DEF StackAfter
<1>2. CASE Reading("ifdef") /\ Ifdef(IsDefined(Line.args))
  <2>1. Line.op = "ifdef" /\ stack' = Append(stack, NewFrame(DefinedIn(macros, Line.args)))
    BY <1>2, Zenon DEF Reading, Ifdef, Push, PushFails, IsDefined, DefinedIn
  <2> QED BY <2>1, <1>0, OwnFields, Zenon DEF StackAfter
<1>3. CASE Reading("ifndef") /\ Ifdef(~IsDefined(Line.args))
  <2>1. /\ Line.op = "ifndef"
        /\ stack' = Append(stack, NewFrame(~DefinedIn(macros, Line.args)))
    BY <1>3, Zenon DEF Reading, Ifdef, Push, PushFails, IsDefined, DefinedIn
  <2> QED BY <2>1, <1>0, OwnFields, Zenon DEF StackAfter
<1>4. CASE Reading("elif") /\ Elif(Outcome(macros, Line.args))
  <2>1. Line.op = "elif" /\ stack' = AfterElif(stack, Outcome(macros, Line.args))
    BY <1>4, <1>00, Zenon DEF Reading, Elif, AfterElif, Report, Decided, SetTop, Top, Topped
  <2> QED BY <2>1, OwnFields, Zenon DEF StackAfter
<1>5. CASE Reading("else") /\ Else
  <2>1. Line.op = "else" /\ stack' = AfterElse(stack)
    BY <1>5, <1>00, Zenon DEF Reading, Else, AfterElse, Report, SetTop, Top, Topped
  <2> QED BY <2>1, OwnFields, Zenon DEF StackAfter
<1>6. CASE Reading("endif") /\ Endif
  <2>1. Line.op = "endif"
    BY <1>6, Zenon DEF Reading
  <2> QED BY <1>6, <2>1, OwnFields, Zenon DEF StackAfter, Endif, Report
<1>7. CASE ReadText \/ ReadDefine \/ ReadUndef \/ ReadError \/ ReadInclude
  <2>1. UNCHANGED stack
    BY <1>7, Zenon
    DEF ReadText, ReadDefine, ReadUndef, ReadError, ReadInclude, Include, Complain, condVars
  <2>2. Line.op \notin {"if", "ifdef", "ifndef", "elif", "else", "endif"}
    BY <1>7 DEF ReadText, ReadDefine, ReadUndef, ReadError, ReadInclude, Reading
  <2> QED BY <2>1, <2>2, OwnFields, Zenon DEF StackAfter
<1> QED BY <1>1, <1>2, <1>3, <1>4, <1>5, <1>6, <1>7, Zenon DEF ReadLine, ReadConditional

LEMMA CapacityOfLine ==
  ASSUME AllocMayFail = FALSE, ReadLine
  PROVE  capacity' = CapacityAfter(Own, Line)
<1>1. CASE ReadConditional /\ Line.op \in {"if", "ifdef", "ifndef"}
  <2>1. If(Outcome(macros, Line.args)) \/ Ifdef(IsDefined(Line.args))
          \/ Ifdef(~IsDefined(Line.args))
    BY <1>1 DEF ReadConditional, Reading
  <2>2. capacity' = IF MustGrow THEN 2 * capacity ELSE capacity
    BY <2>1, Zenon DEF If, Ifdef, Push, PushFails
  <2> QED BY <1>1, <2>2, OwnFields, Zenon DEF CapacityAfter, MustGrow
<1>2. CASE ReadConditional /\ Line.op \notin {"if", "ifdef", "ifndef"}
  <2>1. Elif(Outcome(macros, Line.args)) \/ Else \/ Endif
    BY <1>2 DEF ReadConditional, Reading
  <2>2. UNCHANGED capacity
    BY <2>1, Zenon DEF Elif, Else, Endif, SetTop, Report
  <2> QED BY <1>2, <2>2, OwnFields, Zenon DEF CapacityAfter
<1>3. CASE ReadText \/ ReadDefine \/ ReadUndef \/ ReadError \/ ReadInclude
  <2>1. UNCHANGED capacity
    BY <1>3, Zenon
    DEF ReadText, ReadDefine, ReadUndef, ReadError, ReadInclude, Include, Complain, condVars
  <2>2. Line.op \notin {"if", "ifdef", "ifndef"}
    BY <1>3 DEF ReadText, ReadDefine, ReadUndef, ReadError, ReadInclude, Reading
  <2> QED BY <2>1, <2>2, OwnFields, Zenon DEF CapacityAfter
<1> QED BY <1>1, <1>2, <1>3, Zenon DEF ReadLine

LEMMA IncludeOfLine ==
  ASSUME ReadInclude
  PROVE  Line.op \in {"include", "using"} /\ Include(PathOf(Own, Line))
<1>1. CASE /\ Reading("include")
           /\ \E path \in {FullPath(Current.path, Line.args)} : Include(path)
  <2>1. Line.op = "include" /\ Include(FullPath(Current.path, Line.args))
    BY <1>1, Zenon DEF Reading
  <2> QED BY <2>1, OwnFields, Zenon DEF PathOf, Current
<1>2. CASE /\ Reading("using")
           /\ \E path \in {LibraryPath(Current.path, Line.args)} : Include(path)
  <2>1. Line.op = "using" /\ Include(LibraryPath(Current.path, Line.args))
    BY <1>2, Zenon DEF Reading
  <2>2. Line.op # "include"
    BY <2>1
  <2> QED BY <2>1, <2>2, OwnFields, Zenon DEF PathOf, Current
<1> QED BY <1>1, <1>2, Zenon DEF ReadInclude

LEMMA ErrorsOfLine ==
  ASSUME AllocMayFail = FALSE, ReadLine
  PROVE  errors' = ErrorsAfter(Own, Line)
<1>0. Within(stack) = EnclosingSkip
  BY Zenon DEF Within, EnclosingSkip
<1>1. CASE ReadConditional
  <2>1. errors' = errors \union ConditionalErrors(Own, Line)
    <3>1. CASE Reading("if") /\ If(Outcome(macros, Line.args))
      <4>1. Line.op = "if" /\ errors' = errors \union Complaint(Outcome(macros, Line.args))
        BY <3>1, Zenon DEF Reading, If, PushFails
      <4> QED BY <4>1, OwnFields, Zenon DEF ConditionalErrors
    <3>2. CASE \/ Reading("ifdef") /\ Ifdef(IsDefined(Line.args))
               \/ Reading("ifndef") /\ Ifdef(~IsDefined(Line.args))
      <4>1. Line.op \in {"ifdef", "ifndef"} /\ UNCHANGED errors
        BY <3>2, Zenon DEF Reading, Ifdef
      <4>2. ConditionalErrors(Own, Line) = {}
        BY <4>1 DEF ConditionalErrors
      <4> QED BY <4>1, <4>2
    <3>3. CASE Reading("elif") /\ Elif(Outcome(macros, Line.args))
      <4>1. /\ Line.op = "elif"
            /\ errors' = errors \union
                 (IF stack = << >> THEN {"elif without if"}
                  ELSE IF Top.else_seen THEN {"elif after else"}
                  ELSE IF Within(stack) \/ Top.taken THEN {}
                  ELSE Complaint(Outcome(macros, Line.args)))
        BY <1>0, <3>3 DEF Reading, Elif, Report, Decided
      <4>2. Line.op # "if"
        BY <4>1
      <4> QED BY <4>1, <4>2, OwnFields, Zenon DEF ConditionalErrors, Top
    <3>4. CASE Reading("else") /\ Else
      <4>1. /\ Line.op = "else"
            /\ errors' = errors \union
                 (IF stack = << >> THEN {"else without if"}
                  ELSE IF Top.else_seen THEN {"duplicate else"} ELSE {})
        BY <3>4 DEF Reading, Else, Report
      <4>2. Line.op \notin {"if", "elif"}
        BY <4>1
      <4> QED BY <4>1, <4>2, OwnFields, Zenon DEF ConditionalErrors, Top
    <3>5. CASE Reading("endif") /\ Endif
      <4>1. /\ Line.op = "endif"
            /\ errors' = errors \union (IF stack = << >> THEN {"endif without if"} ELSE {})
        BY <3>5 DEF Reading, Endif, Report
      <4>2. Line.op \notin {"if", "elif", "else"}
        BY <4>1
      <4> QED BY <4>1, <4>2, OwnFields, Zenon DEF ConditionalErrors
    <3> QED BY <1>1, <3>1, <3>2, <3>3, <3>4, <3>5, Zenon DEF ReadConditional
  <2>2. OtherErrors(Own, Line) = {}
    BY <1>1 DEF ReadConditional, Reading, OtherErrors, Missing, Wanted
  <2> QED BY <2>1, <2>2, OwnFields DEF ErrorsAfter
<1>2. CASE ReadText \/ ReadDefine \/ ReadUndef \/ ReadError \/ ReadInclude
  <2>1. ConditionalErrors(Own, Line) = {}
    BY <1>2
    DEF ReadText, ReadDefine, ReadUndef, ReadError, ReadInclude, Reading, ConditionalErrors
  <2>2. errors' = errors \union OtherErrors(Own, Line)
    <3>1. CASE ReadText \/ ReadDefine
      <4>1. UNCHANGED errors /\ Line.op \in {"text", "define", "define()"}
        BY <3>1, Zenon DEF ReadText, ReadDefine, Reading, condVars
      <4>2. OtherErrors(Own, Line) = {}
        BY <4>1 DEF OtherErrors, Missing, Wanted
      <4> QED BY <4>1, <4>2
    <3>2. CASE ReadUndef
      <4>1. /\ Line.op = "undef"
            /\ errors' = errors \union (IF Head(Line.args) \notin DOMAIN macros
                                        THEN {"undefining undefined macro"} ELSE {})
        BY <3>2 DEF ReadUndef, Reading, Complain, condVars
      <4>2. OtherErrors(Own, Line) = IF Head(Line.args) \notin DOMAIN macros
                                     THEN {"undefining undefined macro"} ELSE {}
        BY <4>1, OwnFields DEF OtherErrors, Missing, Wanted
      <4> QED BY <4>1, <4>2
    <3>3. CASE ReadError
      <4>1. \/ Line.op = "error" /\ errors' = errors \union {"error directive"}
            \/ Line.op = "malformed" /\ errors' = errors \union {"malformed directive"}
            \/ Line.op = "unknown" /\ errors' = errors \union {"unknown directive"}
        BY <3>3, Zenon DEF ReadError, Reading, Complain
      <4> QED BY <4>1 DEF OtherErrors
    <3>4. CASE ReadInclude
      <4> DEFINE path == PathOf(Own, Line)
      <4>1. Line.op \in {"include", "using"} /\ Include(path)
        BY <3>4, IncludeOfLine
      <4>2. OtherErrors(Own, Line) = IF path \notin included /\ ~Exists(path)
                                     THEN {"file not found"} ELSE {}
        BY <4>1, OwnFields DEF OtherErrors, Missing, Wanted
      <4> HIDE DEF path
      <4>3. \/ (path \in included \/ Exists(path)) /\ UNCHANGED errors
            \/ /\ path \notin included /\ ~Exists(path)
               /\ errors' = errors \union {"file not found"}
        BY <4>1, Zenon DEF Include, condVars, Complain
      <4> QED BY <4>2, <4>3
    <3> QED BY <1>2, <3>1, <3>2, <3>3, <3>4
  <2> QED BY <2>1, <2>2, OwnFields DEF ErrorsAfter
<1> QED BY <1>1, <1>2, Zenon DEF ReadLine

LEMMA MacrosOfLine ==
  ASSUME ReadLine
  PROVE  macros' = MacrosAfter(Own, Line)
<1>1. CASE Reading("define") /\ Define(Head(Line.args), FALSE, Tail(Line.args))
  <2>1. Line.op = "define" /\ macros' = DefinedAs(macros, Line.args, FALSE)
    BY <1>1, Zenon DEF Reading, Define, DefinedAs
  <2> QED BY <2>1, OwnFields, Zenon DEF MacrosAfter
<1>2. CASE Reading("define()") /\ Define(Head(Line.args), TRUE, Tail(Line.args))
  <2>1. Line.op = "define()" /\ macros' = DefinedAs(macros, Line.args, TRUE)
    BY <1>2, Zenon DEF Reading, Define, DefinedAs
  <2>2. Line.op # "define"
    BY <2>1
  <2> QED BY <2>1, <2>2, OwnFields, Zenon DEF MacrosAfter
<1>3. CASE ReadUndef
  <2>1. /\ Line.op = "undef"
        /\ macros' = IF Head(Line.args) \in DOMAIN macros
                     THEN Restrict(macros, DOMAIN macros \ {Head(Line.args)}) ELSE macros
    BY <1>3, Zenon DEF ReadUndef, Reading, Undefine
  <2>2. Line.op # "define" /\ Line.op # "define()"
    BY <2>1
  <2> QED BY <2>1, <2>2, OwnFields, Zenon DEF MacrosAfter
<1>4. CASE ReadText \/ ReadConditional \/ ReadError \/ ReadInclude
  <2>1. UNCHANGED macros
    BY <1>4, Zenon DEF ReadText, ReadConditional, ReadError, ReadInclude
  <2>2. Line.op \notin {"define", "define()", "undef"}
    BY <1>4 DEF ReadText, ReadConditional, ReadError, ReadInclude, Reading
  <2> QED BY <2>1, <2>2, OwnFields, Zenon DEF MacrosAfter
<1> QED BY <1>1, <1>2, <1>3, <1>4, Zenon DEF ReadLine, ReadDefine

LEMMA PlaceOfLine ==
  ASSUME ReadLine
  PROVE  active' = ActiveAfter(Own, Line) /\ included' = IncludedAfter(Own, Line)
<1>0. ActiveAfter(Own, Line) =
        IF Entering(Own, Line)
        THEN Append(NextLine, Opened(PathOf(Own, Line))) ELSE NextLine
  BY OwnFields, Zenon DEF ActiveAfter, NextLine
<1>00. IncludedAfter(Own, Line) = IF Entering(Own, Line)
                                  THEN included \union {PathOf(Own, Line)} ELSE included
  BY OwnFields, Zenon DEF IncludedAfter
<1>1. CASE ReadText \/ ReadConditional \/ ReadDefine \/ ReadUndef \/ ReadError
  <2>1. active' = NextLine /\ UNCHANGED included
    BY <1>1, Zenon
    DEF ReadText, ReadConditional, ReadDefine, ReadUndef, ReadError, LineDone, fileVars
  <2>2. Line.op \notin {"include", "using"}
    BY <1>1 DEF ReadText, ReadConditional, ReadDefine, ReadUndef, ReadError, Reading
  <2> QED BY <1>0, <1>00, <2>1, <2>2, Zenon DEF Entering, Wanted
<1>2. CASE ReadInclude
  <2> DEFINE path == PathOf(Own, Line)
  <2>1. Line.op \in {"include", "using"} /\ Include(path)
    BY <1>2, IncludeOfLine
  <2>2. Entering(Own, Line) <=> path \notin included /\ Exists(path) /\ Lines(path) # << >>
    BY <2>1, OwnFields, Zenon DEF Entering, Wanted
  <2> HIDE DEF path
  <2>3. CASE path \notin included /\ Exists(path) /\ Lines(path) # << >>
    <3>1. active' = Append(NextLine, Opened(path)) /\ included' = included \union {path}
      BY <2>1, <2>3, Zenon DEF Include, Opened
    <3> QED BY <1>0, <1>00, <2>2, <2>3, <3>1, Zenon DEF path
  <2>4. CASE ~(path \notin included /\ Exists(path) /\ Lines(path) # << >>)
    <3>1. active' = NextLine /\ UNCHANGED included
      BY <2>1, <2>4, Zenon DEF Include, LineDone
    <3> QED BY <1>0, <1>00, <2>2, <2>4, <3>1, Zenon
  <2> QED BY <2>3, <2>4, Zenon
<1> QED BY <1>1, <1>2, Zenon DEF ReadLine

LEMMA OutputOfLine ==
  ASSUME ReadLine
  PROVE  output' = OutputAfter(Own, Line)
<1>1. CASE ReadText
  <2>1. Live(stack) = ShouldOutput
    BY Zenon DEF Live, ShouldOutput, Top
  <2> QED BY <1>1, <2>1, OwnFields, Zenon DEF ReadText, Reading, OutputAfter
<1>2. CASE ReadConditional \/ ReadDefine \/ ReadUndef \/ ReadError \/ ReadInclude
  <2>1. UNCHANGED output
    BY <1>2, Zenon
    DEF ReadConditional, ReadDefine, ReadUndef, ReadError, ReadInclude, fileVars
  <2>2. Line.op # "text"
    BY <1>2 DEF ReadConditional, ReadDefine, ReadUndef, ReadError, ReadInclude, Reading
  <2> QED BY <2>1, <2>2, OwnFields, Zenon DEF OutputAfter
<1> QED BY <1>1, <1>2, Zenon DEF ReadLine

(* The last step of a unit. *)
Stops(s) == Len(s.active) = 1 /\ Read(s)

LEMMA OwnRead ==
  ASSUME active # << >>
  PROVE  /\ Read(Own) <=> AtEnd
         /\ ~AtEnd => LinesOf(Own)[Own.active[Len(Own.active)].next] = Line
         /\ Stops(Own) <=> Len(active) = 1 /\ AtEnd
<1>1. Read(Own) <=> AtEnd
  BY OwnFields, Zenon DEF Read, LinesOf, AtEnd, Current
<1>2. LinesOf(Own)[Own.active[Len(Own.active)].next] = Line
  BY OwnFields, Zenon DEF LinesOf, Line, Current
<1> QED BY <1>1, <1>2, OwnFields, Zenon DEF Stops

(* Every step within a unit is the one the unit calls for. *)
LEMMA OwnNext ==
  ASSUME AllocMayFail = FALSE, active # << >>,
         (ReadLine /\ ~AtEnd) \/ Return
  PROVE  Own' = After(Own) /\ ~Stops(Own)
<1>1. CASE ReadLine /\ ~AtEnd
  <2>1. Own' = AfterLine(Own, Line)
    BY <1>1, StackOfLine, CapacityOfLine, ErrorsOfLine, MacrosOfLine, PlaceOfLine,
       OutputOfLine, Zenon
    DEF Own, AfterLine
  <2> QED BY <1>1, <2>1, OwnRead, Zenon DEF After
<1>2. CASE Return
  <2>1. Own' = [Own EXCEPT !.active = Front(active)]
    <3>1. /\ active' = Front(active)
          /\ UNCHANGED <<stack, capacity, errors, macros, included, output>>
      BY <1>2, Zenon DEF Return, condVars, fileVars
    <3> QED BY <3>1 DEF Own
  <2>2. Read(Own) /\ ~Stops(Own)
    <3>1. AtEnd /\ Len(active) > 1
      BY <1>2, Zenon DEF Return
    <3>2. Len(active) # 1
      BY <3>1
    <3> QED BY <3>1, <3>2, OwnRead, Zenon
  <2> QED BY <2>1, <2>2, OwnFields, Zenon DEF After
<1> QED BY <1>1, <1>2

(* What a unit calls for is read off the files, which do not change. *)
LEMMA SameFiles ==
  ASSUME UNCHANGED files, NEW CONSTANT s
  PROVE  After(s)' = After(s) /\ Stops(s)' = Stops(s)
<1>1. LinesOf(s)' = LinesOf(s) /\ Read(s)' = Read(s)
  BY Zenon DEF Read, LinesOf, Lines
<1>2. \A line : PathOf(s, line)' = PathOf(s, line)
  BY DEF PathOf, LibraryPath, SelectInSeq, Exists
<1>3. \A line : /\ Missing(s, line)' = Missing(s, line)
                /\ Entering(s, line)' = Entering(s, line)
                /\ PathOf(s, line)' = PathOf(s, line)
  BY <1>2, Zenon DEF Missing, Entering, Wanted, Exists, Lines
<1>4. \A line : AfterLine(s, line)' = AfterLine(s, line)
  <2> SUFFICES ASSUME NEW CONSTANT line PROVE AfterLine(s, line)' = AfterLine(s, line)
    OBVIOUS
  <2>1. /\ ErrorsAfter(s, line)' = ErrorsAfter(s, line)
        /\ ActiveAfter(s, line)' = ActiveAfter(s, line)
        /\ IncludedAfter(s, line)' = IncludedAfter(s, line)
    BY <1>3, Zenon DEF ErrorsAfter, OtherErrors, ActiveAfter, IncludedAfter
  <2> QED BY <2>1, Zenon DEF AfterLine
<1> QED BY <1>1, <1>4, Zenon DEF After, Stops

(* r[0], r[1] ... r[n] are what a unit goes through, up to its n-th step.  *)
Run(path, r, n) ==
  /\ r[0] = Fresh(path)
  /\ \A k \in 0 .. n - 1 : ~Stops(r[k]) /\ r[k + 1] = After(r[k])

ResultOf(s) == [output |-> s.output, errors |-> s.errors]

(* How far the unit at hand is, and what the ones before it have come to. *)
Midway(path) == \E n, r : n \in Nat /\ Run(path, r, n) /\ r[n] = Own

Comes(path, result) ==
  \E n, r : n \in Nat /\ Run(path, r, n) /\ Stops(r[n])
              /\ result = ResultOf(r[n])

(* Nothing of a unit is left for the next. *)
RunInv ==
  /\ \E S : results \in Seq(S)
  /\ Len(results) = unit - 1
  /\ active = << >> => included = {}
  /\ active # << >> => Midway(units[unit])
  /\ \A i \in 1 .. unit - 1 : Comes(units[i], results[i])

LEMMA SameRuns ==
  ASSUME UNCHANGED files
  PROVE  \A path, r, n : /\ Run(path, r, n)' = Run(path, r, n)
                        /\ Stops(r[n])' = Stops(r[n])
<1> SUFFICES ASSUME NEW CONSTANT path, NEW CONSTANT r, NEW CONSTANT n
             PROVE  Run(path, r, n)' = Run(path, r, n) /\ Stops(r[n])' = Stops(r[n])
  OBVIOUS
<1>1. \A k : After(r[k])' = After(r[k]) /\ Stops(r[k])' = Stops(r[k])
  BY SameFiles
<1> QED BY <1>1, Zenon DEF Run

LEMMA SameComes ==
  ASSUME UNCHANGED files
  PROVE  \A path, result : Comes(path, result)' = Comes(path, result)
BY SameRuns, Zenon DEF Comes

(* A run is determined by the unit, and so is where it stops. *)
LEMMA RunsAgree ==
  ASSUME NEW path, NEW n \in Nat, NEW r, NEW m \in Nat, NEW q,
         Run(path, r, n), Run(path, q, m)
  PROVE  \A k \in Nat : k <= n /\ k <= m => r[k] = q[k]
<1> DEFINE apart == {k \in Nat : k <= n /\ k <= m /\ r[k] # q[k]}
<1>1. SUFFICES ASSUME apart # {} PROVE FALSE
  OBVIOUS
<1>2. PICK k \in apart : \A j \in apart : ~ (<<j, k>> \in OpToRel(<, Nat))
  BY <1>1, NatLessThanWellFounded, WFMin
<1>3. k \in Nat /\ k <= n /\ k <= m /\ r[k] # q[k]
  BY <1>2
<1>4. \A j \in Nat : j < k => r[j] = q[j]
  <2> SUFFICES ASSUME NEW j \in Nat, j < k, r[j] # q[j] PROVE FALSE
    OBVIOUS
  <2>1. j \in apart
    BY <1>3
  <2>2. <<j, k>> \in OpToRel(<, Nat)
    BY <1>3 DEF OpToRel
  <2> QED BY <1>2, <2>1, <2>2, Zenon
<1>5. k # 0
  BY <1>3 DEF Run
<1>6. /\ k - 1 \in Nat /\ k - 1 < k /\ (k - 1) + 1 = k
      /\ k - 1 \in 0 .. n - 1 /\ k - 1 \in 0 .. m - 1
  BY <1>3, <1>5
<1>7. r[k - 1] = q[k - 1]
  BY <1>4, <1>6
<1>8. r[k] = After(r[k - 1]) /\ q[k] = After(q[k - 1])
  BY <1>6, Zenon DEF Run
<1> QED BY <1>3, <1>7, <1>8, Zenon

LEMMA RunsStopTogether ==
  ASSUME NEW path, NEW n \in Nat, NEW r, NEW m \in Nat, NEW q,
         Run(path, r, n), Run(path, q, m), Stops(r[n]), Stops(q[m])
  PROVE  r[n] = q[m]
<1>1. \A k \in Nat : k <= n /\ k <= m => r[k] = q[k]
  BY RunsAgree
<1>2. ~(n < m)
  <2> SUFFICES ASSUME n < m PROVE FALSE
    OBVIOUS
  <2>1. n \in 0 .. m - 1 /\ n <= n /\ n <= m
    OBVIOUS
  <2>2. ~Stops(q[n])
    BY <2>1, Zenon DEF Run
  <2> QED BY <1>1, <2>1, <2>2, Zenon
<1>3. ~(m < n)
  <2> SUFFICES ASSUME m < n PROVE FALSE
    OBVIOUS
  <2>1. m \in 0 .. n - 1 /\ m <= m /\ m <= n
    OBVIOUS
  <2>2. ~Stops(r[m])
    BY <2>1, Zenon DEF Run
  <2> QED BY <1>1, <2>1, <2>2, Zenon
<1>4. n = m /\ n <= n
  BY <1>2, <1>3
<1> QED BY <1>1, <1>4, Zenon

LEMMA RunPrefix ==
  ASSUME NEW path, NEW n \in Nat, NEW r, Run(path, r, n), ~Stops(r[n])
  PROVE  \E q : Run(path, q, n + 1) /\ q[n + 1] = After(r[n])
<1> DEFINE q == [k \in 0 .. n + 1 |-> IF k = n + 1 THEN After(r[n]) ELSE r[k]]
<1>1. q[n + 1] = After(r[n]) /\ \A k \in 0 .. n : q[k] = r[k]
  OBVIOUS
<1>2. q[0] = Fresh(path)
  BY <1>1 DEF Run
<1> HIDE DEF q
<1>3. ASSUME NEW k \in 0 .. (n + 1) - 1
      PROVE  ~Stops(q[k]) /\ q[k + 1] = After(q[k])
  <2>1. CASE k = n
    <3>1. q[k] = r[n] /\ q[k + 1] = After(r[n])
      BY <1>1, <2>1
    <3> QED BY <3>1, Zenon
  <2>2. CASE k # n
    <3>1. k \in 0 .. n - 1 /\ k \in 0 .. n /\ k + 1 \in 0 .. n
      BY <1>3, <2>2
    <3>2. q[k] = r[k] /\ q[k + 1] = r[k + 1]
      BY <1>1, <3>1
    <3>3. ~Stops(r[k]) /\ r[k + 1] = After(r[k])
      BY <3>1, Zenon DEF Run
    <3> QED BY <3>2, <3>3, Zenon
  <2> QED BY <2>1, <2>2
<1>4. Run(path, q, n + 1)
  BY <1>2, <1>3, Zenon DEF Run
<1> QED BY <1>1, <1>4

LEMMA RunInitial == Init => RunInv
<1> SUFFICES ASSUME Init PROVE RunInv
  OBVIOUS
<1>1. results = << >> /\ unit = 1 /\ included = {} /\ active = << >>
  BY DEF Init
<1>2. results \in Seq({}) /\ Len(results) = unit - 1 /\ 1 .. unit - 1 = {}
  BY <1>1
<1> QED BY <1>1, <1>2, Zenon DEF RunInv

(* A path under the name the state has for it. *)
LEMMA NamedMidway ==
  ASSUME NEW CONSTANT path, (path = units[unit])', Midway(path)'
  PROVE  Midway(units[unit])'
BY Zenon DEF Midway, Run, Fresh, Opened

LEMMA NamedComes ==
  ASSUME NEW CONSTANT path, NEW CONSTANT result, NEW CONSTANT i,
         (path = units[i] /\ result = results[i])', Comes(path, result)'
  PROVE  Comes(units[i], results[i])'
BY Zenon DEF Comes, Run, Fresh, Opened

LEMMA SameMidway ==
  ASSUME UNCHANGED <<files, units, unit>>, NEW n \in Nat, NEW r,
         Run(units[unit], r, n), r[n] = Own'
  PROVE  Midway(units[unit])'
<1> SUFFICES ASSUME NEW CONSTANT path, path = units[unit]
             PROVE  Midway(path)'
  BY NamedMidway
<1>1. Run(path, r, n)
  BY Zenon
<1>2. Run(path, r, n)'
  BY <1>1, SameRuns, Zenon
<1> QED BY <1>2, Zenon DEF Midway

(* Where a step gets the unit at hand. *)
LEMMA MidwayStarted ==
  ASSUME StartUnit, included = {}
  PROVE  Midway(units[unit])'
<1> DEFINE path == units[unit]
           r == [k \in {0} |-> Fresh(path)]
<1>1. Own' = Fresh(path)
  BY Zenon DEF StartUnit, Own, Fresh, Opened
<1>2. r[0] = Fresh(path)
  OBVIOUS
<1> HIDE DEF r
<1>3. \A k \in 0 .. 0 - 1 : ~Stops(r[k]) /\ r[k + 1] = After(r[k])
  OBVIOUS
<1>4. Run(units[unit], r, 0)
  BY <1>2, <1>3, Zenon DEF Run
<1>5. UNCHANGED <<files, units, unit>>
  BY Zenon DEF StartUnit
<1> QED BY <1>1, <1>2, <1>4, <1>5, SameMidway

LEMMA MidwayNext ==
  ASSUME AllocMayFail = FALSE, active # << >>, UNCHANGED <<files, units, unit>>,
         (ReadLine /\ ~AtEnd) \/ Return, Midway(units[unit])
  PROVE  Midway(units[unit])'
<1>1. PICK n, r : n \in Nat /\ Run(units[unit], r, n) /\ r[n] = Own
  BY DEF Midway
<1>2. Own' = After(r[n]) /\ ~Stops(r[n])
  BY <1>1, OwnNext
<1>3. PICK q : Run(units[unit], q, n + 1) /\ q[n + 1] = After(r[n])
  BY <1>1, <1>2, RunPrefix
<1>4. n + 1 \in Nat
  BY <1>1
<1> QED BY <1>2, <1>3, <1>4, SameMidway, Zenon

LEMMA MidwayResting ==
  ASSUME UNCHANGED vars, Midway(units[unit])
  PROVE  Midway(units[unit])'
<1>1. PICK n, r : n \in Nat /\ Run(units[unit], r, n) /\ r[n] = Own
  BY DEF Midway
<1>2. Own' = Own /\ UNCHANGED <<files, units, unit>>
  BY Zenon DEF vars, condVars, fileVars, Own
<1> QED BY <1>1, <1>2, SameMidway, Zenon

LEMMA ComesPreserved ==
  ASSUME UNCHANGED <<files, units>>, NEW CONSTANT i,
         UNCHANGED (results[i]), Comes(units[i], results[i])
  PROVE  Comes(units[i], results[i])'
<1> SUFFICES ASSUME NEW CONSTANT path, path = units[i],
                    NEW CONSTANT result, result = results[i]
             PROVE  Comes(path, result)'
  BY NamedComes
<1>1. Comes(path, result)
  BY Zenon
<1> QED BY <1>1, SameComes, Zenon

LEMMA ComesFinished ==
  ASSUME FinishUnit, Midway(units[unit]),
         NEW CONSTANT i, i = unit, results'[i] = [output |-> output, errors |-> errors]
  PROVE  Comes(units[i], results[i])'
<1> SUFFICES ASSUME NEW CONSTANT path, path = units[i],
                    NEW CONSTANT result, result = results'[i]
             PROVE  Comes(path, result)'
  <2>1. UNCHANGED units
    BY Zenon DEF FinishUnit
  <2> QED BY <2>1, NamedComes
<1>1. PICK n, r : n \in Nat /\ Run(units[unit], r, n) /\ r[n] = Own
  BY DEF Midway
<1>2. Stops(Own)
  <2>1. Len(active) = 1 /\ AtEnd
    BY Zenon DEF FinishUnit
  <2> QED BY <2>1, OwnRead DEF ReadingInv, ActiveOK
<1>3. result = ResultOf(Own)
  BY OwnFields, Zenon DEF ResultOf
<1>4. Comes(path, result)
  <2>1. n \in Nat /\ Run(path, r, n) /\ Stops(r[n]) /\ result = ResultOf(r[n])
    BY <1>1, <1>2, <1>3, Zenon
  <2> QED BY <2>1, Zenon DEF Comes
<1>5. UNCHANGED files
  BY Zenon DEF FinishUnit
<1> QED BY <1>4, <1>5, SameComes, Zenon

LEMMA RunPreserved ==
  ASSUME AllocMayFail = FALSE, ReadingInv, RunInv, [Next]_vars
  PROVE  RunInv'
<1>0. UNCHANGED <<files, units>> /\ unit \in Nat \ {0}
  BY ReadingMoves DEF ReadingInv
<1>1. PICK S : results \in Seq(S)
  BY DEF RunInv
<1>2. CASE FinishUnit
  <2> DEFINE result == [output |-> output, errors |-> errors]
  <2>1. /\ results' = Append(results, result) /\ unit' = unit + 1
        /\ active' = << >> /\ included' = {} /\ active # << >>
    <3>1. Len(active) = 1
      BY <1>2, Zenon DEF FinishUnit
    <3>2. active # << >>
      BY <3>1
    <3> QED BY <1>2, <3>2, Zenon DEF FinishUnit
  <2>2. Len(results) = unit - 1
    BY DEF RunInv
  <2> HIDE DEF result
  <2>3. results \in Seq(S \union {result}) /\ result \in S \union {result}
    BY <1>1
  <2>4. /\ results' \in Seq(S \union {result})
        /\ Len(results') = unit' - 1
        /\ results'[unit] = result
        /\ \A i \in 1 .. unit - 1 : results'[i] = results[i]
    BY <1>0, <2>1, <2>2, <2>3
  <2>5. \A i \in 1 .. unit - 1 : Comes(units[i], results[i])'
    BY <1>0, <2>4, ComesPreserved DEF RunInv
  <2>6. \A i : i = unit => Comes(units[i], results[i])'
    BY <1>2, <2>1, <2>4, ComesFinished DEF RunInv, result
  <2>7. \A i \in 1 .. unit' - 1 : i \in 1 .. unit - 1 \/ i = unit
    BY <1>0, <2>1
  <2> QED BY <2>1, <2>4, <2>5, <2>6, <2>7, Zenon DEF RunInv
<1>3. CASE ~FinishUnit
  <2>1. UNCHANGED <<unit, results>>
    BY <1>3, Zenon
    DEF Next, Step, StartUnit, ReadText, ReadConditional, ReadDefine, ReadUndef, ReadError,
        ReadInclude, Return, Finished, vars, fileVars
  <2>2. \A i \in 1 .. unit - 1 : Comes(units[i], results[i])'
    BY <1>0, <2>1, ComesPreserved, Zenon DEF RunInv
  <2>3. active' = << >> => included' = {}
    <3>1. \/ Starts \/ Advances \/ Descends \/ Ascends \/ Rests
      BY <1>3, ReadingMoves, Zenon
    <3>2. Starts \/ Rests => active = << >> \/ active' = active
      BY Zenon DEF Starts, Rests
    <3>3. Starts \/ Rests => UNCHANGED included
      BY Zenon DEF Starts, Rests
    <3>4. Starts \/ Advances \/ Descends \/ Ascends => active' # << >>
      <4>1. Starts => active' # << >>
        BY DEF Starts
      <4>2. Advances => active' # << >>
        BY NextLineShape DEF Advances
      <4>3. Descends => active' # << >>
        BY DescendedShape DEF Descends
      <4>4. Ascends => active' # << >>
        BY AscendedShape DEF Ascends
      <4> QED BY <4>1, <4>2, <4>3, <4>4
    <3> QED BY <3>1, <3>2, <3>3, <3>4, Zenon DEF RunInv
  <2>4. active' # << >> => Midway(units[unit])'
    <3>1. CASE StartUnit
      <4>1. included = {}
        BY <3>1, Zenon DEF StartUnit, RunInv
      <4> QED BY <3>1, <4>1, MidwayStarted
    <3>2. CASE ReadLine \/ Return
      <4>1. active # << >> /\ ((ReadLine /\ ~AtEnd) \/ Return)
        <5>1. CASE Return
          BY <5>1 DEF Return
        <5>2. CASE ReadLine
          BY <5>2, Zenon
          DEF ReadLine, ReadText, ReadConditional, ReadDefine, ReadUndef, ReadError,
              ReadInclude, Reading
        <5> QED BY <3>2, <5>1, <5>2
      <4> QED BY <1>0, <2>1, <4>1, MidwayNext, Zenon DEF RunInv
    <3>3. CASE UNCHANGED vars
      <4>1. UNCHANGED active
        BY <3>3, Zenon DEF vars
      <4> QED BY <3>3, <4>1, MidwayResting, Zenon DEF RunInv
    <3> QED BY <1>3, <3>1, <3>2, <3>3, Zenon DEF Next, Step, Finished, ReadLine
  <2>5. \E T : results' \in Seq(T)
    BY <1>1, <2>1, Zenon
  <2>6. Len(results') = unit' - 1
    BY <2>1, Zenon DEF RunInv
  <2>7. \A i \in 1 .. unit' - 1 : Comes(units[i], results[i])'
    BY <2>1, <2>2, Zenon
  <2> QED BY <2>3, <2>4, <2>5, <2>6, <2>7, Zenon DEF RunInv
<1> QED BY <1>2, <1>3

(* However the units before it have ended, with groups left open, macros   *)
(* left defined or files registered, a unit preprocesses to what it makes  *)
(* by itself: preprocess begins each with a state of its own, and leaves   *)
(* no file registered.  Of two units of the same path, whatever the files  *)
(* and the builtin macros, one comes to what the other does.  Memory that  *)
(* gives out for one of them and not for the other would part them.        *)
THEOREM Independent ==
  ASSUME AllocMayFail = FALSE
  PROVE  Spec => []UnitsIndependent
<1>1. RunInv /\ ReadingInv /\ [Next]_vars => RunInv'
  BY RunPreserved
<1>2. RunInv /\ ReadingInv => UnitsIndependent
  <2> SUFFICES ASSUME RunInv, ReadingInv,
                      NEW i \in DOMAIN results, NEW j \in DOMAIN results,
                      units[i] = units[j]
               PROVE  results[i] = results[j]
    BY Zenon DEF UnitsIndependent
  <2>1. DOMAIN results = 1 .. unit - 1
    BY DEF RunInv
  <2>2. PICK n, r :
          n \in Nat /\ Run(units[i], r, n) /\ Stops(r[n])
            /\ results[i] = ResultOf(r[n])
    BY <2>1, Zenon DEF RunInv, Comes
  <2>3. PICK m, q :
          m \in Nat /\ Run(units[i], q, m) /\ Stops(q[m])
            /\ results[j] = ResultOf(q[m])
    BY <2>1, Zenon DEF RunInv, Comes
  <2>4. r[n] = q[m]
    BY <2>2, <2>3, RunsStopTogether
  <2> QED BY <2>2, <2>3, <2>4, Zenon
<1> QED BY <1>1, <1>2, RunInitial, AlwaysReading, PTL DEF Spec

-----------------------------------------------------------------------------
(* Where the expansion of a definition stops *)

TableOK(table) ==
  /\ DOMAIN table \subseteq Names /\ IsFiniteSet(DOMAIN table)
  /\ \A m \in DOMAIN table : table[m] \in Macro

(* What expand_macros_in_text makes of a text, with the names on the       *)
(* expanding stack: Expansion begins with the name being defined.          *)
Expands(table, expand) ==
  /\ expand \in [SUBSET Names -> [Seq(Tokens) -> Seq(Tokens)]]
  /\ \A stacked \in SUBSET Names : \A t \in Seq(Tokens) :
       expand[stacked][t] =
         IF /\ t # << >> /\ IsObjectLike(table, Last(t)) /\ Last(t) \notin stacked
            /\ Cardinality(stacked) < MaxExpansionDepth
         THEN Front(t) \o expand[stacked \union {Last(t)}][table[Last(t)].body]
         ELSE t

IsExpansion(table, expand) ==
  \A name : \A text : Expansion(table, name, text) = expand[{name}][text]

LEMMA EndOfText ==
  ASSUME NEW S, NEW t \in Seq(S), t # << >>
  PROVE  /\ Last(t) \in S /\ Last(t) \in ToSet(t) /\ Front(t) \in Seq(S)
         /\ \A q \in Seq(S) : /\ Front(t) \o q \in Seq(S)
                              /\ q # << >> => Front(t) \o q # << >> /\ Last(Front(t) \o q) = Last(q)
<1>1. Len(t) \in Nat \ {0} /\ DOMAIN t = 1 .. Len(t)
  BY EmptySeq
<1>2. Last(t) \in S /\ Last(t) \in ToSet(t)
  BY <1>1 DEF Last, ToSet
<1>3. Front(t) \in Seq(S)
  BY <1>1 DEF Front
<1>4. ASSUME NEW q \in Seq(S)
      PROVE  /\ Front(t) \o q \in Seq(S)
             /\ q # << >> => Front(t) \o q # << >> /\ Last(Front(t) \o q) = Last(q)
  <2> DEFINE p == Front(t)
  <2>1. p \in Seq(S)
    BY <1>3
  <2> HIDE DEF p
  <2>2. /\ p \o q \in Seq(S) /\ Len(p \o q) = Len(p) + Len(q) /\ Len(p) \in Nat /\ Len(q) \in Nat
        /\ \A k \in 1 .. Len(q) : (p \o q)[Len(p) + k] = q[k]
    BY <2>1
  <2>3. ASSUME q # << >>
        PROVE  p \o q # << >> /\ Last(p \o q) = Last(q)
    <3>1. Len(q) # 0
      BY <2>3, EmptySeq
    <3>2. Len(p \o q) # 0 /\ Len(q) \in 1 .. Len(q)
      BY <2>2, <3>1
    <3>3. p \o q # << >>
      BY <2>2, <3>2, EmptySeq
    <3>4. (p \o q)[Len(p \o q)] = q[Len(q)]
      BY <2>2, <3>2
    <3> QED BY <3>3, <3>4 DEF Last
  <2> QED BY <2>2, <2>3 DEF p
<1> QED BY <1>2, <1>3, <1>4

LEMMA ExpansionExists ==
  ASSUME NEW table, TableOK(table)
  PROVE  \E expand : Expands(table, expand) /\ IsExpansion(table, expand)
<1> DEFINE D == SUBSET Names
           T == Seq(Tokens)
           V == [T -> T]
           goes(S, t) == /\ t # << >> /\ IsObjectLike(table, Last(t)) /\ Last(t) \notin S
                         /\ Cardinality(S) < MaxExpansionDepth
           Value(S, f) ==
             [t \in Seq(Tokens) |->
                IF /\ t # << >> /\ IsObjectLike(table, Last(t)) /\ Last(t) \notin S
                   /\ Cardinality(S) < MaxExpansionDepth
                THEN Front(t) \o f[S \union {Last(t)}][table[Last(t)].body]
                ELSE t]
           From(f) == [S \in SUBSET Names |-> Value(S, f)]
           chosen == CHOOSE f : f = From(f)
           H == [S \in D |-> [f \in [D -> V] |-> Value(S, f)]]
           rank == [S \in D |-> Cardinality(DOMAIN table \ S)]
<1>1. IsExpansion(table, chosen)
  BY Zenon DEF IsExpansion, Expansion
<1>2. ASSUME NEW S \in D, NEW t \in T, goes(S, t)
      PROVE  /\ Last(t) \in DOMAIN table /\ Last(t) \notin S
             /\ S \union {Last(t)} \in D /\ table[Last(t)].body \in T
  BY <1>2 DEF TableOK, IsObjectLike, Macro
<1>3. ASSUME NEW S \in D, NEW f \in [D -> V]
      PROVE  Value(S, f) \in V
  <2>1. ASSUME NEW t \in T, goes(S, t)
        PROVE  Front(t) \o f[S \union {Last(t)}][table[Last(t)].body] \in T
    <3>1. f[S \union {Last(t)}] \in V
      BY <1>2, <2>1, Zenon
    <3>2. f[S \union {Last(t)}][table[Last(t)].body] \in T
      BY <1>2, <2>1, <3>1, Zenon
    <3> QED BY <2>1, <3>2, EndOfText
  <2> QED BY <2>1, Zenon
<1>4. ASSUME NEW S \in D, NEW f, NEW g,
             \A R \in D : rank[R] < rank[S] => f[R] = g[R]
      PROVE  Value(S, f) = Value(S, g)
  <2>1. ASSUME NEW t \in T, goes(S, t)
        PROVE  f[S \union {Last(t)}] = g[S \union {Last(t)}]
    <3>1. /\ Last(t) \in DOMAIN table /\ Last(t) \notin S /\ S \union {Last(t)} \in D
      BY <1>2, <2>1
    <3>2. rank[S \union {Last(t)}] < rank[S]
      <4> DEFINE rest == DOMAIN table \ S
      <4>1. IsFiniteSet(rest)
        BY FS_Difference DEF TableOK
      <4>2. Cardinality(rest \ {Last(t)}) = Cardinality(rest) - 1 /\ Cardinality(rest) \in Nat
        BY <3>1, <4>1, FS_RemoveElement, FS_CardinalityType
      <4>3. DOMAIN table \ (S \union {Last(t)}) = rest \ {Last(t)}
        OBVIOUS
      <4> HIDE DEF rest
      <4>4. \A n \in Nat : n - 1 < n
        OBVIOUS
      <4>5. Cardinality(DOMAIN table \ (S \union {Last(t)})) < Cardinality(rest)
        BY <4>2, <4>3, <4>4, Zenon
      <4> QED BY <3>1, <4>5, Zenon DEF rest
    <3> QED BY <1>4, <3>1, <3>2, Zenon
  <2> QED BY <2>1, Zenon
<1>5. rank \in [D -> Nat]
  <2>1. \A S \in D : Cardinality(DOMAIN table \ S) \in Nat
    BY FS_Difference, FS_CardinalityType DEF TableOK
  <2> QED BY <2>1
<1>6. \A S \in D : \A f \in [D -> V] : H[S][f] = Value(S, f)
  BY Zenon
<1>7. H \in [D -> [[D -> V] -> V]]
  BY <1>3, Zenon
<1>8. V # {}
  <2>1. [t \in T |-> t] \in V
    BY Zenon
  <2> QED BY <2>1
<1>9. \A S, f : \A t \in T :
        Value(S, f)[t] = IF /\ t # << >> /\ IsObjectLike(table, Last(t)) /\ Last(t) \notin S
                            /\ Cardinality(S) < MaxExpansionDepth
                         THEN Front(t) \o f[S \union {Last(t)}][table[Last(t)].body]
                         ELSE t
  BY Zenon
<1> HIDE DEF H, Value, rank, V
<1>10. DependsBelow(D, V, rank, H)
  <2>1. ASSUME NEW S \in D, NEW f \in [D -> V], NEW g \in [D -> V],
               \A R \in D : rank[R] < rank[S] => f[R] = g[R]
        PROVE  H[S][f] = H[S][g]
    <3>1. Value(S, f) = Value(S, g)
      BY <1>4, <2>1, Zenon
    <3> QED BY <1>6, <3>1, Zenon
  <2> QED BY <1>5, <1>7, <2>1, Zenon DEF DependsBelow
<1>11. PICK f \in [D -> V] : f = [S \in D |-> H[S][f]]
  BY <1>8, <1>10, SolutionExists
<1>12. f = From(f)
  <2>1. \A S \in D : H[S][f] = Value(S, f)
    BY <1>6, <1>11, Zenon
  <2> QED BY <1>11, <2>1, Zenon
<1>13. chosen = From(chosen)
  <2> HIDE DEF From
  <2> QED BY <1>12, Zenon
<1>14. \A S \in D : f[S] \in V /\ f[S] = Value(S, f)
  BY <1>6, <1>11, Zenon
<1> HIDE DEF chosen
<1>15. \A S \in D : chosen[S] = Value(S, chosen)
  BY <1>13, Zenon
<1> DEFINE bad == {S \in D : chosen[S] # f[S]}
           ranks == {rank[S] : S \in bad}
<1> HIDE DEF D
<1>16. bad = {}
  <2> SUFFICES ASSUME bad # {} PROVE FALSE
    OBVIOUS
  <2>1. ranks \subseteq Nat /\ ranks # {}
    BY <1>5
  <2>2. PICK r \in ranks : \A s \in ranks : r <= s
    <3> HIDE DEF ranks
    <3> QED BY <2>1, LeastNumber
  <2>3. PICK S \in bad : r = rank[S]
    BY <2>2
  <2>4. \A R \in D : rank[R] < rank[S] => chosen[R] = f[R]
    <3> TAKE R \in D
    <3>1. rank[R] \in Nat /\ rank[S] \in Nat
      BY <1>5, <2>3
    <3>2. rank[R] < rank[S] => ~(rank[S] <= rank[R])
      BY <3>1
    <3> QED BY <2>2, <2>3, <3>2, Zenon
  <2>5. S \in D
    BY <2>3
  <2>6. Value(S, chosen) = Value(S, f)
    BY <1>4, <2>4, <2>5, Zenon
  <2> QED BY <1>14, <1>15, <2>3, <2>5, <2>6, Zenon
<1>17. \A S \in D : chosen[S] \in V
  BY <1>14, <1>16
<1>18. chosen \in [D -> V]
  BY <1>13, <1>15, <1>17, Zenon DEF D
<1>19. Expands(table, chosen)
  <2>1. chosen \in [SUBSET Names -> [Seq(Tokens) -> Seq(Tokens)]]
    BY <1>18, Zenon DEF D, V
  <2>2. ASSUME NEW S \in SUBSET Names, NEW t \in Seq(Tokens)
        PROVE  chosen[S][t] =
                 IF /\ t # << >> /\ IsObjectLike(table, Last(t)) /\ Last(t) \notin S
                    /\ Cardinality(S) < MaxExpansionDepth
                 THEN Front(t) \o chosen[S \union {Last(t)}][table[Last(t)].body]
                 ELSE t
    <3>1. chosen[S] = Value(S, chosen)
      BY <1>15, Zenon DEF D
    <3>2. t \in T
      OBVIOUS
    <3> HIDE DEF T
    <3>3. Value(S, chosen)[t] =
            IF /\ t # << >> /\ IsObjectLike(table, Last(t)) /\ Last(t) \notin S
               /\ Cardinality(S) < MaxExpansionDepth
            THEN Front(t) \o chosen[S \union {Last(t)}][table[Last(t)].body]
            ELSE t
      BY <1>9, <3>2, Zenon
    <3> QED BY <3>1, <3>3, Zenon
  <2> QED BY <2>1, <2>2, Zenon DEF Expands
<1> QED BY <1>1, <1>19, Zenon

(* The tokens within n macros of a token, which LeadsTo follows as far as  *)
(* there are macros.                                                       *)
Follows(token, within) ==
  /\ within \in [Nat -> SUBSET Tokens]
  /\ within[0] = Mentions(token)
  /\ \A n \in Nat : within[n + 1] = within[n] \union UNION {Mentions(t) : t \in within[n]}

LEMMA MentionsTokens ==
  ASSUME TableOK(macros), NEW token
  PROVE  Mentions(token) \subseteq Tokens
<1>1. CASE IsObjectLike(macros, token)
  <2>1. macros[token].body \in Seq(Tokens)
    BY <1>1 DEF TableOK, IsObjectLike, Macro
  <2>2. ToSet(macros[token].body) \subseteq Tokens
    BY <2>1 DEF ToSet
  <2> QED BY <1>1, <2>2, Zenon DEF Mentions
<1>2. CASE ~IsObjectLike(macros, token)
  BY <1>2, Zenon DEF Mentions
<1> QED BY <1>1, <1>2

LEMMA LeadsFollows ==
  ASSUME TableOK(macros), NEW token
  PROVE  \E within : Follows(token, within) /\ LeadsTo(token) = within[Cardinality(DOMAIN macros)]
<1> DEFINE V == SUBSET Tokens
           more(w) == w \union UNION {Mentions(t) : t \in w}
           Value(n, f) == IF n = 0 THEN Mentions(token)
                          ELSE f[n - 1] \union UNION {Mentions(t) : t \in f[n - 1]}
           From(f) == [n \in Nat |-> Value(n, f)]
           chosen == CHOOSE f : f = From(f)
           H == [n \in Nat |-> [f \in [Nat -> V] |-> Value(n, f)]]
           rank == [n \in Nat |-> n]
<1>1. LeadsTo(token) = chosen[Cardinality(DOMAIN macros)]
  BY Zenon DEF LeadsTo
<1>2. \A t : Mentions(t) \in V
  BY MentionsTokens
<1>3. \A w \in V : more(w) \in V
  BY <1>2, Zenon
<1>4. ASSUME NEW n \in Nat, n # 0
      PROVE  n - 1 \in Nat /\ n - 1 < n
  BY <1>4
<1>5. ASSUME NEW n \in Nat, NEW f \in [Nat -> V]
      PROVE  Value(n, f) \in V
  <2>1. CASE n = 0
    BY <1>2, <2>1, Zenon
  <2>2. CASE n # 0
    <3>1. f[n - 1] \in V
      BY <1>4, <2>2, Zenon
    <3>2. more(f[n - 1]) \in V
      BY <1>3, <3>1, Zenon
    <3> QED BY <2>2, <3>2, Zenon
  <2> QED BY <2>1, <2>2
<1>6. ASSUME NEW n \in Nat, NEW f, NEW g, \A m \in Nat : rank[m] < rank[n] => f[m] = g[m]
      PROVE  Value(n, f) = Value(n, g)
  <2>1. CASE n = 0
    BY <2>1, Zenon
  <2>2. CASE n # 0
    <3>1. f[n - 1] = g[n - 1]
      BY <1>4, <1>6, <2>2
    <3> QED BY <2>2, <3>1, Zenon
  <2> QED BY <2>1, <2>2
<1>7. rank \in [Nat -> Nat] /\ V # {}
  BY <1>2, Zenon
<1>8. \A n \in Nat : \A f \in [Nat -> V] : H[n][f] = Value(n, f)
  BY Zenon
<1>9. H \in [Nat -> [[Nat -> V] -> V]]
  BY <1>5, Zenon
<1> HIDE DEF H, V, rank
<1>10. DependsBelow(Nat, V, rank, H)
  <2>1. ASSUME NEW n \in Nat, NEW f \in [Nat -> V], NEW g \in [Nat -> V],
               \A m \in Nat : rank[m] < rank[n] => f[m] = g[m]
        PROVE  H[n][f] = H[n][g]
    <3>1. Value(n, f) = Value(n, g)
      BY <1>6, <2>1
    <3> QED BY <1>8, <3>1, Zenon
  <2> QED BY <1>7, <1>9, <2>1, Zenon DEF DependsBelow
<1>11. PICK f \in [Nat -> V] : f = [n \in Nat |-> H[n][f]]
  BY <1>7, <1>10, SolutionExists
<1> HIDE DEF Value
<1>12. f = From(f)
  <2>1. \A n \in Nat : H[n][f] = Value(n, f)
    BY <1>8, <1>11, Zenon
  <2> QED BY <1>11, <2>1, Zenon
<1> HIDE DEF From
<1>13. chosen = From(chosen)
  BY <1>12, Zenon
<1> HIDE DEF chosen
<1>14. \A n \in Nat : chosen[n] = Value(n, chosen)
  BY <1>13, Zenon DEF From
<1>15. chosen[0] = Mentions(token)
  BY <1>14, Zenon DEF Value
<1>16. \A n \in Nat : chosen[n + 1] = more(chosen[n])
  <2> TAKE n \in Nat
  <2>1. n + 1 \in Nat /\ n + 1 # 0 /\ (n + 1) - 1 = n
    OBVIOUS
  <2> QED BY <1>14, <2>1, Zenon DEF Value
<1> DEFINE bad == {n \in Nat : chosen[n] \notin V}
<1>17. bad = {}
  <2> SUFFICES ASSUME bad # {} PROVE FALSE
    OBVIOUS
  <2>1. PICK n \in bad : \A m \in bad : n <= m
    <3>1. bad \subseteq Nat
      OBVIOUS
    <3> HIDE DEF bad
    <3> QED BY <3>1, LeastNumber
  <2>2. n \in Nat /\ chosen[n] \notin V
    BY <2>1
  <2>3. n # 0
    BY <1>2, <1>15, <2>2, Zenon
  <2>4. n - 1 \in Nat /\ ~(n <= n - 1) /\ (n - 1) + 1 = n
    BY <2>2, <2>3
  <2>5. chosen[n - 1] \in V
    BY <2>1, <2>4, Zenon
  <2>6. chosen[(n - 1) + 1] \in V
    BY <1>3, <1>16, <2>4, <2>5, Zenon
  <2> QED BY <2>2, <2>4, <2>6
<1>18. chosen \in [Nat -> V]
  <2>1. chosen = [n \in Nat |-> Value(n, chosen)]
    BY <1>13, Zenon DEF From
  <2>2. \A n \in Nat : Value(n, chosen) \in V
    BY <1>14, <1>17, Zenon
  <2> QED BY <2>1, <2>2, Zenon
<1>19. Follows(token, chosen)
  BY <1>15, <1>16, <1>18, Zenon DEF Follows, V
<1> QED BY <1>1, <1>19, Zenon

LEMMA FollowsFurther ==
  ASSUME NEW token, NEW within, Follows(token, within), NEW n \in Nat, NEW m \in Nat, n <= m
  PROVE  within[n] \subseteq within[m]
<1> DEFINE bad == {k \in Nat : n <= k /\ ~(within[n] \subseteq within[k])}
<1>1. \A k \in Nat : within[k] \subseteq within[k + 1]
  BY Zenon DEF Follows
<1>2. bad = {}
  <2> SUFFICES ASSUME bad # {} PROVE FALSE
    OBVIOUS
  <2>1. PICK k \in bad : \A j \in bad : k <= j
    <3>1. bad \subseteq Nat
      OBVIOUS
    <3> HIDE DEF bad
    <3> QED BY <3>1, LeastNumber
  <2>2. k \in Nat /\ n <= k /\ ~(within[n] \subseteq within[k])
    BY <2>1
  <2>3. k # n
    BY <2>2
  <2>4. k - 1 \in Nat /\ n <= k - 1 /\ ~(k <= k - 1) /\ (k - 1) + 1 = k
    BY <2>2, <2>3
  <2>5. within[n] \subseteq within[k - 1]
    BY <2>1, <2>4, Zenon
  <2>6. within[n] \subseteq within[(k - 1) + 1]
    BY <1>1, <2>4, <2>5, Zenon
  <2> QED BY <2>2, <2>4, <2>6
<1> QED BY <1>2

(* A chain grows by the macro at its end. *)
LEMMA ChainGrows ==
  ASSUME NEW passed, NEW l, l \notin passed, IsObjectLike(macros, l), NEW n \in Nat,
         NEW chain \in [1 .. n -> passed], IsInjective(chain), ChainTo(l, n, chain)
  PROVE  \E longer \in [1 .. n + 1 -> passed \union {l}] :
           IsInjective(longer) /\ ChainTo(Last(macros[l].body), n + 1, longer)
<1> DEFINE longer == [i \in 1 .. n + 1 |-> IF i = n + 1 THEN l ELSE chain[i]]
<1>1. /\ \A i \in 1 .. n + 1 : i = n + 1 \/ i \in 1 .. n
      /\ \A i \in 1 .. n : i \in 1 .. n + 1 /\ i # n + 1 /\ i + 1 \in 1 .. n + 1
      /\ \A i \in 1 .. n : i + 1 = n + 1 <=> i = n
  OBVIOUS
<1>2. longer \in [1 .. n + 1 -> passed \union {l}]
  BY <1>1
<1>3. IsInjective(longer)
  BY <1>1, <1>2 DEF IsInjective
<1>4. ASSUME NEW i \in 1 .. n + 1
      PROVE  /\ IsObjectLike(macros, longer[i])
             /\ Last(macros[longer[i]].body) =
                  IF i = n + 1 THEN Last(macros[l].body) ELSE longer[i + 1]
  <2>1. CASE i = n + 1
    BY <2>1, Zenon
  <2>2. CASE i \in 1 .. n
    <3>1. longer[i] = chain[i] /\ i # n + 1
      BY <1>1, <2>2
    <3>2. /\ IsObjectLike(macros, chain[i])
          /\ Last(macros[chain[i]].body) = IF i = n THEN l ELSE chain[i + 1]
      BY <2>2, Zenon DEF ChainTo
    <3>3. longer[i + 1] = IF i = n THEN l ELSE chain[i + 1]
      BY <1>1, <2>2
    <3> QED BY <3>1, <3>2, <3>3
  <2> QED BY <1>1, <2>1, <2>2, Zenon
<1>5. ChainTo(Last(macros[l].body), n + 1, longer)
  BY <1>4, Zenon DEF ChainTo
<1> QED BY <1>2, <1>3, <1>5, Zenon

(* The names passed are a chain to where the text ends, each leads there,  *)
(* and they fill the stack with the name being defined.                    *)
LEMMA ExpansionStops ==
  ASSUME TableOK(macros), NEW expand, Expands(macros, expand), NEW name \in Names,
         \A n \in DOMAIN macros : macros[n].body # << >>,
         NEW text \in Seq(Tokens), text # << >>
  PROVE  expand[{name}][text] # << >> /\ MayStay(name, Last(expand[{name}][text]))
<1> DEFINE within(p) == CHOOSE w : Follows(p, w) /\ LeadsTo(p) = w[Cardinality(DOMAIN macros)]
           Ready(stacked, passed, t) ==
             /\ t # << >> /\ stacked = passed \union {name} /\ name \notin passed
             /\ Cardinality(passed) + 1 <= MaxExpansionDepth
             /\ \E chain \in [1 .. Cardinality(passed) -> passed] :
                  IsInjective(chain) /\ ChainTo(Last(t), Cardinality(passed), chain)
             /\ \A p \in passed : Last(t) \in within(p)[Cardinality(passed) - 1]
           EndsThere(stacked, t) ==
             expand[stacked][t] # << >> /\ MayStay(name, Last(expand[stacked][t]))
           bad == {S \in SUBSET Names :
                     \E passed \in SUBSET DOMAIN macros : \E t \in Seq(Tokens) :
                       Ready(S, passed, t) /\ ~EndsThere(S, t)}
           rank(S) == Cardinality(DOMAIN macros \ S)
           ranks == {rank(S) : S \in bad}
<1>1. \A p : Follows(p, within(p)) /\ LeadsTo(p) = within(p)[Cardinality(DOMAIN macros)]
  <2> TAKE p
  <2>1. \E w : Follows(p, w) /\ LeadsTo(p) = w[Cardinality(DOMAIN macros)]
    BY LeadsFollows, Zenon
  <2> QED BY <2>1, Zenon
<1> HIDE DEF within
<1>2. DOMAIN macros \subseteq Names /\ IsFiniteSet(DOMAIN macros)
  BY DEF TableOK
<1>3. ASSUME NEW stacked \in SUBSET Names, NEW passed \in SUBSET DOMAIN macros,
             NEW t \in Seq(Tokens), Ready(stacked, passed, t),
             \A R \in SUBSET Names : rank(R) < rank(stacked) => R \notin bad
      PROVE  EndsThere(stacked, t)
  <2> DEFINE l == Last(t)
             goes == /\ IsObjectLike(macros, l) /\ l \notin stacked
                     /\ Cardinality(stacked) < MaxExpansionDepth
             n == Cardinality(passed)
  <2>1. expand[stacked][t] =
          IF /\ t # << >> /\ IsObjectLike(macros, Last(t)) /\ Last(t) \notin stacked
             /\ Cardinality(stacked) < MaxExpansionDepth
          THEN Front(t) \o expand[stacked \union {Last(t)}][macros[Last(t)].body]
          ELSE t
    BY Zenon DEF Expands
  <2>2. /\ IsFiniteSet(passed) /\ n \in Nat /\ n <= Cardinality(DOMAIN macros)
        /\ Cardinality(DOMAIN macros) \in Nat
    BY <1>2, FS_Subset, FS_CardinalityType
  <2>3. \A p \in passed : n - 1 \in Nat /\ (n - 1) + 1 = n /\ n - 1 <= Cardinality(DOMAIN macros)
    <3> TAKE p \in passed
    <3>1. passed # {}
      OBVIOUS
    <3>2. n # 0
      BY <2>2, <3>1, FS_EmptySet
    <3> HIDE DEF n
    <3> QED BY <2>2, <3>2
  <2>4. \A p \in passed : l \in within(p)[n - 1]
    BY <1>3, Zenon
  <2>8. Cardinality(stacked) = n + 1
    BY <1>3, <2>2, FS_AddElement
  <2>9. PICK chain \in [1 .. n -> passed] : IsInjective(chain) /\ ChainTo(l, n, chain)
    BY <1>3, Zenon
  <2>5. CASE ~goes
    <3>1. expand[stacked][t] = t /\ t # << >>
      BY <1>3, <2>1, <2>5, Zenon
    <3>2. CASE l \in passed
      <4>1. within(l)[n - 1] \subseteq within(l)[Cardinality(DOMAIN macros)]
        BY <1>1, <2>2, <2>3, <3>2, FollowsFurther, Zenon
      <4>2. l \in LeadsTo(l)
        BY <1>1, <2>4, <3>2, <4>1, Zenon
      <4> QED BY <3>1, <4>2, Zenon DEF MayStay
    <3>3. CASE ~IsObjectLike(macros, l) \/ l = name
      BY <3>1, <3>3, Zenon DEF MayStay
    <3>4. CASE ~(Cardinality(stacked) < MaxExpansionDepth)
      <4>1. n = MaxExpansionDepth - 1
        <5>1. n + 1 <= MaxExpansionDepth
          BY <1>3, Zenon
        <5> HIDE DEF n
        <5> QED BY <2>2, <2>8, <3>4, <5>1, MaxExpansionDepthAssumption
      <4>2. chain \in [1 .. n -> DOMAIN macros \ {name}]
        BY <1>3, <2>9
      <4>3. TooDeep(name, l)
        <5> HIDE DEF n, l
        <5> QED BY <2>9, <4>1, <4>2 DEF TooDeep
      <4> QED BY <3>1, <4>3, Zenon DEF MayStay
    <3> QED BY <1>3, <2>5, <3>2, <3>3, <3>4, Zenon
  <2>6. CASE goes
    <3> DEFINE further == passed \union {l}
               body == macros[l].body
               deeper == stacked \union {l}
    <3>1. l \in DOMAIN macros /\ l \notin passed /\ macros[l] \in Macro
      BY <1>3, <2>6 DEF IsObjectLike, TableOK
    <3>2. /\ body \in Seq(Tokens) /\ body # << >>
          /\ deeper \in SUBSET Names /\ further \in SUBSET DOMAIN macros
          /\ deeper = further \union {name}
      BY <1>2, <1>3, <3>1 DEF Macro
    <3>3. Cardinality(further) = n + 1
      BY <2>2, <3>1, FS_AddElement
    <3>4. (n + 1) - 1 = n
      BY <2>2
    <3>5. Mentions(l) = ToSet(body)
      BY <2>6, Zenon DEF Mentions
    <3>6. Last(body) \in Mentions(l)
      BY <3>2, <3>5, EndOfText
    <3>7. \A p \in further : Last(body) \in within(p)[n]
      <4> TAKE p \in further
      <4>1. CASE p = l
        <5>1. within(l)[0] = Mentions(l)
          BY <1>1, Zenon DEF Follows
        <5>2. 0 <= n /\ 0 \in Nat
          BY <2>2
        <5>3. within(l)[0] \subseteq within(l)[n]
          BY <1>1, <2>2, <5>2, FollowsFurther, Zenon
        <5> QED BY <3>6, <4>1, <5>1, <5>3, Zenon
      <4>2. CASE p \in passed
        <5>1. within(p)[(n - 1) + 1] =
                within(p)[n - 1] \union UNION {Mentions(q) : q \in within(p)[n - 1]}
          BY <1>1, <2>3, <4>2, Zenon DEF Follows
        <5>2. Last(body) \in within(p)[(n - 1) + 1]
          BY <2>4, <3>6, <4>2, <5>1, Zenon
        <5>3. (n - 1) + 1 = n
          BY <2>3, <4>2, Zenon
        <5> QED BY <5>2, <5>3, Zenon
      <4> QED BY <4>1, <4>2, Zenon
    <3>14. name \notin further /\ Cardinality(further) + 1 <= MaxExpansionDepth
      <4>1. name \notin further
        BY <1>3, <2>6
      <4>2. n + 1 < MaxExpansionDepth
        BY <2>6, <2>8
      <4> HIDE DEF n, further
      <4> QED BY <2>2, <3>3, <4>1, <4>2, MaxExpansionDepthAssumption
    <3>15. \E longer \in [1 .. Cardinality(further) -> further] :
             IsInjective(longer) /\ ChainTo(Last(body), Cardinality(further), longer)
      <4>1. IsObjectLike(macros, l) /\ l \notin passed
        BY <2>6, <3>1, Zenon
      <4>2. \E longer \in [1 .. n + 1 -> passed \union {l}] :
              IsInjective(longer) /\ ChainTo(Last(macros[l].body), n + 1, longer)
        <5> HIDE DEF n, l
        <5> QED BY <2>2, <2>9, <4>1, ChainGrows, Zenon
      <4> QED BY <3>3, <4>2, Zenon
    <3>8. Ready(deeper, further, body)
      BY <3>2, <3>3, <3>4, <3>7, <3>14, <3>15, Zenon
    <3>9. rank(deeper) < rank(stacked)
      <4> DEFINE rest == DOMAIN macros \ stacked
      <4>1. IsFiniteSet(rest)
        BY <1>2, FS_Difference
      <4>2. l \in rest
        BY <2>6, <3>1
      <4>3. DOMAIN macros \ deeper = rest \ {l}
        OBVIOUS
      <4> HIDE DEF rest
      <4>4. Cardinality(rest \ {l}) = Cardinality(rest) - 1 /\ Cardinality(rest) \in Nat
        BY <4>1, <4>2, FS_RemoveElement, FS_CardinalityType
      <4>5. \A k \in Nat : k - 1 < k
        OBVIOUS
      <4>6. Cardinality(DOMAIN macros \ deeper) < Cardinality(rest)
        BY <4>3, <4>4, <4>5, Zenon
      <4> QED BY <4>6, Zenon DEF rest
    <3>10. EndsThere(deeper, body)
      BY <1>3, <3>2, <3>8, <3>9, Zenon
    <3>11. expand[deeper][body] \in Seq(Tokens)
      <4>1. expand[deeper] \in [Seq(Tokens) -> Seq(Tokens)]
        BY <3>2, Zenon DEF Expands
      <4> QED BY <3>2, <4>1, Zenon
    <3>12. expand[stacked][t] = Front(t) \o expand[deeper][body]
      BY <1>3, <2>1, <2>6, Zenon
    <3>13. /\ Front(t) \o expand[deeper][body] # << >>
           /\ Last(Front(t) \o expand[deeper][body]) = Last(expand[deeper][body])
      <4>1. t \in Seq(Tokens) /\ t # << >> /\ expand[deeper][body] # << >>
        BY <1>3, <3>10, Zenon
      <4> HIDE DEF deeper, body
      <4> QED BY <3>11, <4>1, EndOfText, Zenon
    <3> QED BY <3>10, <3>12, <3>13, Zenon
  <2> QED BY <2>5, <2>6
<1>4. bad = {}
  <2> SUFFICES ASSUME bad # {} PROVE FALSE
    OBVIOUS
  <2>1. \A S : rank(S) \in Nat
    BY <1>2, FS_Difference, FS_CardinalityType
  <2> HIDE DEF rank
  <2>2. ranks \subseteq Nat /\ ranks # {}
    BY <2>1
  <2>3. PICK r \in ranks : \A s \in ranks : r <= s
    <3> HIDE DEF ranks
    <3> QED BY <2>2, LeastNumber
  <2>4. PICK S \in bad : r = rank(S)
    BY <2>3
  <2>5. \A R \in SUBSET Names : rank(R) < rank(S) => R \notin bad
    <3> TAKE R \in SUBSET Names
    <3>1. rank(R) \in Nat /\ rank(S) \in Nat
      BY <2>1
    <3>2. rank(R) < rank(S) => ~(rank(S) <= rank(R))
      BY <3>1
    <3>3. R \in bad => rank(S) <= rank(R)
      <4>1. R \in bad => rank(R) \in ranks
        BY Zenon
      <4> QED BY <2>3, <2>4, <4>1, Zenon
    <3> QED BY <3>2, <3>3, Zenon
  <2>6. S \in SUBSET Names
    BY <2>4
  <2>7. PICK passed \in SUBSET DOMAIN macros, t \in Seq(Tokens) :
          Ready(S, passed, t) /\ ~EndsThere(S, t)
    BY <2>4, Zenon
  <2>8. EndsThere(S, t)
    BY <1>3, <2>5, <2>6, <2>7, Zenon
  <2> QED BY <2>7, <2>8, Zenon
<1>5. Ready({name}, {}, text)
  <2>1. Cardinality({}) = 0 /\ 0 + 1 <= MaxExpansionDepth
    BY FS_EmptySet, MaxExpansionDepthAssumption
  <2>2. << >> \in [1 .. 0 -> {}] /\ IsInjective(<< >>) /\ ChainTo(Last(text), 0, << >>)
    BY DEF IsInjective, ChainTo
  <2> QED BY <2>1, <2>2
<1>6. {name} \notin bad
  BY <1>4, Zenon
<1>7. {name} \in SUBSET Names /\ {} \in SUBSET DOMAIN macros
  OBVIOUS
<1> HIDE DEF Ready
<1>8. EndsThere({name}, text)
  <2> HIDE DEF EndsThere
  <2> QED BY <1>5, <1>6, <1>7, Zenon
<1> QED BY <1>8, Zenon

(* A line that defines has an identifier and then a text, as its parser saw to. *)
DefinesOK ==
  \A path \in DOMAIN files : \A i \in DOMAIN files[path] :
    files[path][i].op \in {"define", "define()"} =>
      /\ files[path][i].args \in Seq(Tokens) /\ files[path][i].args # << >>
      /\ Head(files[path][i].args) \in Names

TableInv == TableOK(macros) /\ DefinesOK

(* The line that is read as a definition has a name and then a text. *)
LEMMA DefinitionRead ==
  ASSUME ReadingInv, TableInv, active # << >>, ~AtEnd, Line.op \in {"define", "define()"}
  PROVE  Head(Line.args) \in Names /\ Tail(Line.args) \in Seq(Tokens)
<1>1. Current.next \in DOMAIN Lines(Current.path) /\ Exists(Current.path)
  BY CurrentType, LineType
<1>2. Line.args \in Seq(Tokens) /\ Line.args # << >> /\ Head(Line.args) \in Names
  BY <1>1, Zenon DEF TableInv, DefinesOK, Line, Lines, Exists
<1> QED BY <1>2

LEMMA EnteredTable ==
  ASSUME NEW table, TableOK(table), NEW name \in Names, NEW params \in BOOLEAN,
         NEW text \in Seq(Tokens)
  PROVE  /\ Expansion(table, name, text) \in Seq(Tokens)
         /\ TableOK(Entered(table, name, params, Expansion(table, name, text)))
<1>1. PICK expand : Expands(table, expand) /\ IsExpansion(table, expand)
  BY ExpansionExists, Zenon
<1>2. Expansion(table, name, text) \in Seq(Tokens)
  <2>1. {name} \in SUBSET Names
    OBVIOUS
  <2>2. expand[{name}] \in [Seq(Tokens) -> Seq(Tokens)]
    BY <1>1, <2>1, Zenon DEF Expands
  <2>3. expand[{name}][text] \in Seq(Tokens)
    BY <2>2, Zenon
  <2> QED BY <1>1, <2>3, Zenon DEF IsExpansion
<1> DEFINE body == Expansion(table, name, text)
           next == Entered(table, name, params, body)
<1>3. body \in Seq(Tokens)
  BY <1>2
<1> HIDE DEF body
<1>4. DOMAIN next = DOMAIN table \union {name}
  BY DEF Entered
<1>5. IsFiniteSet(DOMAIN next)
  BY <1>4, FS_AddElement DEF TableOK
<1>6. \A n \in DOMAIN next : next[n] \in Macro
  BY <1>3 DEF Entered, TableOK, Macro
<1>7. TableOK(next)
  BY <1>4, <1>5, <1>6 DEF TableOK
<1> QED BY <1>3, <1>7 DEF body

(* Every step leaves the table alone, enters one definition, takes one     *)
(* away or begins with the builtin ones.                                   *)
LEMMA TableMoves ==
  ASSUME ReadingInv, TableInv, [Next]_vars
  PROVE  \/ UNCHANGED macros
         \/ active = << >> /\ macros' = Builtins
         \/ \E name \in Names : \E params \in BOOLEAN : \E text \in Seq(Tokens) :
              Define(name, params, text)
         \/ \E name \in DOMAIN macros : Undefine(name)
<1>1. CASE ReadDefine
  <2>1. active # << >> /\ ~AtEnd /\ Line.op \in {"define", "define()"}
    BY <1>1, Zenon DEF ReadDefine, Reading
  <2>2. Head(Line.args) \in Names /\ Tail(Line.args) \in Seq(Tokens)
    BY <2>1, DefinitionRead
  <2> QED BY <1>1, <2>2, Zenon DEF ReadDefine
<1>2. CASE ReadUndef
  BY <1>2, Zenon DEF ReadUndef
<1>3. CASE StartUnit
  BY <1>3, Zenon DEF StartUnit
<1>4. CASE \/ ReadText \/ ReadConditional \/ ReadError \/ ReadInclude
           \/ Return \/ FinishUnit \/ Finished \/ UNCHANGED vars
  BY <1>4, Zenon
  DEF ReadText, ReadConditional, ReadError, ReadInclude, Return, FinishUnit, Finished, vars
<1> QED BY <1>1, <1>2, <1>3, <1>4, Zenon DEF Next, Step

LEMMA TableInitial == Init => TableInv
<1> SUFFICES ASSUME Init PROVE TableInv
  OBVIOUS
<1>1. TableOK(macros)
  BY BuiltinsAssumption DEF Init, TableOK
<1>2. PICK call \in Calls : files = call.files
  BY DEF Init
<1>3. DefinesOK
  BY <1>2, DefinitionsAssumption, Zenon DEF DefinesOK
<1> QED BY <1>1, <1>3 DEF TableInv

LEMMA TablePreserved ==
  ASSUME ReadingInv, TableInv, [Next]_vars
  PROVE  TableInv'
<1>1. DefinesOK'
  BY ReadingMoves, Zenon DEF TableInv, DefinesOK
<1>2. TableOK(macros)
  BY DEF TableInv
<1>3. TableOK(macros')
  <2>1. CASE UNCHANGED macros
    BY <1>2, <2>1, Zenon
  <2>2. CASE macros' = Builtins
    BY <2>2, BuiltinsAssumption DEF TableOK
  <2>3. ASSUME NEW name \in Names, NEW params \in BOOLEAN, NEW text \in Seq(Tokens),
               Define(name, params, text)
        PROVE  TableOK(macros')
    <3>1. TableOK(Entered(macros, name, params, Expansion(macros, name, text)))
      BY <1>2, EnteredTable, Zenon
    <3> QED BY <2>3, <3>1, Zenon DEF Define
  <2>4. ASSUME NEW name \in DOMAIN macros, Undefine(name)
        PROVE  TableOK(macros')
    <3>1. /\ DOMAIN macros' = DOMAIN macros \ {name}
          /\ \A n \in DOMAIN macros' : macros'[n] = macros[n]
      BY <2>4 DEF Undefine, Restrict
    <3>2. IsFiniteSet(DOMAIN macros')
      BY <1>2, <3>1, FS_Difference DEF TableOK
    <3> QED BY <1>2, <3>1, <3>2 DEF TableOK
  <2> QED BY <2>1, <2>2, <2>3, <2>4, TableMoves, Zenon
<1> QED BY <1>1, <1>3 DEF TableInv, TableOK

LEMMA AlwaysTable == Spec => []TableInv
<1>1. ReadingInv /\ TableInv /\ [Next]_vars => TableInv'
  BY TablePreserved
<1> QED BY <1>1, TableInitial, AlwaysReading, PTL DEF Spec

(* The table's names are identifiers and its values tokens. *)
LEMMA MacrosTyped == Spec => []MacrosTypeOK
<1>1. TableInv => MacrosTypeOK
  BY DEF TableInv, TableOK, MacrosTypeOK
<1> QED BY <1>1, AlwaysTable, PTL

(* A definition changes the name it defines alone. *)
LEMMA DefinitionStops ==
  ASSUME TableOK(macros), NEW name \in Names, NEW params \in BOOLEAN, NEW text \in Seq(Tokens),
         Define(name, params, text), NEW m \in Names, Defined(m), macros'[m].body # << >>,
         \A n \in DOMAIN macros : macros[n].body # << >>
  PROVE  MayStay(m, Last(macros'[m].body))
<1>1. DOMAIN macros' = DOMAIN macros \union {name}
  BY DEF Define, Entered
<1>2. \A n \in DOMAIN macros' :
        macros'[n] = IF n = name THEN [params |-> params, body |-> Expansion(macros, name, text)]
                     ELSE macros[n]
  BY <1>1 DEF Define, Entered
<1>3. m = name
  BY <1>1, <1>2, Zenon DEF Defined
<1>4. macros'[m].body = Expansion(macros, name, text)
  BY <1>1, <1>2, <1>3
<1>5. PICK expand : Expands(macros, expand) /\ IsExpansion(macros, expand)
  BY ExpansionExists, Zenon
<1>6. macros'[m].body = expand[{name}][text]
  BY <1>4, <1>5, Zenon DEF IsExpansion
<1>7. text # << >>
  <2> SUFFICES ASSUME text = << >> PROVE FALSE
    OBVIOUS
  <2>1. {name} \in SUBSET Names
    OBVIOUS
  <2>2. expand[{name}][text] = text
    BY <1>5, <2>1, Zenon DEF Expands
  <2> QED BY <1>6, <2>2
<1>8. MayStay(name, Last(expand[{name}][text]))
  BY <1>5, <1>7, ExpansionStops, Zenon
<1> QED BY <1>3, <1>6, <1>8, Zenon

(* A macro's value is expanded along the chain of last tokens as far as    *)
(* the expanding stack allows: what it ends in is no object-like macro, is *)
(* the name being defined, leads back to itself, or comes after a chain of *)
(* distinct macros that fills the stack. The names on the stack are those  *)
(* passed on the way, each of which mentions the next.                     *)
THEOREM ChainsAreFollowed == Spec => StopsOnCycleOrDepth
<1>1. ReadingInv /\ TableInv /\ [Next]_vars => [active # << >> => ChainsEnd]_vars
  <2> SUFFICES ASSUME ReadingInv, TableInv, [Next]_vars, active # << >>,
                      NEW m \in Names, Defined(m), macros'[m].body # << >>,
                      \A n \in DOMAIN macros : macros[n].body # << >>
               PROVE  MayStay(m, Last(macros'[m].body))
    BY Zenon DEF ChainsEnd
  <2>1. TableOK(macros)
    BY DEF TableInv
  <2>2. CASE UNCHANGED macros
    BY <2>2, Zenon DEF Defined
  <2>3. ASSUME NEW name \in DOMAIN macros, Undefine(name)
        PROVE  FALSE
    <3>1. DOMAIN macros' \subseteq DOMAIN macros /\ \A n \in DOMAIN macros' : macros'[n] = macros[n]
      BY <2>3 DEF Undefine, Restrict
    <3> QED BY <3>1, Zenon DEF Defined
  <2>4. ASSUME NEW name \in Names, NEW params \in BOOLEAN, NEW text \in Seq(Tokens),
               Define(name, params, text)
        PROVE  MayStay(m, Last(macros'[m].body))
    BY <2>1, <2>4, DefinitionStops
  <2> QED BY <2>2, <2>3, <2>4, TableMoves, Zenon
<1> QED BY <1>1, AlwaysReading, AlwaysTable, PTL DEF Spec, StopsOnCycleOrDepth
=============================================================================
