------------------------- MODULE Conditional_proof --------------------------
(***************************************************************************)
(* Invariance proofs for Conditional, for every initial capacity, every    *)
(* depth, and with or without allocation failures.                         *)
(***************************************************************************)
EXTENDS Conditional, SequenceTheorems, TLAPS

(* What every directive does to the frames, in one of four ways: nothing,  *)
(* a new frame on top, another top frame, or one frame less.  Errors are   *)
(* left out.                                                               *)
Opens == \E value \in BOOLEAN : Push(NewFrame(value))

Switches == /\ stack # << >>
            /\ ~Top.else_seen
            /\ \E frame \in Frame :
                 /\ stack' = [stack EXCEPT ![Len(stack)] = frame]
                 /\ frame.parent_skip = Top.parent_skip
                 /\ EnclosingSkip => frame.skip
                 /\ Top.taken => frame.skip /\ frame.taken
                 /\ ~frame.skip => frame.taken
            /\ UNCHANGED capacity

Closes == /\ stack # << >>
          /\ stack' = SubSeq(stack, 1, Len(stack) - 1)
          /\ UNCHANGED capacity

Keeps == UNCHANGED <<stack, capacity>>

Moves == Opens \/ Switches \/ Closes \/ Keeps

StackOK == stack \in Seq(Frame) /\ capacity \in Nat \ {0}

LEMMA TypeParts ==
  ASSUME CondTypeOK
  PROVE  StackOK
BY DEF CondTypeOK, StackOK

LEMMA TopIsFrame ==
  ASSUME StackOK, stack # << >>
  PROVE  /\ Len(stack) \in Nat \ {0}
         /\ Len(stack) \in 1 .. Len(stack)
         /\ Top \in Frame
BY DEF StackOK, Top

LEMMA NewFrameType ==
  ASSUME StackOK, NEW value \in BOOLEAN
  PROVE  NewFrame(value) \in Frame
<1>1. ShouldOutput \in BOOLEAN
  BY TopIsFrame DEF ShouldOutput, Frame
<1> QED BY <1>1 DEF NewFrame, Frame

(* What the handler of each directive does to the frames, whatever its     *)
(* expression comes to.                                                    *)
LEMMA IfKind ==
  ASSUME NEW outcome, If(outcome)
  PROVE  Opens \/ Keeps
BY DEF If, Opens, Keeps, Holds

LEMMA IfdefKind ==
  ASSUME NEW value \in BOOLEAN, Ifdef(value)
  PROVE  Opens \/ Keeps
BY DEF Ifdef, Opens, Keeps

LEMMA ElifKind ==
  ASSUME StackOK, NEW outcome, Elif(outcome)
  PROVE  Switches \/ Keeps
<1>1. CASE stack = << >> \/ Top.else_seen
  BY <1>1 DEF Elif, Report, Keeps
<1>2. CASE stack # << >> /\ ~Top.else_seen /\ Decided
  <2> DEFINE frame == [Top EXCEPT !.skip = TRUE]
  <2>1. /\ frame \in Frame
        /\ frame.skip
        /\ frame.taken = Top.taken
        /\ frame.parent_skip = Top.parent_skip
    BY <1>2, TopIsFrame DEF Frame
  <2>2. stack' = [stack EXCEPT ![Len(stack)] = frame] /\ UNCHANGED capacity
    BY <1>2 DEF Elif, SetTop
  <2> HIDE DEF frame
  <2> QED BY <1>2, <2>1, <2>2 DEF Switches
<1>3. CASE stack # << >> /\ ~Top.else_seen /\ ~Decided
  <2> DEFINE frame == [Top EXCEPT !.skip = ~Holds(outcome),
                                  !.taken = Holds(outcome)]
  <2>1. /\ frame \in Frame
        /\ frame.parent_skip = Top.parent_skip
        /\ ~frame.skip => frame.taken
    BY <1>3, TopIsFrame DEF Frame, Holds
  <2>2. stack' = [stack EXCEPT ![Len(stack)] = frame] /\ UNCHANGED capacity
    BY <1>3 DEF Elif, SetTop
  <2>3. ~EnclosingSkip /\ ~Top.taken
    BY <1>3 DEF Decided
  <2> HIDE DEF frame
  <2> QED BY <1>3, <2>1, <2>2, <2>3 DEF Switches
<1> QED BY <1>1, <1>2, <1>3

LEMMA ElseKind ==
  ASSUME StackOK, Else
  PROVE  Switches \/ Keeps
<1>1. CASE stack = << >> \/ Top.else_seen
  BY <1>1 DEF Else, Report, Keeps
<1>2. CASE stack # << >> /\ ~Top.else_seen
  <2> DEFINE frame == IF EnclosingSkip
                      THEN [Top EXCEPT !.skip = TRUE, !.else_seen = TRUE]
                      ELSE [Top EXCEPT !.skip = Top.taken, !.taken = TRUE,
                                       !.else_seen = TRUE]
  <2>1. /\ frame \in Frame
        /\ frame.parent_skip = Top.parent_skip
        /\ EnclosingSkip => frame.skip
        /\ Top.taken => frame.skip /\ frame.taken
        /\ ~frame.skip => frame.taken
    BY <1>2, TopIsFrame DEF Frame
  <2>2. stack' = [stack EXCEPT ![Len(stack)] = frame] /\ UNCHANGED capacity
    BY <1>2 DEF Else, SetTop
  <2> HIDE DEF frame
  <2> QED BY <1>2, <2>1, <2>2 DEF Switches
<1> QED BY <1>1, <1>2

LEMMA EndifKind ==
  ASSUME Endif
  PROVE  Closes \/ Keeps
BY DEF Endif, Report, Closes, Keeps

(* Every step of the directives is one of the four. *)
LEMMA StepKinds ==
  ASSUME StackOK, [CondNext]_condVars
  PROVE  Moves
<1>1. CASE UNCHANGED condVars
  BY <1>1 DEF condVars, Keeps, Moves
<1> QED BY <1>1, IfKind, IfdefKind, ElifKind, ElseKind, EndifKind DEF CondNext, Moves

-----------------------------------------------------------------------------

(* The stack changes at its top only: what the four kinds of step make of  *)
(* its length and of the frames below the top.                             *)
LEMMA OpensShape ==
  ASSUME StackOK, NEW value \in BOOLEAN, Push(NewFrame(value))
  PROVE  /\ stack' \in Seq(Frame)
         /\ Len(stack') = Len(stack) + 1
         /\ \A i \in 1 .. Len(stack) : stack'[i] = stack[i]
         /\ stack'[Len(stack) + 1] = NewFrame(value)
BY NewFrameType DEF Push, StackOK

LEMMA SwitchesShape ==
  ASSUME StackOK, stack # << >>, NEW frame \in Frame,
         stack' = [stack EXCEPT ![Len(stack)] = frame]
  PROVE  /\ stack' \in Seq(Frame)
         /\ Len(stack') = Len(stack)
         /\ \A i \in 1 .. Len(stack) - 1 : stack'[i] = stack[i]
         /\ stack'[Len(stack)] = frame
BY TopIsFrame DEF StackOK

LEMMA PrefixShape ==
  ASSUME NEW S, NEW s \in Seq(S), NEW n \in Nat, n <= Len(s)
  PROVE  /\ SubSeq(s, 1, n) \in Seq(S)
         /\ Len(SubSeq(s, 1, n)) = n
         /\ \A i \in 1 .. n : SubSeq(s, 1, n)[i] = s[i]
<1>1. SubSeq(s, 1, n) \in Seq(S)
  OBVIOUS
<1>2. Len(SubSeq(s, 1, n)) = n
  OBVIOUS
<1>3. ASSUME NEW i \in 1 .. n
      PROVE  SubSeq(s, 1, n)[i] = s[i]
  OBVIOUS
<1> QED BY <1>1, <1>2, <1>3

LEMMA ClosesShape ==
  ASSUME StackOK, Closes
  PROVE  /\ stack' \in Seq(Frame)
         /\ Len(stack') = Len(stack) - 1
         /\ \A i \in 1 .. Len(stack') : stack'[i] = stack[i]
<1> DEFINE n == Len(stack) - 1
<1>1. stack \in Seq(Frame) /\ n \in Nat /\ n <= Len(stack)
  BY TopIsFrame DEF StackOK, Closes
<1>2. stack' = SubSeq(stack, 1, n)
  BY DEF Closes
<1> HIDE DEF n
<1>3. /\ stack' \in Seq(Frame)
      /\ Len(stack') = n
      /\ \A i \in 1 .. n : stack'[i] = stack[i]
  BY <1>1, <1>2, PrefixShape
<1> QED BY <1>3 DEF n

-----------------------------------------------------------------------------

(* SkipInherited, SnapshotFresh and LiveIsTaken for one frame of a stack s. *)
FrameOK(s, i) ==
  /\ s[i].parent_skip <=> (i > 1 /\ s[i - 1].skip)
  /\ (i > 1 /\ s[i - 1].skip) => s[i].skip
  /\ ~s[i].skip => s[i].taken

FrameInv == \A i \in 1 .. Len(stack) : FrameOK(stack, i)

(* Whether a frame is as it should be depends on it and on the one below. *)
LEMMA FrameOKLocal ==
  ASSUME NEW s, NEW t, NEW i, FrameOK(s, i), t[i] = s[i],
         i > 1 => t[i - 1] = s[i - 1]
  PROVE  FrameOK(t, i)
BY Zenon DEF FrameOK

LEMMA StackPreserved ==
  ASSUME StackOK, Moves
  PROVE  StackOK'
<1>1. CASE Opens
  <2>1. PICK value \in BOOLEAN : Push(NewFrame(value))
    BY <1>1 DEF Opens
  <2>2. capacity' \in Nat \ {0}
    BY <2>1 DEF Push, StackOK
  <2> QED BY <2>1, <2>2, OpensShape DEF StackOK
<1>2. CASE Switches
  BY <1>2, SwitchesShape DEF Switches, StackOK
<1>3. CASE Closes
  BY <1>3, ClosesShape DEF Closes, StackOK
<1>4. CASE Keeps
  BY <1>4 DEF Keeps, StackOK
<1> QED BY <1>1, <1>2, <1>3, <1>4 DEF Moves

LEMMA TypePreserved ==
  ASSUME CondTypeOK, [CondNext]_condVars
  PROVE  CondTypeOK'
<1>1. stack' \in Seq(Frame) /\ capacity' \in Nat \ {0}
  BY StackPreserved, StepKinds DEF StackOK, CondTypeOK
<1>2. errors' \subseteq ErrorKinds
  BY DEF CondTypeOK, ErrorKinds, CondNext, condVars, If, Ifdef, Elif, Else,
         Endif, Report, Complaint
<1> QED BY <1>1, <1>2 DEF CondTypeOK

LEMMA CapacityPreserved ==
  ASSUME StackOK, WithinCapacity, Moves
  PROVE  WithinCapacity'
<1>1. CASE Opens
  BY <1>1, OpensShape DEF Opens, Push, MustGrow, WithinCapacity, StackOK
<1>2. CASE Switches
  BY <1>2, SwitchesShape DEF Switches, WithinCapacity
<1>3. CASE Closes
  BY <1>3, ClosesShape, TopIsFrame DEF Closes, WithinCapacity, StackOK
<1>4. CASE Keeps
  BY <1>4 DEF Keeps, WithinCapacity
<1> QED BY <1>1, <1>2, <1>3, <1>4 DEF Moves

LEMMA FrameInvPreserved ==
  ASSUME StackOK, FrameInv, Moves
  PROVE  FrameInv'
<1>0. Len(stack) \in Nat /\ (stack = << >> <=> Len(stack) = 0)
  BY EmptySeq DEF StackOK
<1>1. CASE Opens
  <2>1. PICK value \in BOOLEAN : Push(NewFrame(value))
    BY <1>1 DEF Opens
  <2>2. /\ Len(stack') = Len(stack) + 1
        /\ \A i \in 1 .. Len(stack) : stack'[i] = stack[i]
        /\ stack'[Len(stack) + 1] = NewFrame(value)
    BY <2>1, OpensShape
  <2>3. ASSUME NEW i \in 1 .. Len(stack)
        PROVE  FrameOK(stack', i)
    <3>1. i > 1 => i - 1 \in 1 .. Len(stack)
      BY <1>0
    <3> QED BY <2>2, <3>1, FrameOKLocal DEF FrameInv
  <2>4. FrameOK(stack', Len(stack) + 1)
    <3> DEFINE n == Len(stack)
    <3>1. n + 1 > 1 <=> stack # << >>
      BY <1>0
    <3>2. stack # << >> => stack'[(n + 1) - 1] = stack[n]
      BY <1>0, <2>2
    <3>3. /\ stack'[n + 1].parent_skip = ~ShouldOutput
          /\ stack'[n + 1].skip = (~ShouldOutput \/ ~value)
          /\ stack'[n + 1].taken = (ShouldOutput /\ value)
      BY <2>2 DEF NewFrame
    <3>4. ~ShouldOutput <=> (stack # << >> /\ stack[n].skip)
      BY Zenon DEF ShouldOutput, Top
    <3> HIDE DEF n
    <3>5. FrameOK(stack', n + 1)
      BY <3>1, <3>2, <3>3, <3>4, Zenon DEF FrameOK
    <3> QED BY <3>5 DEF n
  <2>5. \A i \in 1 .. Len(stack') : i \in 1 .. Len(stack) \/ i = Len(stack) + 1
    BY <1>0, <2>2
  <2> QED BY <2>3, <2>4, <2>5, Zenon DEF FrameInv
<1>2. CASE Switches
  <2>1. PICK frame \in Frame :
          /\ stack' = [stack EXCEPT ![Len(stack)] = frame]
          /\ frame.parent_skip = Top.parent_skip
          /\ EnclosingSkip => frame.skip
          /\ ~frame.skip => frame.taken
    BY <1>2 DEF Switches
  <2>2. /\ Len(stack') = Len(stack)
        /\ \A i \in 1 .. Len(stack) - 1 : stack'[i] = stack[i]
        /\ stack'[Len(stack)] = frame
        /\ Len(stack) \in Nat \ {0}
    BY <1>2, <2>1, SwitchesShape, TopIsFrame DEF Switches
  <2>3. ASSUME NEW i \in 1 .. Len(stack) - 1
        PROVE  FrameOK(stack', i)
    <3>1. i \in 1 .. Len(stack) /\ (i > 1 => i - 1 \in 1 .. Len(stack) - 1)
      BY <1>0
    <3> QED BY <2>2, <3>1, FrameOKLocal DEF FrameInv
  <2>4. FrameOK(stack', Len(stack))
    <3> DEFINE n == Len(stack)
    <3>1. n > 1 => stack'[n - 1] = stack[n - 1]
      BY <2>2
    <3>2. FrameOK(stack, n)
      BY <2>2 DEF FrameInv
    <3>3. stack'[n] = frame
      BY <2>2
    <3> HIDE DEF n
    <3>4. FrameOK(stack', n)
      BY <2>1, <3>1, <3>2, <3>3, Zenon DEF FrameOK, EnclosingSkip, Top, n
    <3> QED BY <3>4 DEF n
  <2>5. \A i \in 1 .. Len(stack') : i \in 1 .. Len(stack) - 1 \/ i = Len(stack)
    BY <2>2
  <2> QED BY <2>3, <2>4, <2>5, Zenon DEF FrameInv
<1>3. CASE Closes
  <2>1. /\ Len(stack') = Len(stack) - 1
        /\ \A i \in 1 .. Len(stack') : stack'[i] = stack[i]
    BY <1>3, ClosesShape
  <2>2. ASSUME NEW i \in 1 .. Len(stack')
        PROVE  FrameOK(stack', i)
    <3>1. /\ i \in 1 .. Len(stack)
          /\ i > 1 => i - 1 \in 1 .. Len(stack')
      BY <1>0, <2>1
    <3> QED BY <2>1, <3>1, FrameOKLocal DEF FrameInv
  <2> QED BY <2>2 DEF FrameInv
<1>4. CASE Keeps
  BY <1>4 DEF Keeps, FrameInv
<1> QED BY <1>1, <1>2, <1>3, <1>4 DEF Moves

(* The three invariants are FrameInv. *)
LEMMA FrameInvParts ==
  ASSUME StackOK
  PROVE  FrameInv <=> (SkipInherited /\ SnapshotFresh /\ LiveIsTaken)
<1>1. \A i : i \in 2 .. Len(stack) <=> (i \in 1 .. Len(stack) /\ i > 1)
  BY DEF StackOK
<1> QED BY <1>1, Zenon
        DEF FrameInv, FrameOK, SkipInherited, SnapshotFresh, LiveIsTaken

-----------------------------------------------------------------------------

(* In every reachable state the frames are frames, the errors are of the   *)
(* known kinds, the stack has a slot for every frame it holds, and the     *)
(* frames satisfy SkipInherited, SnapshotFresh and LiveIsTaken: looking at *)
(* the innermost frame is enough, and what a frame remembers of its        *)
(* surroundings is never out of date.                                      *)
THEOREM ConditionalInvariant ==
  CondSpec => [](CondTypeOK /\ WithinCapacity /\ SkipInherited
                   /\ SnapshotFresh /\ LiveIsTaken)
<1> DEFINE IInv == CondTypeOK /\ WithinCapacity /\ FrameInv
<1>1. CondInit => IInv
  BY CapacityAssumption DEF CondInit, CondTypeOK, WithinCapacity, FrameInv
<1>2. IInv /\ [CondNext]_condVars => IInv'
  BY TypePreserved, CapacityPreserved, FrameInvPreserved, StepKinds, TypeParts
<1>3. IInv => /\ CondTypeOK /\ WithinCapacity /\ SkipInherited
              /\ SnapshotFresh /\ LiveIsTaken
  BY FrameInvParts, TypeParts
<1> QED BY <1>1, <1>2, <1>3, PTL DEF CondSpec

(* Of the branches of a group at most one is ever emitted, whatever the    *)
(* conditions are and whatever is nested in them.                          *)
THEOREM OneBranch == CondSpec => OneBranchPerGroup
<1>1. CondTypeOK /\ [CondNext]_condVars =>
        [(/\ Len(stack') = Len(stack)
          /\ stack' # stack
          /\ Top.taken) => Top'.skip /\ Top'.taken]_condVars
  <2> SUFFICES ASSUME CondTypeOK, [CondNext]_condVars,
                      Len(stack') = Len(stack), stack' # stack, Top.taken
               PROVE  Top'.skip /\ Top'.taken
    OBVIOUS
  <2>0. StackOK
    BY TypeParts
  <2>1. Switches
    <3>1. ~Keeps
      BY DEF Keeps
    <3>2. ~Closes
      BY <2>0, ClosesShape DEF StackOK
    <3>3. ~Opens
      BY <2>0, OpensShape DEF Opens, StackOK
    <3> QED BY <2>0, <3>1, <3>2, <3>3, StepKinds DEF Moves
  <2>2. PICK frame \in Frame :
          /\ stack' = [stack EXCEPT ![Len(stack)] = frame]
          /\ frame.skip /\ frame.taken
    BY <2>1 DEF Switches
  <2> QED BY <2>0, <2>1, <2>2, SwitchesShape DEF Top, Switches
<1>2. CondSpec => []CondTypeOK
  BY ConditionalInvariant, PTL
<1> QED BY <1>1, <1>2, PTL DEF CondSpec, OneBranchPerGroup
=============================================================================
