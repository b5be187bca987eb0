---------------------- MODULE ConditionalHistory_proof ----------------------
(***************************************************************************)
(* The frames of Conditional implement the groups of ConditionalGroups,    *)
(* for every initial capacity and every depth, whether memory is exhausted *)
(* or not.                                                                 *)
(***************************************************************************)
EXTENDS ConditionalHistory, Conditional_proof

Selected(group) == group.current /\ ~group.earlier

(* FrameMatches, for the i-th frame of a stack s and the i-th group of h. *)
MatchesAt(s, h, i) ==
  LET enclosed == i = 1 \/ ~s[i - 1].skip
  IN /\ s[i].skip <=> ~(enclosed /\ Selected(h[i]))
     /\ s[i].taken <=> (enclosed /\ (h[i].current \/ h[i].earlier))
     /\ s[i].else_seen <=> h[i].closed

(* What a frame says of all the groups around it.  It follows from         *)
(* MatchesAt of the frames below by induction over the stack; as a part of *)
(* the invariant it needs no induction but the one over the steps.         *)
EmitsAt(s, h, i) == ~s[i].skip <=> \A j \in 1 .. i : Selected(h[j])

FramesOK(s, h) ==
  \A i \in 1 .. Len(s) : MatchesAt(s, h, i) /\ EmitsAt(s, h, i)

HInv ==
  /\ CondTypeOK
  /\ history \in Seq(Abstract!Group)
  /\ Len(stack) = Len(history)
  /\ FramesOK(stack, history)

-----------------------------------------------------------------------------

(* A frame and a group that go together also answer for the groups around  *)
(* them, when those below do.                                              *)
LEMMA EmitsNext ==
  ASSUME NEW s, NEW h, NEW n \in Nat \ {0},
         MatchesAt(s, h, n), n > 1 => EmitsAt(s, h, n - 1)
  PROVE  EmitsAt(s, h, n)
<1>1. \A j : j \in 1 .. n <=> (j = n \/ (n > 1 /\ j \in 1 .. n - 1))
  OBVIOUS
<1>2. n = 1 <=> ~(n > 1)
  OBVIOUS
<1> QED BY <1>1, <1>2, Zenon DEF EmitsAt, MatchesAt

(* Stacks and groups that are the same up to n are as good up to n. *)
GoodUpTo(s, h, n) == \A i \in 1 .. n : MatchesAt(s, h, i) /\ EmitsAt(s, h, i)
SameUpTo(s, h, t, g, n) == \A i \in 1 .. n : t[i] = s[i] /\ g[i] = h[i]

LEMMA BelowOK ==
  ASSUME NEW s, NEW h, NEW t, NEW g, NEW n \in Nat,
         GoodUpTo(s, h, n), SameUpTo(s, h, t, g, n)
  PROVE  GoodUpTo(t, g, n)
<1> USE DEF GoodUpTo, SameUpTo
<1> SUFFICES ASSUME NEW i \in 1 .. n
             PROVE  MatchesAt(t, g, i) /\ EmitsAt(t, g, i)
  OBVIOUS
<1>1. i = 1 \/ i - 1 \in 1 .. n
  OBVIOUS
<1>2. \A j \in 1 .. i : j \in 1 .. n
  OBVIOUS
<1> QED BY <1>1, <1>2, Zenon DEF MatchesAt, EmitsAt

(* Only the top needs to be looked at. *)
LEMMA TopSuffices ==
  ASSUME NEW s, NEW h, NEW t, NEW g, NEW n \in Nat \ {0}, Len(t) = n,
         \A i \in 1 .. n - 1 : MatchesAt(s, h, i) /\ EmitsAt(s, h, i),
         \A i \in 1 .. n - 1 : t[i] = s[i] /\ g[i] = h[i],
         MatchesAt(t, g, n)
  PROVE  FramesOK(t, g)
<1>1. \A i \in 1 .. n - 1 : MatchesAt(t, g, i) /\ EmitsAt(t, g, i)
  <2> DEFINE m == n - 1
  <2>1. m \in Nat
    OBVIOUS
  <2> HIDE DEF m
  <2>2. GoodUpTo(s, h, m) /\ SameUpTo(s, h, t, g, m) => GoodUpTo(t, g, m)
    BY <2>1, BelowOK, Zenon
  <2> QED BY <2>2 DEF m, GoodUpTo, SameUpTo
<1>2. EmitsAt(t, g, n)
  <2>1. n > 1 => n - 1 \in 1 .. n - 1
    OBVIOUS
  <2> QED BY <1>1, <2>1, EmitsNext
<1>3. \A i \in 1 .. n : i \in 1 .. n - 1 \/ i = n
  OBVIOUS
<1> QED BY <1>1, <1>2, <1>3, Zenon DEF FramesOK

-----------------------------------------------------------------------------

(* The directives, as what they do to the stack and the groups together. *)
HOpens == \E value \in BOOLEAN :
            /\ stack' = Append(stack, NewFrame(value))
            /\ history' = Append(history, [current |-> value,
                                           earlier |-> FALSE,
                                           closed  |-> FALSE])

NewGroup(value, last) ==
  [current |-> value,
   earlier |-> history[Len(history)].earlier \/ history[Len(history)].current,
   closed  |-> last]

HSwitches == \E value, last \in BOOLEAN, frame \in Frame :
               /\ stack # << >>
               /\ ~Top.else_seen
               /\ last => value
               /\ stack' = [stack EXCEPT ![Len(stack)] = frame]
               /\ history' = [history EXCEPT ![Len(history)] =
                                NewGroup(value, last)]
               /\ frame.skip <=> (EnclosingSkip \/ Top.taken \/ ~value)
               /\ frame.taken <=> (Top.taken \/ (~EnclosingSkip /\ value))
               /\ frame.else_seen <=> last

HCloses == Closes /\ history' = SubSeq(history, 1, Len(history) - 1)

HKeeps == UNCHANGED <<stack, history>>

LEMMA HElif ==
  ASSUME HInv, NEW outcome \in Outcomes,
         Elif(outcome), HBranch(Holds(outcome), FALSE)
  PROVE  HSwitches \/ HKeeps
<1>0. CondTypeOK
  BY DEF HInv
<1>1. CASE Misplaced
  BY <1>1 DEF Misplaced, Elif, HBranch, Report, HKeeps
<1>2. CASE ~Misplaced
  <2> DEFINE frame == IF Decided THEN [Top EXCEPT !.skip = TRUE]
                      ELSE [Top EXCEPT !.skip = ~Holds(outcome),
                                       !.taken = Holds(outcome)]
  <2>1. /\ stack # << >>
        /\ ~Top.else_seen
        /\ stack' = [stack EXCEPT ![Len(stack)] = frame]
    BY <1>2 DEF Misplaced, Elif, SetTop
  <2>2. history' = [history EXCEPT ![Len(history)] =
                      NewGroup(Holds(outcome), FALSE)]
    BY <1>2 DEF HBranch, NewGroup
  <2>3. Holds(outcome) \in BOOLEAN
    BY DEF Holds
  <2>4. /\ frame \in Frame
        /\ frame.skip <=> (EnclosingSkip \/ Top.taken \/ ~Holds(outcome))
        /\ frame.taken <=> (Top.taken \/ (~EnclosingSkip /\ Holds(outcome)))
        /\ frame.else_seen <=> FALSE
    BY <1>0, <2>1, <2>3, TopIsFrame, TypeParts DEF Frame, Decided
  <2> HIDE DEF frame
  <2> QED BY <2>1, <2>2, <2>3, <2>4 DEF HSwitches
<1> QED BY <1>1, <1>2

LEMMA HElse ==
  ASSUME HInv, Else, HBranch(TRUE, TRUE)
  PROVE  HSwitches \/ HKeeps
<1>0. CondTypeOK
  BY DEF HInv
<1>1. CASE Misplaced
  BY <1>1 DEF Misplaced, Else, HBranch, Report, HKeeps
<1>2. CASE ~Misplaced
  <2> DEFINE frame == IF EnclosingSkip
                      THEN [Top EXCEPT !.skip = TRUE, !.else_seen = TRUE]
                      ELSE [Top EXCEPT !.skip = Top.taken, !.taken = TRUE,
                                       !.else_seen = TRUE]
  <2>1. /\ stack # << >>
        /\ ~Top.else_seen
        /\ stack' = [stack EXCEPT ![Len(stack)] = frame]
    BY <1>2 DEF Misplaced, Else, SetTop
  <2>2. history' = [history EXCEPT ![Len(history)] = NewGroup(TRUE, TRUE)]
    BY <1>2 DEF HBranch, NewGroup
  <2>3. /\ frame \in Frame
        /\ frame.skip <=> (EnclosingSkip \/ Top.taken \/ ~TRUE)
        /\ frame.taken <=> (Top.taken \/ (~EnclosingSkip /\ TRUE))
        /\ frame.else_seen <=> TRUE
    BY <1>0, <2>1, TopIsFrame, TypeParts DEF Frame
  <2> HIDE DEF frame
  <2> QED BY <2>1, <2>2, <2>3 DEF HSwitches
<1> QED BY <1>1, <1>2

LEMMA HStepKinds ==
  ASSUME HInv, [HNext]_hvars
  PROVE  (Len(stack) < MaxDepth /\ HOpens) \/ HSwitches \/ HCloses \/ HKeeps
<1>0. ASSUME NEW frame PROVE Append(stack, frame) # stack
  BY EmptySeq DEF HInv, CondTypeOK
<1>1. ASSUME NEW outcome \in Outcomes, If(outcome), HOpen(Holds(outcome))
      PROVE  HOpens \/ HKeeps
  BY <1>0, <1>1 DEF If, Push, PushFails, Holds, HOpen, HOpens, HKeeps
<1>2. ASSUME NEW value \in BOOLEAN, Ifdef(value), HOpen(value)
      PROVE  HOpens \/ HKeeps
  BY <1>0, <1>2 DEF Ifdef, Push, PushFails, HOpen, HOpens, HKeeps
<1>3. ASSUME HEndif
      PROVE  HCloses \/ HKeeps
  BY <1>3 DEF HEndif, Endif, Report, HCloses, Closes, HKeeps
<1>4. CASE UNCHANGED hvars
  BY <1>4 DEF hvars, HKeeps
<1> QED BY <1>1, <1>2, <1>3, <1>4, HElif, HElse DEF HNext

-----------------------------------------------------------------------------

LEMMA HTypePreserved ==
  ASSUME HInv, [HNext]_hvars
  PROVE  /\ CondTypeOK'
         /\ history' \in Seq(Abstract!Group)
         /\ Len(stack') = Len(history')
<1>1. CondTypeOK /\ history \in Seq(Abstract!Group) /\ Len(stack) = Len(history)
  BY DEF HInv
<1>2. [CondNext]_condVars
  <2>1. HNext => CondNext
    BY DEF HNext, HEndif, CondNext
  <2> QED BY <2>1 DEF hvars, condVars
<1>3. CondTypeOK'
  BY <1>1, <1>2, TypePreserved
<1>4. history' \in Seq(Abstract!Group) /\ Len(stack') = Len(history')
  <2>1. CASE HOpens
    <3>1. PICK value \in BOOLEAN : 
            /\ stack' = Append(stack, NewFrame(value))
            /\ history' = Append(history, [current |-> value,
                                           earlier |-> FALSE,
                                           closed  |-> FALSE])
      BY <2>1 DEF HOpens
    <3>2. [current |-> value, earlier |-> FALSE, closed |-> FALSE]
            \in Abstract!Group
      BY DEF Abstract!Group
    <3> QED BY <1>1, <3>1, <3>2 DEF CondTypeOK
  <2>2. CASE HSwitches
    <3>1. PICK value \in BOOLEAN, last \in BOOLEAN, frame \in Frame :
            /\ stack # << >>
            /\ stack' = [stack EXCEPT ![Len(stack)] = frame]
            /\ history' = [history EXCEPT ![Len(history)] =
                             NewGroup(value, last)]
      BY <2>2 DEF HSwitches
    <3>2. history[Len(history)] \in Abstract!Group
      BY <1>1, <3>1, TopIsFrame, TypeParts
    <3>3. NewGroup(value, last) \in Abstract!Group
      BY <3>2 DEF NewGroup, Abstract!Group
    <3> QED BY <1>1, <3>1, <3>3 DEF CondTypeOK
  <2>3. CASE HCloses
    <3> DEFINE n == Len(history) - 1
    <3>1. n \in Nat /\ n <= Len(history) /\ n <= Len(stack)
      BY <1>1, <2>3, TopIsFrame, TypeParts DEF HCloses, Closes
    <3>2. history' = SubSeq(history, 1, n) /\ stack' = SubSeq(stack, 1, n)
      BY <1>1, <2>3 DEF HCloses, Closes
    <3>3. stack \in Seq(Frame)
      BY <1>1 DEF CondTypeOK
    <3> HIDE DEF n
    <3> QED BY <1>1, <3>1, <3>2, <3>3, PrefixShape
  <2>4. CASE HKeeps
    BY <1>1, <2>4 DEF HKeeps
  <2> QED BY <2>1, <2>2, <2>3, <2>4, HStepKinds
<1> QED BY <1>3, <1>4

LEMMA FramesOKPreserved ==
  ASSUME HInv, [HNext]_hvars
  PROVE  FramesOK(stack', history')
<1> DEFINE n == Len(stack)
<1>1. /\ stack \in Seq(Frame)
      /\ history \in Seq(Abstract!Group)
      /\ Len(history) = n
      /\ n \in Nat
      /\ stack = << >> <=> n = 0
  BY EmptySeq DEF HInv, CondTypeOK
<1>2. \A i \in 1 .. n : MatchesAt(stack, history, i) /\ EmitsAt(stack, history, i)
  BY DEF HInv, FramesOK
<1>3. CASE HOpens
  <2>1. PICK value \in BOOLEAN :
          /\ stack' = Append(stack, NewFrame(value))
          /\ history' = Append(history, [current |-> value, earlier |-> FALSE,
                                         closed |-> FALSE])
    BY <1>3 DEF HOpens
  <2>2. /\ Len(stack') = n + 1
        /\ \A i \in 1 .. n : stack'[i] = stack[i] /\ history'[i] = history[i]
        /\ stack'[n + 1] = NewFrame(value)
        /\ history'[n + 1] = [current |-> value, earlier |-> FALSE,
                              closed |-> FALSE]
    BY <1>1, <2>1
  <2>3. /\ stack'[n + 1].skip = (~ShouldOutput \/ ~value)
        /\ stack'[n + 1].taken = (ShouldOutput /\ value)
        /\ stack'[n + 1].else_seen = FALSE
        /\ history'[n + 1].current = value
        /\ history'[n + 1].earlier = FALSE
        /\ history'[n + 1].closed = FALSE
    BY <2>2 DEF NewFrame
  <2>4. (n + 1 = 1 <=> stack = << >>)
          /\ (stack # << >> => stack'[(n + 1) - 1] = stack[n])
    BY <1>1, <2>2
  <2>5. n + 1 \in Nat \ {0} /\ (n + 1) - 1 = n
    BY <1>1
  <2> HIDE DEF n
  <2>6. MatchesAt(stack', history', n + 1)
    BY <2>3, <2>4, Zenon DEF MatchesAt, Selected, ShouldOutput, Top, n
  <2> QED BY <1>2, <2>2, <2>5, <2>6, TopSuffices
<1>4. CASE HSwitches
  <2>1. PICK value \in BOOLEAN, last \in BOOLEAN, frame \in Frame :
               /\ stack # << >>
               /\ stack' = [stack EXCEPT ![Len(stack)] = frame]
               /\ history' = [history EXCEPT ![Len(history)] =
                                NewGroup(value, last)]
               /\ frame.skip <=> (EnclosingSkip \/ Top.taken \/ ~value)
               /\ frame.taken <=> (Top.taken \/ (~EnclosingSkip /\ value))
               /\ frame.else_seen <=> last
    BY <1>4 DEF HSwitches
  <2>2. /\ Len(stack') = n
        /\ n \in Nat \ {0}
        /\ \A i \in 1 .. n - 1 : stack'[i] = stack[i] /\ history'[i] = history[i]
        /\ stack'[n] = frame
        /\ history'[n] = NewGroup(value, last)
    BY <1>1, <2>1
  <2>3. /\ history'[n].current = value
        /\ history'[n].earlier = (history[n].earlier \/ history[n].current)
        /\ history'[n].closed = last
    BY <1>1, <2>2 DEF NewGroup
  <2>4. EnclosingSkip <=> ~(n = 1 \/ ~stack'[n - 1].skip)
    <3>1. n > 1 <=> ~(n = 1)
      BY <2>2
    <3>2. n > 1 => stack'[n - 1] = stack[n - 1]
      BY <2>2
    <3> QED BY <3>1, <3>2, Zenon DEF EnclosingSkip
  <2>5. MatchesAt(stack, history, n) /\ (n > 1 => stack'[n - 1] = stack[n - 1])
    BY <1>2, <2>2
  <2>6. n = 1 \/ n > 1
    BY <2>2
  <2>7. \A i \in 1 .. n - 1 : MatchesAt(stack, history, i)
                                /\ EmitsAt(stack, history, i)
    BY <1>1, <1>2
  <2> HIDE DEF n
  <2>8. Top.taken <=> (~EnclosingSkip /\ (history[n].current \/ history[n].earlier))
    BY <2>4, <2>5, <2>6, Zenon DEF MatchesAt, Top, n
  <2>9. MatchesAt(stack', history', n)
    BY <2>1, <2>2, <2>3, <2>4, <2>8, Zenon DEF MatchesAt, Selected
  <2> QED BY <2>2, <2>7, <2>9, TopSuffices
<1>5. CASE HCloses
  <2> DEFINE m == n - 1
  <2>1. /\ m \in Nat
        /\ m <= Len(stack)
        /\ m <= Len(history)
        /\ \A i \in 1 .. m : i \in 1 .. n
    BY <1>1, <1>5 DEF HCloses, Closes
  <2>2. stack' = SubSeq(stack, 1, m) /\ history' = SubSeq(history, 1, m)
    BY <1>1, <1>5 DEF HCloses, Closes
  <2> HIDE DEF m
  <2>3. /\ Len(stack') = m
        /\ \A i \in 1 .. m : stack'[i] = stack[i] /\ history'[i] = history[i]
    BY <1>1, <2>1, <2>2, PrefixShape
  <2>4. \A i \in 1 .. m : MatchesAt(stack, history, i)
                            /\ EmitsAt(stack, history, i)
    BY <1>2, <2>1
  <2>5. \A i \in 1 .. m : MatchesAt(stack', history', i)
                            /\ EmitsAt(stack', history', i)
    <3>1. m \in Nat
      BY <2>1
    <3>2. \A i \in 1 .. m : stack'[i] = stack[i] /\ history'[i] = history[i]
      BY <2>3
    <3>3. GoodUpTo(stack, history, m) /\ SameUpTo(stack, history, stack', history', m)
      BY <2>4, <3>2, Zenon DEF GoodUpTo, SameUpTo
    <3>4. GoodUpTo(stack', history', m)
      BY <3>1, <3>3, BelowOK, Zenon
    <3> QED BY <3>4, Zenon DEF GoodUpTo
  <2> QED BY <2>3, <2>5, Zenon DEF FramesOK
<1>6. CASE HKeeps
  BY <1>6 DEF HKeeps, HInv
<1> QED BY <1>3, <1>4, <1>5, <1>6, HStepKinds
-----------------------------------------------------------------------------

LEMMA HInvariant ==
  HSpec => []HInv
<1>1. HInit => HInv
  BY CapacityAssumption DEF HInit, CondInit, HInv, CondTypeOK, FramesOK
<1>2. HInv /\ [HNext]_hvars => HInv'
  BY HTypePreserved, FramesOKPreserved DEF HInv
<1> QED BY <1>1, <1>2, PTL DEF HSpec

(* Every open group has its frame, and the frame says of its group what    *)
(* the conditions of the group say.                                        *)
THEOREM FramesMatch ==
  HSpec => []FramesMatchGroups
<1>1. HInv => FramesMatchGroups
  BY DEF HInv, FramesOK, FramesMatchGroups, MatchesAt, FrameMatches, Selected,
         Abstract!Selected
<1> QED BY <1>1, HInvariant, PTL

(* The answer of conditional_should_output, given from the innermost frame *)
(* alone, is whether all open groups have their branch selected.           *)
LEMMA ShouldOutputIsAllSelected ==
  ASSUME HInv
  PROVE  ShouldOutput = Abstract!AllSelected(history)
<1>1. /\ DOMAIN history = 1 .. Len(stack)
      /\ Len(stack) \in Nat
      /\ stack = << >> => \A i \in DOMAIN history : FALSE
      /\ stack # << >> => Len(stack) \in 1 .. Len(stack)
  BY EmptySeq DEF HInv, CondTypeOK
<1> QED BY <1>1, Zenon DEF HInv, FramesOK, EmitsAt, ShouldOutput, Top, Selected,
          Abstract!AllSelected, Abstract!Selected

LEMMA StepRefines ==
  ASSUME HInv, [HNext]_hvars,
         ShouldOutput = Abstract!AllSelected(history),
         ShouldOutput' = Abstract!AllSelected(history)'
  PROVE  [Abstract!Next]_(Abstract!vars)
<1>1. /\ stack \in Seq(Frame)
      /\ history \in Seq(Abstract!Group)
      /\ Len(stack) = Len(history)
      /\ stack = << >> <=> history = << >>
  BY EmptySeq DEF HInv, CondTypeOK
<1>2. CASE Len(stack) < MaxDepth /\ HOpens
  <2>1. \E value \in BOOLEAN : Abstract!Open(value)
    BY <1>1, <1>2 DEF HOpens, Abstract!Open
  <2> QED BY <2>1 DEF Abstract!Next, Abstract!AllSelected
<1>3. CASE HSwitches
  <2>1. PICK value \in BOOLEAN, last \in BOOLEAN :
          /\ stack # << >>
          /\ ~Top.else_seen
          /\ last => value
          /\ history' = [history EXCEPT ![Len(history)] =
                           NewGroup(value, last)]
    BY <1>3 DEF HSwitches
  <2>2. Len(stack) \in 1 .. Len(stack)
    BY <1>1, <2>1, EmptySeq
  <2>3. ~Abstract!Innermost.closed
    BY <1>1, <2>1, <2>2, Zenon
       DEF HInv, FramesOK, MatchesAt, Top, Abstract!Innermost
  <2>4. Abstract!NextBranch(value, last)
    BY <1>1, <2>1, <2>3 DEF Abstract!NextBranch, NewGroup, Abstract!Innermost
  <2>5. (\E v \in BOOLEAN : Abstract!NextBranch(v, FALSE))
          \/ Abstract!NextBranch(TRUE, TRUE)
    BY <2>1, <2>4
  <2> QED BY <2>5 DEF Abstract!Next, Abstract!AllSelected
<1>4. CASE HCloses
  <2>1. Abstract!Close
    BY <1>1, <1>4 DEF HCloses, Closes, Abstract!Close
  <2> QED BY <2>1 DEF Abstract!Next, Abstract!AllSelected
<1>5. CASE HKeeps
  BY <1>5 DEF HKeeps, ShouldOutput, Top, Abstract!vars
<1> QED BY <1>2, <1>3, <1>4, <1>5, HStepKinds

(* Conditional compilation does what ConditionalGroups promises: text is   *)
(* emitted exactly where, in every open group, it stands in the first      *)
(* branch whose condition holds (DPPF__if, DPPF__ifdef, DPPF__elif,         *)
(* DPPF__else, DPPF__endif, conditional_should_output).                     *)
THEOREM Refinement ==
  HSpec => ImplementsGroups
<1>1. HInit => Abstract!Init
  BY DEF HInit, CondInit, ShouldOutput, Abstract!Init
<1>2. HInv => ShouldOutput = Abstract!AllSelected(history)
  BY ShouldOutputIsAllSelected
<1>3. /\ HInv
      /\ [HNext]_hvars
      /\ ShouldOutput = Abstract!AllSelected(history)
      /\ (ShouldOutput = Abstract!AllSelected(history))'
      => [Abstract!Next]_(Abstract!vars)
  BY StepRefines
<1> QED BY <1>1, <1>2, <1>3, HInvariant, PTL
        DEF HSpec, ImplementsGroups, Abstract!Spec
=============================================================================
