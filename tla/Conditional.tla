---------------------------- MODULE Conditional ----------------------------
(***************************************************************************)
(* The stack of conditional-compilation frames of the preprocessor         *)
(* (src/preprocessor/directive/conditional/conditional.c).                 *)
(*                                                                         *)
(* A frame stands for one #if/#ifdef/#ifndef ... #endif group.  The module *)
(* is the handlers of the six directives, each taken for an arbitrary      *)
(* outcome of its controlling expression, in an arbitrary order: stray and *)
(* misplaced directives are part of the behaviour.  What outcome an        *)
(* expression has is in Preprocessor.                                      *)
(*                                                                         *)
(* An operator with a name like MustGrowLate or NewFrameNotTaken is a      *)
(* mutant of the definition that follows it: the same code with a          *)
(* plausible bug.  PROJECT.json says which property finds it; the          *)
(* specification uses none of them.                                        *)
(***************************************************************************)
EXTENDS Naturals, Sequences

CONSTANTS
  InitialCapacity,  (* INITIAL_STACK_CAPACITY: slots of a new stack.       *)
  MaxDepth,         (* Bound of the model: groups open at once.            *)
  AllocMayFail      (* Whether growing the stack may run out of memory.    *)

ASSUME CapacityAssumption == InitialCapacity \in Nat \ {0}
ASSUME DepthAssumption == MaxDepth \in Nat
ASSUME AllocAssumption == AllocMayFail \in BOOLEAN

VARIABLES
  stack,     (* ConditionalContext.stack[0 .. count-1]; the top is last.   *)
  capacity,  (* ConditionalContext.capacity                                *)
  errors     (* The kinds of error the handlers have reported so far.      *)

condVars == <<stack, capacity, errors>>

Frame == [parent_skip : BOOLEAN, skip : BOOLEAN,
          taken : BOOLEAN, else_seen : BOOLEAN]

ErrorKinds == {"invalid expression", "out of memory",
               "elif without if", "elif after else",
               "else without if", "duplicate else", "endif without if"}

(* What evaluate_if_expression can answer.  An expression that cannot be   *)
(* evaluated is reported, and then counts as false.                        *)
Outcomes == {"true", "false", "invalid"}

Holds(outcome) == outcome = "true"

Complaint(outcome) ==
  IF outcome = "invalid" THEN {"invalid expression"} ELSE {}

-----------------------------------------------------------------------------

(* conditional_context_create *)
CondInit ==
  /\ stack = << >>
  /\ capacity = InitialCapacity
  /\ errors = {}

Top == stack[Len(stack)]

(* conditional_should_output: asked before every write to the output; only *)
(* the innermost frame is consulted.                                       *)
ShouldOutput == stack = << >> \/ ~Top.skip

EnclosingSkipOffByOne == Len(stack) > 2 /\ stack[Len(stack) - 2].skip

(* What #elif and #else take for the state of the enclosing block.         *)
EnclosingSkip == Len(stack) > 1 /\ stack[Len(stack) - 1].skip

Report(kind) ==
  /\ errors' = errors \union {kind}
  /\ UNCHANGED <<stack, capacity>>

SetTop(frame) ==
  /\ stack' = [stack EXCEPT ![Len(stack)] = frame]
  /\ UNCHANGED capacity

-----------------------------------------------------------------------------

NewFrameOfValue(value) ==
  [parent_skip |-> ~ShouldOutput, skip |-> ~value, taken |-> value,
   else_seen |-> FALSE]

NewFrameParentIsSelf(value) ==
  [parent_skip |-> ~ShouldOutput \/ ~value, skip |-> ~ShouldOutput \/ ~value,
   taken |-> ShouldOutput /\ value, else_seen |-> FALSE]

NewFrameNotTaken(value) ==
  [parent_skip |-> ~ShouldOutput, skip |-> ~ShouldOutput \/ ~value,
   taken |-> FALSE, else_seen |-> FALSE]

NewFrame(value) ==
  [parent_skip |-> ~ShouldOutput,
   skip        |-> ~ShouldOutput \/ ~value,
   taken       |-> ShouldOutput /\ value,
   else_seen   |-> FALSE]

MustGrowLate == Len(stack) > capacity

MustGrow == Len(stack) >= capacity

PushWhenLive(frame) ==
  /\ stack' = IF ShouldOutput THEN Append(stack, frame) ELSE stack
  /\ capacity' = IF MustGrow THEN 2 * capacity ELSE capacity

(* conditional_push, when it succeeds. *)
Push(frame) ==
  /\ stack' = Append(stack, frame)
  /\ capacity' = IF MustGrow THEN 2 * capacity ELSE capacity

PushFails == MustGrow /\ AllocMayFail

(* The expression is evaluated, and complained about, even in a block that *)
(* is skipped.                                                             *)
If(outcome) ==
  \/ /\ Push(NewFrame(Holds(outcome)))
     /\ errors' = errors \union Complaint(outcome)
  \/ /\ PushFails
     /\ errors' = errors \union Complaint(outcome) \union {"out of memory"}
     /\ UNCHANGED <<stack, capacity>>

(* #ifdef and #ifndef drop the result of conditional_push: a group that    *)
(* could not be opened is not reported.                                    *)
Ifdef(value) ==
  /\ Push(NewFrame(value)) \/ (PushFails /\ UNCHANGED <<stack, capacity>>)
  /\ UNCHANGED errors

DecidedByParent == EnclosingSkip

Decided == EnclosingSkip \/ Top.taken

(* The expression is evaluated only when it can matter. *)
Elif(outcome) ==
  \/ stack = << >> /\ Report("elif without if")
  \/ /\ stack # << >>
     /\ Top.else_seen
     /\ Report("elif after else")
  \/ /\ stack # << >>
     /\ ~Top.else_seen
     /\ Decided
     /\ SetTop([Top EXCEPT !.skip = TRUE])
     /\ UNCHANGED errors
  \/ /\ stack # << >>
     /\ ~Top.else_seen
     /\ ~Decided
     /\ SetTop([Top EXCEPT !.skip = ~Holds(outcome),
                           !.taken = Holds(outcome)])
     /\ errors' = errors \union Complaint(outcome)

Else ==
  \/ stack = << >> /\ Report("else without if")
  \/ /\ stack # << >>
     /\ Top.else_seen
     /\ Report("duplicate else")
  \/ /\ stack # << >>
     /\ ~Top.else_seen
     /\ SetTop(IF EnclosingSkip
               THEN [Top EXCEPT !.skip = TRUE, !.else_seen = TRUE]
               ELSE [Top EXCEPT !.skip = Top.taken, !.taken = TRUE,
                                !.else_seen = TRUE])
     /\ UNCHANGED errors

(* DPPF__endif and conditional_pop *)
Endif ==
  \/ stack = << >> /\ Report("endif without if")
  \/ /\ stack # << >>
     /\ stack' = SubSeq(stack, 1, Len(stack) - 1)
     /\ UNCHANGED <<capacity, errors>>

-----------------------------------------------------------------------------

CondNext ==
  \/ Len(stack) < MaxDepth /\ \E outcome \in Outcomes : If(outcome)
  \/ Len(stack) < MaxDepth /\ \E value \in BOOLEAN : Ifdef(value)
  \/ \E outcome \in Outcomes : Elif(outcome)
  \/ Else
  \/ Endif

CondSpec == CondInit /\ [][CondNext]_condVars

-----------------------------------------------------------------------------

CondTypeOK ==
  /\ stack \in Seq(Frame)
  /\ capacity \in Nat \ {0}
  /\ errors \subseteq ErrorKinds

(* No write past the end of the allocated stack: every frame that is       *)
(* pushed has a slot, whatever sequence of groups was opened and closed    *)
(* before (conditional_push, conditional_pop).                             *)
WithinCapacity == Len(stack) <= capacity

(* conditional_should_output looks at the innermost frame alone.  That is  *)
(* only right because a frame inside a skipped block is itself skipped,    *)
(* after any #elif and #else it has seen (DPPF__if, DPPF__elif,             *)
(* DPPF__else).                                                             *)
SkipInherited ==
  \A i \in 2 .. Len(stack) : stack[i - 1].skip => stack[i].skip

(* parent_skip is a snapshot taken when the group was opened, while #elif  *)
(* and #else look at the frame below again: the two never disagree, because *)
(* an enclosing frame cannot change before the group is closed.            *)
SnapshotFresh ==
  \A i \in 1 .. Len(stack) :
    stack[i].parent_skip <=> (i > 1 /\ stack[i - 1].skip)

(* A branch is emitted only if it is the one its group has taken: a frame  *)
(* that is not skipped has recorded that a branch was taken, so a later    *)
(* #elif or #else of the group can tell (DPPF__if, DPPF__elif).             *)
LiveIsTaken ==
  \A i \in 1 .. Len(stack) : ~stack[i].skip => stack[i].taken

(* At most one branch of a group is emitted: a group that has taken a      *)
(* branch goes on to skipped branches only, and never forgets that it has  *)
(* (DPPF__elif, DPPF__else).                                                 *)
OneBranchPerGroup ==
  [][(/\ Len(stack') = Len(stack)
      /\ stack' # stack
      /\ Top.taken) => Top'.skip /\ Top'.taken]_condVars
=============================================================================
