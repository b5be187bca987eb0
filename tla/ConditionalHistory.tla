------------------------ MODULE ConditionalHistory -------------------------
(***************************************************************************)
(* Conditional with a history variable: the groups of the text read so     *)
(* far, as ConditionalGroups describes them.  It records the value each    *)
(* directive was given, also where the handler never looks at it, and is   *)
(* read by no action: the frames alone must answer ShouldOutput as the     *)
(* groups would.                                                           *)
(***************************************************************************)
EXTENDS Conditional

VARIABLE history  (* The open groups of the text: see ConditionalGroups. *)

hvars == <<stack, capacity, errors, history>>

Abstract == INSTANCE ConditionalGroups WITH
              groups <- history, emit <- ShouldOutput

HInit == CondInit /\ history = << >>

(* A group whose frame could not be pushed, for lack of memory, is no      *)
(* group: the text inside it belongs to the group around it.               *)
HOpen(value) == history' = IF stack' = stack THEN history
                           ELSE Append(history, [current |-> value,
                                                 earlier |-> FALSE,
                                                 closed  |-> FALSE])

Misplaced == stack = << >> \/ Top.else_seen

HBranch(value, last) ==
  history' = IF Misplaced THEN history
             ELSE [history EXCEPT ![Len(history)] =
                     [current |-> value,
                      earlier |-> @.earlier \/ @.current,
                      closed  |-> last]]

HEndif == /\ Endif
          /\ history' = IF stack = << >> THEN history
                        ELSE SubSeq(history, 1, Len(history) - 1)

HNext ==
  \/ /\ Len(stack) < MaxDepth
     /\ \E outcome \in Outcomes : If(outcome) /\ HOpen(Holds(outcome))
  \/ /\ Len(stack) < MaxDepth
     /\ \E value \in BOOLEAN : Ifdef(value) /\ HOpen(value)
  \/ \E outcome \in Outcomes :
       Elif(outcome) /\ HBranch(Holds(outcome), FALSE)
  \/ Else /\ HBranch(TRUE, TRUE)
  \/ HEndif

HSpec == HInit /\ [][HNext]_hvars

-----------------------------------------------------------------------------

(* The frames implement the groups: conditional_should_output is true      *)
(* exactly where the branch being read is the first one of its group whose *)
(* condition holds, and so for every enclosing group.                      *)
ImplementsGroups == Abstract!Spec

(* The frame of a group says what the group's conditions say: taken        *)
(* records whether any condition so far held, and skip whether this branch *)
(* is the first such, both only while the enclosing groups are selected.   *)
FrameMatches(i) ==
  LET frame == stack[i]
      group == history[i]
      enclosed == i = 1 \/ ~stack[i - 1].skip
  IN /\ frame.skip <=> ~(enclosed /\ Abstract!Selected(group))
     /\ frame.taken <=> (enclosed /\ (group.current \/ group.earlier))
     /\ frame.else_seen <=> group.closed

FramesMatchGroups ==
  /\ Len(stack) = Len(history)
  /\ \A i \in 1 .. Len(stack) : FrameMatches(i)
=============================================================================
