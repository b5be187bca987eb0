------------------------- MODULE ConditionalGroups -------------------------
(***************************************************************************)
(* What conditional compilation promises, without the frames that          *)
(* implement it: of each group of branches the first one whose condition   *)
(* holds is selected, and text is emitted when the branch it stands in is  *)
(* selected in every open group.                                           *)
(***************************************************************************)
EXTENDS Naturals, Sequences

CONSTANT MaxDepth  (* Bound of the model: groups open at once. *)

VARIABLES
  groups,  (* The open groups, outermost first.                            *)
  emit     (* Whether text at this point belongs to the output.            *)

vars == <<groups, emit>>

(* current: the condition of the branch being read; earlier: whether the   *)
(* condition of some branch before it held; closed: #else has been read.   *)
Group == [current : BOOLEAN, earlier : BOOLEAN, closed : BOOLEAN]

Selected(group) == group.current /\ ~group.earlier

AllSelected(gs) == \A i \in DOMAIN gs : Selected(gs[i])

Init == groups = << >> /\ emit = TRUE

Open(value) ==
  /\ Len(groups) < MaxDepth
  /\ groups' = Append(groups, [current |-> value, earlier |-> FALSE,
                               closed |-> FALSE])

Innermost == groups[Len(groups)]

NextBranch(value, last) ==
  /\ groups # << >>
  /\ ~Innermost.closed
  /\ groups' = [groups EXCEPT ![Len(groups)] =
                  [current |-> value,
                   earlier |-> Innermost.earlier \/ Innermost.current,
                   closed  |-> last]]

Close ==
  /\ groups # << >>
  /\ groups' = SubSeq(groups, 1, Len(groups) - 1)

Next ==
  /\ \/ \E value \in BOOLEAN : Open(value)
     \/ \E value \in BOOLEAN : NextBranch(value, FALSE)
     \/ NextBranch(TRUE, TRUE)
     \/ Close
  /\ emit' = AllSelected(groups')

Spec == Init /\ [][Next]_vars
=============================================================================
