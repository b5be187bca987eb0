----------------------------- MODULE MacroMap ------------------------------
(***************************************************************************)
(* What the macro table promises (src/preprocessor/directive/define/       *)
(* macro.h): it is a partial function from names to definitions.  An       *)
(* update that fails costs the definition there was: the name is lost, and *)
(* keeps its place until it is removed.                                    *)
(***************************************************************************)
CONSTANTS Names, Definitions, Lost

VARIABLES
  macros,  (* name |-> its definition, or Lost.                            *)
  result   (* What the last operation returned: 1 or 0.                    *)

Init == macros = [name \in {} |-> Lost] /\ result = 1

Entered(name, definition) ==
  [m \in DOMAIN macros \union {name} |-> IF m = name THEN definition ELSE macros[m]]

(* macro_table_add                                                         *)
Add(name, definition) == macros' = Entered(name, definition) /\ result' = 1

AddFails(name) ==
  /\ \/ UNCHANGED macros
     \/ name \in DOMAIN macros /\ macros' = Entered(name, Lost)
  /\ result' = 0

(* macro_table_remove                                                      *)
Remove(name) ==
  /\ macros' = [m \in DOMAIN macros \ {name} |-> macros[m]]
  /\ result' = IF name \in DOMAIN macros THEN 1 ELSE 0

(* macro_table_destroy, and macro_table_create for the next unit           *)
Renew == macros' = [name \in {} |-> Lost] /\ result' = 1

Next ==
  \/ \E name \in Names :
       \/ \E definition \in Definitions : Add(name, definition)
       \/ AddFails(name)
       \/ Remove(name)
  \/ Renew

Spec == Init /\ [][Next]_<<macros, result>>
=============================================================================
