------------------------------ MODULE Macros -------------------------------
(***************************************************************************)
(* The macro table and #define/#undef                                      *)
(* (src/preprocessor/directive/define/define.c and macro.c).               *)
(*                                                                         *)
(* Text is a sequence of tokens, of which the members of Names are         *)
(* identifiers.  The hash table (MacroTable) is the partial function it    *)
(* stands for.  The interesting part is the expansion of the replacement   *)
(* text, which happens once, when the macro is defined, against the macros *)
(* known then.                                                             *)
(***************************************************************************)
EXTENDS Naturals, Sequences, SequencesExt

CONSTANTS
  Names,        (* The identifiers of the program.                          *)
  OtherTokens,  (* Its other tokens: numbers, operators.                   *)
  MaxExpansionDepth  (* MAX_EXPANSION_DEPTH: 256.                          *)

Tokens == Names \union OtherTokens

ASSUME NamesAssumption == Names \cap OtherTokens = {}

ASSUME MaxExpansionDepthAssumption == MaxExpansionDepth \in Nat \ {0}

VARIABLE macros  (* The table: name |-> [params |-> has_parameters, body]. *)

Macro == [params : BOOLEAN, body : Seq(Tokens)]

-----------------------------------------------------------------------------

IsObjectLike(table, token) == token \in DOMAIN table /\ ~table[token].params

ExpansionOnce(table, name, text) ==
  IF text # << >> /\ IsObjectLike(table, Last(text)) /\ Last(text) # name
  THEN Front(text) \o table[Last(text)].body
  ELSE text

(* expand_macros_in_text.  The table is searched for the text from the     *)
(* identifier to the END of the replacement text, so an identifier is      *)
(* found only where it is the last token; the value put in its place is    *)
(* expanded in turn, with the name on the expanding stack, unless that is  *)
(* full: then the identifier is copied as it is, and nothing is reported.  *)
(* The names on the stack are distinct, so that it is as long as their set *)
(* is large.                                                               *)
Expansion(table, name, text) ==
  LET expand[stacked \in SUBSET Names] ==
        [t \in Seq(Tokens) |->
           IF /\ t # << >> /\ IsObjectLike(table, Last(t)) /\ Last(t) \notin stacked
              /\ Cardinality(stacked) < MaxExpansionDepth
           THEN Front(t) \o expand[stacked \union {Last(t)}][table[Last(t)].body]
           ELSE t]
  IN expand[{name}][text]

(* macro_table_add: a new entry, or the update of the existing one. *)
Entered(table, name, params, body) ==
  [m \in DOMAIN table \union {name} |->
     IF m = name THEN [params |-> params, body |-> body] ELSE table[m]]

(* parse_object_like_macro and parse_function_like_macro *)
Define(name, params, text) ==
  macros' = Entered(macros, name, params, Expansion(macros, name, text))

UndefineLeavingEntry(name) == macros' = [macros EXCEPT ![name] = << >>]

(* macro_table_remove *)
Undefine(name) == macros' = Restrict(macros, DOMAIN macros \ {name})

(* What process_identifier writes for a token without an argument list:    *)
(* the value of an object-like macro, which is not read again, or the      *)
(* token itself.                                                           *)
Replacement(table, token) ==
  IF IsObjectLike(table, token) THEN table[token].body ELSE <<token>>

ExpandedText(table, text) ==
  FlattenSeq([i \in DOMAIN text |-> Replacement(table, text[i])])

-----------------------------------------------------------------------------

MacrosTypeOK ==
  /\ DOMAIN macros \subseteq Names
  /\ \A m \in DOMAIN macros : macros[m] \in Macro

(* The tokens that expanding token's value, and the values of the macros   *)
(* found there, and so on, can run into.                                   *)
Mentions(token) ==
  IF IsObjectLike(macros, token) THEN ToSet(macros[token].body) ELSE {}

LeadsTo(token) ==
  LET within[n \in Nat] ==
        IF n = 0 THEN Mentions(token)
        ELSE within[n - 1] \union UNION {Mentions(t) : t \in within[n - 1]}
  IN within[Cardinality(DOMAIN macros)]

(* Macros each of whose values ends in the next one, the last in token.    *)
ChainTo(token, n, chain) ==
  \A i \in 1 .. n : /\ IsObjectLike(macros, chain[i])
                    /\ Last(macros[chain[i]].body) = IF i = n THEN token ELSE chain[i + 1]

(* With name, the macros of the chain fill the expanding stack. *)
TooDeep(name, token) ==
  \E chain \in [1 .. MaxExpansionDepth - 1 -> DOMAIN macros \ {name}] :
    IsInjective(chain) /\ ChainTo(token, MaxExpansionDepth - 1, chain)

(* A token may be left as it is in the replacement text of name when it    *)
(* is no object-like macro, is the name being defined, is a macro whose    *)
(* value leads back to it, or follows so many macros that the stack is     *)
(* full.                                                                   *)
MayStay(name, token) ==
  \/ ~IsObjectLike(macros, token)
  \/ token = name
  \/ token \in LeadsTo(token)
  \/ TooDeep(name, token)

Defined(m) == /\ m \in DOMAIN macros'
              /\ m \notin DOMAIN macros \/ macros'[m] # macros[m]

(* A definition is expanded as far as it may go.  An empty value ends a    *)
(* chain early and uncovers a token that was passed before, so tables with *)
(* empty values are left out.                                              *)
ChainsEnd ==
  \A m \in Names :
    /\ Defined(m)
    /\ macros'[m].body # << >>
    /\ \A n \in DOMAIN macros : macros[n].body # << >>
    => MayStay(m, Last(macros'[m].body))
=============================================================================
