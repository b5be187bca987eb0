---------------------------- MODULE MacroTable -----------------------------
(***************************************************************************)
(* The hash table behind the macros                                        *)
(* (src/preprocessor/directive/define/macro.c).                            *)
(*                                                                         *)
(* A chain is the set of its nodes: their order decides only how long a    *)
(* search takes, as long as no two have the same name.  Strings are copied *)
(* into memory that may run out; what is kept of them is whether a pointer *)
(* of a node leads to its string, is NULL, or leads to memory that was     *)
(* freed.  Freeing such memory once more corrupts the heap, and nothing is *)
(* said of what the program does then.                                     *)
(*                                                                         *)
(* An operator that precedes a definition as a variant of it               *)
(* (RehashedByOldCount, ...) is a mutant.                                  *)
(***************************************************************************)
EXTENDS Integers, FiniteSets

CONSTANTS
  Names,           (* The identifiers.                                     *)
  Values,          (* The replacement texts.                               *)
  ParamLists,      (* The lists of parameters that are not empty.          *)
  NULL, Freed,     (* Pointers that lead to no string.                     *)
  Lost,            (* What an update that failed leaves of a macro.        *)
  Hash,            (* hash_string                                          *)
  InitialBuckets   (* MACRO_TABLE_INITIAL_BUCKETS, 64 in the code.         *)

ASSUME HashAssumption == Hash \in [Names -> Nat]
ASSUME BucketsAssumption == InitialBuckets \in Nat \ {0}
ASSUME PointersAssumption ==
  NULL \notin Values \union ParamLists /\ Freed \notin Values \union ParamLists /\ NULL # Freed

VARIABLES
  buckets,       (* The chains, by their index.                            *)
  bucket_count,
  count,         (* The number of macros the table believes it has.        *)
  result,        (* What the last operation returned.                      *)
  corrupted      (* Memory was freed twice.                                *)

table == <<buckets, bucket_count, count>>
vars == <<table, result, corrupted>>

Node == [name : Names, value : Values \union {NULL, Freed}, has_parameters : BOOLEAN,
         param_names : ParamLists \union {NULL, Freed}]

(* What the caller of add gives: only a macro with parameters has a list.  *)
Definition == {d \in [value : Values, has_parameters : BOOLEAN, param_names : ParamLists \union {NULL}] :
                 d.param_names # NULL => d.has_parameters}

ASSUME LostAssumption == Lost \notin Definition

-----------------------------------------------------------------------------
(* Searching *)

Nodes == UNION {buckets[i] : i \in 0 .. bucket_count - 1}

(* bucket_count is a power of two, so the mask is a remainder.             *)
Index(name) == Hash[name] % bucket_count

(* The nodes a walk along the chain of the name stops at.                  *)
Found(name) == {node \in buckets[Index(name)] : node.name = name}

(* macro_table_find                                                        *)
Find(name) == CHOOSE node \in Found(name) : TRUE

-----------------------------------------------------------------------------
(* Creating and resizing *)

macro_table_create == [i \in 0 .. InitialBuckets - 1 |-> {}]

Init ==
  /\ buckets = macro_table_create /\ bucket_count = InitialBuckets /\ count = 0
  /\ result = 1 /\ corrupted = FALSE

RehashedByOldCount(chains, n) ==
  [i \in 0 .. 2 * n - 1 |-> IF i < n THEN chains[i] ELSE {}]

(* resize_macro_table: n chains become 2n, every node goes where its hash  *)
(* says now.                                                               *)
Rehashed(chains, n) ==
  [i \in 0 .. 2 * n - 1 |->
     {node \in UNION {chains[j] : j \in 0 .. n - 1} : Hash[node.name] % (2 * n) = i}]

-----------------------------------------------------------------------------
(* Operations *)

NodeOf(name, definition) ==
  [name |-> name, value |-> definition.value,
   has_parameters |-> definition.has_parameters, param_names |-> definition.param_names]

(* The code frees what the pointers of the node lead to.  A NULL is no     *)
(* harm, but memory that was freed before is.                              *)
FreedBefore(node) ==
  node.value = Freed \/ (node.has_parameters /\ node.param_names = Freed)

Corrupt == corrupted' = TRUE /\ UNCHANGED <<table, result>>

(* A new node; the table grows when it is more than three quarters full,   *)
(* if there is memory, and else goes on as it is.                          *)
Insert(name, definition) ==
  /\ Found(name) = {}
  /\ LET chains == [buckets EXCEPT ![Index(name)] = @ \union {NodeOf(name, definition)}]
     IN \/ /\ count + 1 > (bucket_count * 3) \div 4
           /\ buckets' = Rehashed(chains, bucket_count)
           /\ bucket_count' = 2 * bucket_count
        \/ buckets' = chains /\ UNCHANGED bucket_count
  /\ count' = count + 1
  /\ result' = 1
  /\ UNCHANGED corrupted

(* No memory for the node or for one of its strings: what was allocated is *)
(* given back.                                                             *)
InsertFails(name) ==
  Found(name) = {} /\ result' = 0 /\ UNCHANGED <<table, corrupted>>

(* The existing node gets another content.                                 *)
Replaced(name, node) ==
  buckets' = [buckets EXCEPT ![Index(name)] = (@ \ Found(name)) \union {node}]

UpdateKeepingParams(name, definition) ==
  /\ Found(name) # {}
  /\ LET old == Find(name)
         stale == IF old.has_parameters /\ old.param_names # NULL THEN Freed ELSE NULL
     IN \/ FreedBefore(old) /\ Corrupt
        \/ /\ ~FreedBefore(old)
           /\ Replaced(name, IF definition.param_names = NULL
                             THEN [NodeOf(name, definition) EXCEPT !.param_names = stale]
                             ELSE NodeOf(name, definition))
           /\ result' = 1
           /\ UNCHANGED <<bucket_count, count, corrupted>>

Update(name, definition) ==
  /\ Found(name) # {}
  /\ LET old == Find(name)
     IN \/ FreedBefore(old) /\ Corrupt
        \/ /\ ~FreedBefore(old)
           /\ Replaced(name, NodeOf(name, definition))
           /\ result' = 1
           /\ UNCHANGED <<bucket_count, count, corrupted>>

(* An update frees first and allocates then.  Without memory for the value *)
(* the node keeps pointers to parameters that are gone; without memory for *)
(* the parameters it keeps a pointer to the value that is given back.      *)
UpdateFails(name, definition) ==
  /\ Found(name) # {}
  /\ LET old == Find(name)
     IN /\ ~FreedBefore(old)
        /\ \/ Replaced(name,
                [old EXCEPT !.value = NULL,
                            !.param_names = IF old.has_parameters /\ @ # NULL THEN Freed ELSE @])
           \/ /\ definition.param_names # NULL
              /\ Replaced(name, [NodeOf(name, definition) EXCEPT !.value = Freed, !.param_names = NULL])
  /\ result' = 0
  /\ UNCHANGED <<bucket_count, count, corrupted>>

(* macro_table_add                                                         *)
macro_table_add(name, definition) ==
  /\ ~corrupted
  /\ \/ Insert(name, definition)
     \/ InsertFails(name)
     \/ Update(name, definition)
     \/ UpdateFails(name, definition)

RemoveLeavingCount(name) ==
  /\ ~corrupted
  /\ \/ /\ Found(name) # {}
        /\ buckets' = [buckets EXCEPT ![Index(name)] = @ \ Found(name)]
        /\ result' = 1
        /\ UNCHANGED <<bucket_count, count, corrupted>>
     \/ Found(name) = {} /\ result' = 0 /\ UNCHANGED <<table, corrupted>>

macro_table_remove(name) ==
  /\ ~corrupted
  /\ \/ /\ Found(name) # {}
        /\ \/ FreedBefore(Find(name)) /\ Corrupt
           \/ /\ ~FreedBefore(Find(name))
              /\ buckets' = [buckets EXCEPT ![Index(name)] = @ \ Found(name)]
              /\ count' = count - 1
              /\ result' = 1
              /\ UNCHANGED <<bucket_count, corrupted>>
     \/ Found(name) = {} /\ result' = 0 /\ UNCHANGED <<table, corrupted>>

(* The end of a unit, and the table for the next one.                      *)
macro_table_destroy ==
  /\ ~corrupted
  /\ \/ (\E node \in Nodes : FreedBefore(node)) /\ Corrupt
     \/ /\ \A node \in Nodes : ~FreedBefore(node)
        /\ buckets' = macro_table_create /\ bucket_count' = InitialBuckets /\ count' = 0
        /\ result' = 1
        /\ UNCHANGED corrupted

Next ==
  \/ \E name \in Names :
       \/ \E definition \in Definition : macro_table_add(name, definition)
       \/ macro_table_remove(name)
  \/ macro_table_destroy

Spec == Init /\ [][Next]_vars

-----------------------------------------------------------------------------
(* Properties *)

(* The table holds nodes, each in the chain a search for its name walks    *)
(* along, no two of one name, and counts them right: through updates,      *)
(* removals, growth, and growth that fails (resize_macro_table,            *)
(* macro_table_add, macro_table_remove).                                   *)
TableOK ==
  /\ bucket_count \in Nat \ {0}
  /\ buckets \in [0 .. bucket_count - 1 -> SUBSET Node]
  /\ \A i \in 0 .. bucket_count - 1 : \A node \in buckets[i] : Hash[node.name] % bucket_count = i
  /\ \A i \in 0 .. bucket_count - 1 : \A m, n \in buckets[i] : m.name = n.name => m = n
  /\ IsFiniteSet(Nodes) /\ count = Cardinality(Nodes)
  /\ result \in {0, 1} /\ corrupted \in BOOLEAN

(* What the table says of a name: its definition, or that it was lost.     *)
Meaning(node) ==
  IF node.value \in Values
  THEN [value |-> node.value, has_parameters |-> node.has_parameters, param_names |-> node.param_names]
  ELSE Lost

Stored == [name \in {m \in Names : Found(m) # {}} |-> Meaning(Find(name))]

Map == INSTANCE MacroMap WITH macros <- Stored, Definitions <- Definition

(* The table is the partial function its header promises: whatever the     *)
(* hash function, adding a macro changes the answer for its name alone,    *)
(* growing changes no answer, and an update that fails loses its name and  *)
(* nothing else.                                                           *)
ImplementsMap == Map!Spec

(* Memory is freed twice only after an update failed: the macro it lost is *)
(* still in the table when the heap is corrupted (macro_table_add frees    *)
(* the old strings of a node before it has the new ones).                  *)
FreedOnce == corrupted => \E name \in DOMAIN Stored : Stored[name] = Lost
=============================================================================
