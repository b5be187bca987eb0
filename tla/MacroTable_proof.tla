------------------------- MODULE MacroTable_proof --------------------------
(***************************************************************************)
(* Proofs about the macro table: it keeps its shape, and it implements the *)
(* partial function of MacroMap.                                           *)
(*                                                                         *)
(* What counts of a table is the set of its nodes.  The lemmas about       *)
(* chains (Put, Take, Grow) say what each operation makes of that set, the *)
(* lemmas about views (ViewPut, ViewTake) what that makes of the answers   *)
(* the table gives.                                                        *)
(***************************************************************************)
EXTENDS MacroTable, FiniteSetTheorems, TLAPS

All(b, n) == UNION {b[i] : i \in 0 .. n - 1}

Placed(b, n) ==
  /\ n \in Nat \ {0}
  /\ b \in [0 .. n - 1 -> SUBSET Node]
  /\ \A i \in 0 .. n - 1 : \A node \in b[i] : Hash[node.name] % n = i

Unique(S) == \A m, n \in S : m.name = n.name => m = n

(* A node that points to freed memory has lost its value.                  *)
LostFirst(S) == \A node \in S : FreedBefore(node) => node.value \notin Values

TableInv ==
  /\ Placed(buckets, bucket_count)
  /\ Unique(Nodes)
  /\ IsFiniteSet(Nodes) /\ count = Cardinality(Nodes)
  /\ result \in {0, 1} /\ corrupted \in BOOLEAN
  /\ LostFirst(Nodes)
  /\ corrupted => \E node \in Nodes : FreedBefore(node)

(* The answers a set of nodes gives.                                       *)
NamesOf(S) == {node.name : node \in S}
Holder(S, name) == CHOOSE node \in S : node.name = name
View(S) == [name \in NamesOf(S) |-> Meaning(Holder(S, name))]

-----------------------------------------------------------------------------
(* Chains *)

LEMMA IndexInRange ==
  ASSUME NEW name \in Names, NEW n \in Nat \ {0}
  PROVE  Hash[name] % n \in 0 .. n - 1
<1>1. Hash[name] \in Nat
  BY HashAssumption
<1> QED BY <1>1

LEMMA NodeName ==
  ASSUME NEW node \in Node
  PROVE  node.name \in Names
BY DEF Node

(* A node of the table is in the chain of its name.                        *)
LEMMA WhereNodesAre ==
  ASSUME NEW b, NEW n, Placed(b, n), NEW node
  PROVE  /\ node \in All(b, n) <=> node \in Node /\ node \in b[Hash[node.name] % n]
         /\ \A i \in 0 .. n - 1 : node \in b[i] => node \in Node /\ i = Hash[node.name] % n
<1>1. ASSUME NEW i \in 0 .. n - 1, node \in b[i]
      PROVE  node \in Node /\ i = Hash[node.name] % n
  BY <1>1 DEF Placed
<1>2. ASSUME node \in Node
      PROVE  Hash[node.name] % n \in 0 .. n - 1
  BY <1>2, NodeName, IndexInRange DEF Placed
<1>3. node \in All(b, n) => \E i \in 0 .. n - 1 : node \in b[i]
  BY DEF All
<1>4. \A i \in 0 .. n - 1 : node \in b[i] => node \in All(b, n)
  BY DEF All
<1> QED BY <1>1, <1>2, <1>3, <1>4

(* Putting a node into its chain, in place of others there.                *)
ChainsWith(b, n, D, x) == [b EXCEPT ![Hash[x.name] % n] = (@ \ D) \union {x}]

LEMMA Put ==
  ASSUME NEW b, NEW n, Placed(b, n), NEW x \in Node, NEW D,
         D \subseteq b[Hash[x.name] % n]
  PROVE  /\ Placed(ChainsWith(b, n, D, x), n)
         /\ All(ChainsWith(b, n, D, x), n) = (All(b, n) \ D) \union {x}
<1> DEFINE k == Hash[x.name] % n
           c == [b EXCEPT ![k] = (@ \ D) \union {x}]
<1>1. k \in 0 .. n - 1
  BY NodeName, IndexInRange DEF Placed
<1>2. b \in [0 .. n - 1 -> SUBSET Node] /\ n \in Nat \ {0}
  BY DEF Placed
<1>3. /\ c \in [0 .. n - 1 -> SUBSET Node]
      /\ c[k] = (b[k] \ D) \union {x}
      /\ \A i \in 0 .. n - 1 : i # k => c[i] = b[i]
  BY <1>1, <1>2
<1>4. Placed(c, n)
  <2> SUFFICES ASSUME NEW i \in 0 .. n - 1, NEW node \in c[i]
               PROVE  Hash[node.name] % n = i
    BY <1>2, <1>3 DEF Placed
  <2>1. CASE node = x /\ i = k
    BY <2>1
  <2>2. CASE node \in b[i]
    BY <2>2 DEF Placed
  <2> QED BY <1>3, <2>1, <2>2
<1> HIDE DEF c, k
<1>5. ASSUME NEW node
      PROVE  node \in All(c, n) <=> node \in (All(b, n) \ D) \union {x}
  <2>1. node \in All(c, n) <=> \E i \in 0 .. n - 1 : node \in c[i]
    BY DEF All
  <2>2. node \in All(b, n) <=> \E i \in 0 .. n - 1 : node \in b[i]
    BY DEF All
  <2>3. \A i \in 0 .. n - 1 : node \in D /\ node \in b[i] => i = k
    <3>1. D \subseteq b[k]
      BY DEF k
    <3>2. \A i \in 0 .. n - 1 : node \in b[i] => i = Hash[node.name] % n
      BY WhereNodesAre
    <3> QED BY <1>1, <3>1, <3>2
  <2> QED BY <1>1, <1>3, <2>1, <2>2, <2>3
<1> QED BY <1>4, <1>5 DEF c, k, ChainsWith

(* Taking nodes out of a chain.                                            *)
ChainsWithout(b, k, D) == [b EXCEPT ![k] = @ \ D]

LEMMA Take ==
  ASSUME NEW b, NEW n, Placed(b, n), NEW k \in 0 .. n - 1, NEW D, D \subseteq b[k]
  PROVE  Placed(ChainsWithout(b, k, D), n) /\ All(ChainsWithout(b, k, D), n) = All(b, n) \ D
<1> DEFINE c == [b EXCEPT ![k] = @ \ D]
<1>2. b \in [0 .. n - 1 -> SUBSET Node] /\ n \in Nat \ {0}
  BY DEF Placed
<1>3. /\ c \in [0 .. n - 1 -> SUBSET Node]
      /\ c[k] = b[k] \ D
      /\ \A i \in 0 .. n - 1 : i # k => c[i] = b[i]
  BY <1>2
<1> HIDE DEF c
<1>4. Placed(c, n)
  BY <1>2, <1>3 DEF Placed
<1>5. ASSUME NEW node
      PROVE  node \in All(c, n) <=> node \in All(b, n) \ D
  <2>1. node \in All(c, n) <=> \E i \in 0 .. n - 1 : node \in c[i]
    BY DEF All
  <2>2. node \in All(b, n) <=> \E i \in 0 .. n - 1 : node \in b[i]
    BY DEF All
  <2>3. \A i \in 0 .. n - 1 : node \in D /\ node \in b[i] => i = k
    BY WhereNodesAre
  <2> QED BY <1>3, <2>1, <2>2, <2>3
<1> QED BY <1>4, <1>5 DEF c, ChainsWithout

(* Growing moves nodes, but neither loses nor doubles one.                 *)
LEMMA Grow ==
  ASSUME NEW b, NEW n, Placed(b, n)
  PROVE  Placed(Rehashed(b, n), 2 * n) /\ All(Rehashed(b, n), 2 * n) = All(b, n)
<1> DEFINE c == Rehashed(b, n)
           m == 2 * n
<1>1. n \in Nat \ {0} /\ m \in Nat \ {0}
  BY DEF Placed
<1>2. All(b, n) \subseteq Node
  BY WhereNodesAre
<1>3. c = [i \in 0 .. m - 1 |-> {node \in All(b, n) : Hash[node.name] % m = i}]
  BY DEF Rehashed, All
<1> HIDE DEF c, m
<1>4. Placed(c, m)
  BY <1>1, <1>2, <1>3 DEF Placed
<1>5. ASSUME NEW node
      PROVE  node \in All(c, m) <=> node \in All(b, n)
  <2>1. node \in All(c, m) <=> \E i \in 0 .. m - 1 : node \in c[i]
    BY DEF All
  <2>2. \A i \in 0 .. m - 1 : node \in c[i] <=> node \in All(b, n) /\ Hash[node.name] % m = i
    BY <1>3
  <2>3. node \in All(b, n) => Hash[node.name] % m \in 0 .. m - 1
    BY <1>1, <1>2, NodeName, IndexInRange
  <2> QED BY <2>1, <2>2, <2>3
<1> QED BY <1>4, <1>5 DEF c, m

-----------------------------------------------------------------------------
(* Searching *)

(* A search finds the node of that name in the table, if there is one.     *)
FoundIn(b, n, name) == {node \in b[Hash[name] % n] : node.name = name}
FindIn(b, n, name) == CHOOSE node \in FoundIn(b, n, name) : TRUE

LEMMA SearchingIn ==
  ASSUME NEW b, NEW n, Placed(b, n), Unique(All(b, n)), NEW name \in Names
  PROVE  /\ FoundIn(b, n, name) = {node \in All(b, n) : node.name = name}
         /\ Hash[name] % n \in 0 .. n - 1
         /\ FoundIn(b, n, name) # {} =>
              /\ FindIn(b, n, name) \in All(b, n) /\ FindIn(b, n, name) \in Node
              /\ FindIn(b, n, name).name = name
              /\ FindIn(b, n, name) = Holder(All(b, n), name)
              /\ FoundIn(b, n, name) = {FindIn(b, n, name)}
<1>2. Hash[name] % n \in 0 .. n - 1
  BY IndexInRange DEF Placed
<1>3. ASSUME NEW node
      PROVE  node \in FoundIn(b, n, name) <=> node \in All(b, n) /\ node.name = name
  <2>1. node \in All(b, n) <=> node \in Node /\ node \in b[Hash[node.name] % n]
    BY WhereNodesAre
  <2>2. node \in b[Hash[name] % n] => node \in Node
    BY <1>2, WhereNodesAre
  <2> QED BY <2>1, <2>2 DEF FoundIn
<1>4. FoundIn(b, n, name) = {node \in All(b, n) : node.name = name}
  BY <1>3
<1>5. ASSUME FoundIn(b, n, name) # {}
      PROVE  /\ FindIn(b, n, name) \in All(b, n) /\ FindIn(b, n, name) \in Node
             /\ FindIn(b, n, name).name = name
             /\ FindIn(b, n, name) = Holder(All(b, n), name)
             /\ FoundIn(b, n, name) = {FindIn(b, n, name)}
  <2> DEFINE found == FindIn(b, n, name)
  <2>1. found \in FoundIn(b, n, name)
    BY <1>5 DEF FindIn
  <2>2. found \in All(b, n) /\ found.name = name
    BY <1>3, <2>1
  <2>3. Holder(All(b, n), name) \in All(b, n) /\ Holder(All(b, n), name).name = name
    BY <2>2, Zenon DEF Holder
  <2>4. Holder(All(b, n), name) = found
    BY <2>2, <2>3 DEF Unique
  <2>5. \A node \in FoundIn(b, n, name) : node = found
    BY <1>3, <2>2 DEF Unique
  <2>6. found \in Node
    BY <2>2, WhereNodesAre
  <2> QED BY <2>1, <2>2, <2>4, <2>5, <2>6
<1> QED BY <1>2, <1>4, <1>5

LEMMA Searching ==
  ASSUME TableInv, NEW name \in Names
  PROVE  /\ Found(name) = {node \in Nodes : node.name = name}
         /\ Index(name) \in 0 .. bucket_count - 1
         /\ Found(name) \subseteq buckets[Index(name)]
         /\ Found(name) # {} => /\ Find(name) \in Nodes /\ Find(name) \in Node
                                /\ Find(name).name = name
                                /\ Find(name) = Holder(Nodes, name)
                                /\ Found(name) = {Find(name)}
<1>1. /\ Nodes = All(buckets, bucket_count) /\ Index(name) = Hash[name] % bucket_count
      /\ Found(name) = FoundIn(buckets, bucket_count, name)
      /\ Find(name) = FindIn(buckets, bucket_count, name)
  BY DEF Nodes, All, Index, Found, FoundIn, Find, FindIn
<1>2. Placed(buckets, bucket_count) /\ Unique(All(buckets, bucket_count))
  BY <1>1 DEF TableInv
<1>3. Found(name) \subseteq buckets[Index(name)]
  BY DEF Found
<1> QED BY <1>1, <1>2, <1>3, SearchingIn

LEMMA HolderIs ==
  ASSUME NEW S, Unique(S), NEW node \in S
  PROVE  Holder(S, node.name) = node
<1>1. Holder(S, node.name) \in S /\ Holder(S, node.name).name = node.name
  BY Zenon DEF Holder
<1> QED BY <1>1 DEF Unique

(* The answers of a table are those of its set of nodes.                   *)
LEMMA StoredIn ==
  ASSUME NEW b, NEW n, Placed(b, n), Unique(All(b, n))
  PROVE  [name \in {m \in Names : FoundIn(b, n, m) # {}} |-> Meaning(FindIn(b, n, name))]
           = View(All(b, n))
<1>1. {m \in Names : FoundIn(b, n, m) # {}} = NamesOf(All(b, n))
  <2>1. ASSUME NEW m \in Names, FoundIn(b, n, m) # {} PROVE m \in NamesOf(All(b, n))
    BY <2>1, SearchingIn DEF NamesOf
  <2>2. ASSUME NEW m \in NamesOf(All(b, n)) PROVE m \in Names /\ FoundIn(b, n, m) # {}
    <3>1. PICK node \in All(b, n) : node.name = m
      BY DEF NamesOf
    <3>2. node \in Node
      BY <3>1, WhereNodesAre
    <3> QED BY <3>1, <3>2, NodeName, SearchingIn
  <2> QED BY <2>1, <2>2
<1>2. \A m \in {q \in Names : FoundIn(b, n, q) # {}} : FindIn(b, n, m) = Holder(All(b, n), m)
  BY SearchingIn
<1> QED BY <1>1, <1>2 DEF View

LEMMA StoredIsView ==
  /\ TableInv => Stored = View(Nodes)
  /\ TableInv' => Stored' = View(Nodes')
<1>1. ASSUME TableInv PROVE Stored = View(Nodes)
  <2>1. Nodes = All(buckets, bucket_count)
    BY DEF Nodes, All
  <2>2. Stored = [name \in {m \in Names : FoundIn(buckets, bucket_count, m) # {}} |->
                    Meaning(FindIn(buckets, bucket_count, name))]
    BY DEF Stored, Found, Index, Find, FoundIn, FindIn
  <2> QED BY <1>1, <2>1, <2>2, StoredIn DEF TableInv
<1>2. ASSUME TableInv' PROVE Stored' = View(Nodes')
  <2>1. Nodes' = All(buckets', bucket_count')
    BY DEF Nodes, All
  <2>2. Stored' = [name \in {m \in Names : FoundIn(buckets', bucket_count', m) # {}} |->
                     Meaning(FindIn(buckets', bucket_count', name))]
    BY DEF Stored, Found, Index, Find, FoundIn, FindIn, Meaning
  <2> QED BY <1>2, <2>1, <2>2, StoredIn DEF TableInv, Placed, Unique
<1> QED BY <1>1, <1>2

(* What putting a node in place of the one of its name does to the answers *)
With(S, x) == (S \ {node \in S : node.name = x.name}) \union {x}
ViewWith(S, x) == [m \in NamesOf(S) \union {x.name} |-> IF m = x.name THEN Meaning(x) ELSE View(S)[m]]

LEMMA ViewPut ==
  ASSUME NEW S, Unique(S), NEW x
  PROVE  Unique(With(S, x)) /\ View(With(S, x)) = ViewWith(S, x)
<1> DEFINE T == With(S, x)
<1>1. Unique(T)
  BY DEF Unique, With
<1>2. NamesOf(T) = NamesOf(S) \union {x.name}
  BY DEF NamesOf, With
<1>3. Holder(T, x.name) = x
  BY <1>1, HolderIs DEF With
<1>4. ASSUME NEW m \in NamesOf(S), m # x.name
      PROVE  Holder(T, m) = Holder(S, m)
  <2>1. PICK node \in S : node.name = m
    BY DEF NamesOf
  <2>2. node \in T
    BY <1>4, <2>1 DEF With
  <2> QED BY <1>1, <2>1, <2>2, HolderIs
<1> HIDE DEF T
<1>5. View(T) = ViewWith(S, x)
  BY <1>2, <1>3, <1>4 DEF View, ViewWith
<1> QED BY <1>1, <1>5 DEF T

(* And what taking the node of a name does.                                *)
Without(S, name) == S \ {node \in S : node.name = name}
ViewWithout(S, name) == [m \in NamesOf(S) \ {name} |-> View(S)[m]]

LEMMA ViewTake ==
  ASSUME NEW S, Unique(S), NEW name
  PROVE  Unique(Without(S, name)) /\ View(Without(S, name)) = ViewWithout(S, name)
<1> DEFINE T == Without(S, name)
<1>1. Unique(T)
  BY DEF Unique, Without
<1>2. NamesOf(T) = NamesOf(S) \ {name}
  BY DEF NamesOf, Without
<1>3. ASSUME NEW m \in NamesOf(S) \ {name}
      PROVE  Holder(T, m) = Holder(S, m)
  <2>1. PICK node \in S : node.name = m
    BY DEF NamesOf
  <2>2. node \in T
    BY <2>1 DEF Without
  <2> QED BY <1>1, <2>1, <2>2, HolderIs
<1> HIDE DEF T
<1>4. View(T) = ViewWithout(S, name)
  BY <1>2, <1>3 DEF View, ViewWithout
<1> QED BY <1>1, <1>4 DEF T

-----------------------------------------------------------------------------
(* Steps.  Three lemmas say what remains to be shown of a step that puts,  *)
(* takes or keeps nodes: nothing of the shape of the table.                *)

LEMMA Putting ==
  ASSUME TableInv, NEW x \in Node, result' \in {0, 1}, corrupted' = FALSE,
         FreedBefore(x) => x.value \notin Values,
         count' = IF Found(x.name) = {} THEN count + 1 ELSE count,
         Placed(buckets', bucket_count'),
         Nodes' = (Nodes \ {node \in Nodes : node.name = x.name}) \union {x}
  PROVE  TableInv' /\ Stored' = Map!Entered(x.name, Meaning(x))
<1> DEFINE same == {node \in Nodes : node.name = x.name}
           others == Nodes \ same
<1>1. x.name \in Names /\ Found(x.name) = same
  BY NodeName, Searching
<1>2. Unique(Nodes) /\ IsFiniteSet(Nodes) /\ count = Cardinality(Nodes) /\ LostFirst(Nodes)
  BY DEF TableInv
<1>3. Unique(Nodes')
  BY <1>2 DEF Unique
<1>4. IsFiniteSet(others) /\ x \notin others
      /\ Cardinality(others) = IF same = {} THEN count ELSE count - 1
  <2>1. CASE same = {}
    <3>1. others = Nodes
      BY <2>1
    <3> QED BY <1>2, <2>1, <3>1
  <2>2. CASE same # {}
    <3>1. Find(x.name) \in Nodes /\ same = {Find(x.name)}
      BY <1>1, <2>2, Searching
    <3>2. others = Nodes \ {Find(x.name)}
      BY <3>1
    <3>3. IsFiniteSet(others) /\ Cardinality(others) = Cardinality(Nodes) - 1
      BY <1>2, <3>1, <3>2, FS_RemoveElement
    <3> QED BY <1>2, <2>2, <3>3
  <2> QED BY <2>1, <2>2
<1>5. Nodes' = others \union {x}
  OBVIOUS
<1>6. IsFiniteSet(Nodes') /\ Cardinality(Nodes') = Cardinality(others) + 1
  <2> HIDE DEF others
  <2>1. /\ IsFiniteSet(others \union {x})
        /\ Cardinality(others \union {x})
             = IF x \in others THEN Cardinality(others) ELSE Cardinality(others) + 1
    BY <1>4, FS_AddElement, Zenon
  <2>2. Nodes' = others \union {x}
    BY <1>5
  <2> QED BY <1>4, <2>1, <2>2
<1>7. Cardinality(Nodes) \in Nat
  BY <1>2, FS_CardinalityType
<1>8. count' = Cardinality(Nodes')
  BY <1>1, <1>2, <1>4, <1>6, <1>7
<1>9. LostFirst(Nodes')
  BY <1>2 DEF LostFirst, FreedBefore
<1>10. TableInv'
  BY <1>3, <1>6, <1>8, <1>9 DEF TableInv
<1>11. Stored = View(Nodes) /\ Stored' = View(Nodes')
  BY <1>10, StoredIsView
<1>12. DOMAIN Stored = NamesOf(Nodes)
  BY <1>11 DEF View
<1>13. View(Nodes') = ViewWith(Nodes, x)
  <2>1. Nodes' = With(Nodes, x)
    BY DEF With
  <2> QED BY <1>2, <2>1, ViewPut, Zenon
<1>14. Stored' = Map!Entered(x.name, Meaning(x))
  BY <1>11, <1>12, <1>13 DEF ViewWith, Map!Entered
<1> QED BY <1>10, <1>14

LEMMA Taking ==
  ASSUME TableInv, NEW name \in Names, Found(name) # {}, result' \in {0, 1}, corrupted' = FALSE,
         count' = count - 1,
         Placed(buckets', bucket_count'),
         Nodes' = Nodes \ {node \in Nodes : node.name = name}
  PROVE  /\ TableInv'
         /\ name \in DOMAIN Stored
         /\ Stored' = [m \in DOMAIN Stored \ {name} |-> Stored[m]]
<1> DEFINE old == Find(name)
<1>1. old \in Nodes /\ old.name = name /\ Nodes' = Nodes \ {old}
  BY Searching
<1>2. Unique(Nodes) /\ IsFiniteSet(Nodes) /\ count = Cardinality(Nodes) /\ LostFirst(Nodes)
  BY DEF TableInv
<1>3. IsFiniteSet(Nodes') /\ count' = Cardinality(Nodes')
  <2> HIDE DEF old
  <2>1. IsFiniteSet(Nodes \ {old}) /\ Cardinality(Nodes \ {old}) = Cardinality(Nodes) - 1
    BY <1>1, <1>2, FS_RemoveElement
  <2> QED BY <1>1, <1>2, <2>1
<1>4. Unique(Nodes') /\ View(Nodes') = ViewWithout(Nodes, name)
  <2>1. Nodes' = Without(Nodes, name)
    BY DEF Without
  <2> QED BY <1>2, <2>1, ViewTake, Zenon
<1>5. LostFirst(Nodes')
  BY <1>1, <1>2 DEF LostFirst, FreedBefore
<1>6. TableInv'
  BY <1>3, <1>4, <1>5 DEF TableInv
<1>7. Stored = View(Nodes) /\ Stored' = View(Nodes')
  BY <1>6, StoredIsView
<1>8. DOMAIN Stored = NamesOf(Nodes) /\ name \in NamesOf(Nodes)
  BY <1>1, <1>7 DEF View, NamesOf
<1> QED BY <1>4, <1>6, <1>7, <1>8 DEF ViewWithout

(* A step that leaves the table alone.                                     *)
LEMMA Keeping ==
  ASSUME TableInv, UNCHANGED table, result' \in {0, 1}, corrupted' \in BOOLEAN,
         corrupted' => \E node \in Nodes : FreedBefore(node)
  PROVE  TableInv' /\ Stored' = Stored
<1>1. buckets' = buckets /\ bucket_count' = bucket_count /\ count' = count
  BY DEF table
<1>2. Nodes' = Nodes
  BY <1>1 DEF Nodes
<1>3. TableInv'
  BY <1>1, <1>2 DEF TableInv, LostFirst, FreedBefore
<1>4. Stored = View(Nodes) /\ Stored' = View(Nodes')
  BY <1>3, StoredIsView
<1> QED BY <1>2, <1>3, <1>4

-----------------------------------------------------------------------------
(* Operations *)

(* What a node is made of can be told again.                               *)
LEMMA NodeOfDefinition ==
  ASSUME NEW name \in Names, NEW d \in Definition
  PROVE  /\ NodeOf(name, d) \in Node /\ NodeOf(name, d).name = name
         /\ ~FreedBefore(NodeOf(name, d))
         /\ Meaning(NodeOf(name, d)) = d
<1>1. /\ d \in [value : Values, has_parameters : BOOLEAN, param_names : ParamLists \union {NULL}]
      /\ d.value \in Values /\ d.has_parameters \in BOOLEAN /\ d.param_names \in ParamLists \union {NULL}
  BY DEF Definition
<1>2. d.value # Freed /\ d.param_names # Freed
  BY <1>1, PointersAssumption
<1>3. d = [value |-> d.value, has_parameters |-> d.has_parameters, param_names |-> d.param_names]
  BY <1>1
<1> QED BY <1>1, <1>2, <1>3 DEF NodeOf, Node, FreedBefore, Meaning

(* A node with another content, after a failed update.                     *)
LEMMA NodeBroken ==
  ASSUME NEW old \in Node, NEW p \in ParamLists \union {NULL, Freed}, NEW q \in {NULL, Freed},
         NEW node, node = [old EXCEPT !.value = q, !.param_names = p]
  PROVE  node \in Node /\ node.name = old.name /\ node.value \notin Values /\ Meaning(node) = Lost
<1>1. node \in Node /\ node.name = old.name /\ node.value = q
  BY DEF Node
<1>2. q \notin Values
  BY PointersAssumption
<1> QED BY <1>1, <1>2 DEF Meaning

LEMMA Replacing ==
  ASSUME TableInv, NEW name \in Names, NEW node \in Node, node.name = name,
         Replaced(name, node), bucket_count' = bucket_count
  PROVE  /\ Placed(buckets', bucket_count')
         /\ Nodes' = (Nodes \ {m \in Nodes : m.name = node.name}) \union {node}
<1>1. Placed(buckets, bucket_count) /\ Found(name) \subseteq buckets[Index(name)]
      /\ Found(name) = {m \in Nodes : m.name = node.name}
  BY Searching DEF TableInv
<1>2. buckets' = ChainsWith(buckets, bucket_count, Found(name), node)
  BY DEF Replaced, Index, ChainsWith
<1>3. Found(name) \subseteq buckets[Hash[node.name] % bucket_count]
  BY <1>1 DEF Index
<1>4. Placed(buckets', bucket_count)
      /\ All(buckets', bucket_count) = (All(buckets, bucket_count) \ Found(name)) \union {node}
  <2>1. /\ Placed(ChainsWith(buckets, bucket_count, Found(name), node), bucket_count)
        /\ All(ChainsWith(buckets, bucket_count, Found(name), node), bucket_count)
             = (All(buckets, bucket_count) \ Found(name)) \union {node}
    BY ONLY <1>1, <1>3, node \in Node, Put
  <2> QED BY ONLY <1>2, <2>1
<1>5. Nodes = All(buckets, bucket_count) /\ Nodes' = All(buckets', bucket_count)
  BY DEF Nodes, All
<1> QED BY <1>1, <1>4, <1>5

LEMMA Inserting ==
  ASSUME TableInv, corrupted = FALSE, NEW name \in Names, NEW d \in Definition, Insert(name, d)
  PROVE  TableInv' /\ Map!Add(name, d)
<1> DEFINE x == NodeOf(name, d)
           chains == [buckets EXCEPT ![Index(name)] = @ \union {x}]
<1>1. x \in Node /\ x.name = name /\ ~FreedBefore(x) /\ Meaning(x) = d
  BY NodeOfDefinition
<1> HIDE DEF x
<1>2. Found(x.name) = {} /\ {m \in Nodes : m.name = x.name} = {}
  BY <1>1, Searching DEF Insert
<1>3. Placed(chains, bucket_count) /\ All(chains, bucket_count) = Nodes \union {x}
  <2>1. chains = ChainsWith(buckets, bucket_count, {}, x)
    BY <1>1 DEF Index, ChainsWith
  <2>2. Placed(buckets, bucket_count) /\ Nodes = All(buckets, bucket_count)
    BY DEF TableInv, Nodes, All
  <2>3. {} \subseteq buckets[Hash[x.name] % bucket_count]
    OBVIOUS
  <2> HIDE DEF chains
  <2>4. Placed(chains, bucket_count) /\ All(chains, bucket_count) = (All(buckets, bucket_count) \ {}) \union {x}
    <3>1. /\ Placed(ChainsWith(buckets, bucket_count, {}, x), bucket_count)
          /\ All(ChainsWith(buckets, bucket_count, {}, x), bucket_count) = (All(buckets, bucket_count) \ {}) \union {x}
      BY ONLY <1>1, <2>2, <2>3, Put
    <3> QED BY ONLY <2>1, <3>1
  <2> QED BY <2>2, <2>4
<1>4. /\ \/ buckets' = Rehashed(chains, bucket_count) /\ bucket_count' = 2 * bucket_count
         \/ buckets' = chains /\ bucket_count' = bucket_count
      /\ count' = count + 1 /\ result' = 1 /\ corrupted' = FALSE
  BY DEF Insert, x
<1> HIDE DEF chains
<1>5. Placed(buckets', bucket_count') /\ All(buckets', bucket_count') = Nodes \union {x}
  BY <1>3, <1>4, Grow
<1>6. Nodes' = All(buckets', bucket_count')
  BY DEF Nodes, All
<1>7. Nodes' = (Nodes \ {m \in Nodes : m.name = x.name}) \union {x}
  BY <1>2, <1>5, <1>6
<1>8. TableInv' /\ Stored' = Map!Entered(x.name, Meaning(x))
  BY <1>1, <1>2, <1>4, <1>5, <1>7, Putting
<1> QED BY <1>1, <1>4, <1>8 DEF Map!Add

LEMMA Updating ==
  ASSUME TableInv, corrupted = FALSE, NEW name \in Names, NEW d \in Definition, Update(name, d)
  PROVE  TableInv' /\ (Map!Add(name, d) \/ UNCHANGED <<Stored, result>>)
<1>1. CASE FreedBefore(Find(name)) /\ Corrupt
  <2>1. Find(name) \in Nodes
    BY Searching DEF Update
  <2>2. UNCHANGED table /\ result' = result /\ result' \in {0, 1} /\ corrupted' = TRUE
    BY <1>1 DEF Corrupt, TableInv
  <2> QED BY <1>1, <2>1, <2>2, Keeping
<1>2. CASE /\ Replaced(name, NodeOf(name, d)) /\ result' = 1
           /\ UNCHANGED <<bucket_count, count, corrupted>>
  <2> DEFINE x == NodeOf(name, d)
  <2>1. x \in Node /\ x.name = name /\ ~FreedBefore(x) /\ Meaning(x) = d
    BY NodeOfDefinition
  <2>2. Replaced(name, x)
    BY <1>2
  <2> HIDE DEF x
  <2>3. Placed(buckets', bucket_count') /\ Nodes' = (Nodes \ {m \in Nodes : m.name = x.name}) \union {x}
    BY <1>2, <2>1, <2>2, Replacing
  <2>4. Found(x.name) # {}
    BY <2>1 DEF Update
  <2>5. TableInv' /\ Stored' = Map!Entered(x.name, Meaning(x))
    BY <1>2, <2>1, <2>3, <2>4, Putting
  <2> QED BY <1>2, <2>1, <2>5 DEF Map!Add
<1> QED BY <1>1, <1>2 DEF Update

LEMMA UpdatingFails ==
  ASSUME TableInv, corrupted = FALSE, NEW name \in Names, NEW d \in Definition, UpdateFails(name, d)
  PROVE  TableInv' /\ Map!AddFails(name)
<1> DEFINE old == Find(name)
<1>1. old \in Node /\ old.name = name /\ old \in Nodes /\ ~FreedBefore(old) /\ Found(name) # {}
  BY Searching DEF UpdateFails
<1>2. ASSUME NEW x \in Node, x.name = name, x.value \notin Values, Meaning(x) = Lost, Replaced(name, x)
      PROVE  TableInv' /\ Map!AddFails(name)
  <2>1. result' = 0 /\ bucket_count' = bucket_count /\ count' = count /\ corrupted' = FALSE
    BY DEF UpdateFails
  <2>2. Placed(buckets', bucket_count') /\ Nodes' = (Nodes \ {m \in Nodes : m.name = x.name}) \union {x}
    BY <1>2, <2>1, Replacing
  <2>3. Found(x.name) # {}
    BY <1>1, <1>2
  <2>4. TableInv' /\ Stored' = Map!Entered(x.name, Meaning(x))
    BY <1>2, <2>1, <2>2, <2>3, Putting
  <2>5. name \in DOMAIN Stored
    BY <1>1 DEF Stored
  <2> QED BY <1>2, <2>1, <2>4, <2>5 DEF Map!AddFails
<1> DEFINE first == [old EXCEPT !.value = NULL,
                                !.param_names = IF old.has_parameters /\ @ # NULL THEN Freed ELSE @]
           second == [NodeOf(name, d) EXCEPT !.value = Freed, !.param_names = NULL]
<1>3. CASE Replaced(name, first)
  <2> DEFINE p == IF old.has_parameters /\ old.param_names # NULL THEN Freed ELSE old.param_names
  <2>1. first = [old EXCEPT !.value = NULL, !.param_names = p]
    OBVIOUS
  <2>2. p \in ParamLists \union {NULL, Freed}
    BY <1>1 DEF Node
  <2> HIDE DEF old, first, p
  <2>3. first \in Node /\ first.name = name /\ first.value \notin Values /\ Meaning(first) = Lost
    BY <1>1, <2>1, <2>2, NodeBroken
  <2> QED BY <1>2, <1>3, <2>3
<1>4. CASE Replaced(name, second)
  <2> HIDE DEF old
  <2>1. second \in Node /\ second.name = name /\ second.value \notin Values /\ Meaning(second) = Lost
    <3> DEFINE base == NodeOf(name, d)
    <3>1. base \in Node /\ base.name = name
      BY NodeOfDefinition
    <3>2. second = [base EXCEPT !.value = Freed, !.param_names = NULL]
      OBVIOUS
    <3> HIDE DEF base, second
    <3> QED BY <3>1, <3>2, NodeBroken
  <2> QED BY <1>2, <1>4, <2>1
<1> QED BY <1>3, <1>4 DEF UpdateFails

LEMMA Adding ==
  ASSUME TableInv, NEW name \in Names, NEW d \in Definition, macro_table_add(name, d)
  PROVE  TableInv' /\ (Map!Add(name, d) \/ Map!AddFails(name) \/ UNCHANGED <<Stored, result>>)
<1>1. corrupted = FALSE
  BY DEF macro_table_add, TableInv
<1>2. CASE InsertFails(name)
  <2>1. UNCHANGED table /\ result' = 0 /\ corrupted' = FALSE
    BY <1>1, <1>2 DEF InsertFails
  <2>2. TableInv' /\ Stored' = Stored
    BY <2>1, Keeping
  <2> QED BY <2>1, <2>2 DEF Map!AddFails
<1>3. CASE Insert(name, d)
  BY <1>1, <1>3, Inserting
<1>4. CASE Update(name, d)
  BY <1>1, <1>4, Updating
<1>5. CASE UpdateFails(name, d)
  BY <1>1, <1>5, UpdatingFails
<1> QED BY <1>2, <1>3, <1>4, <1>5 DEF macro_table_add

LEMMA Removing ==
  ASSUME TableInv, NEW name \in Names, macro_table_remove(name)
  PROVE  TableInv' /\ (Map!Remove(name) \/ UNCHANGED <<Stored, result>>)
<1>1. corrupted = FALSE
  BY DEF macro_table_remove, TableInv
<1>2. CASE Found(name) # {} /\ FreedBefore(Find(name)) /\ Corrupt
  <2>1. Find(name) \in Nodes
    BY <1>2, Searching
  <2>2. UNCHANGED table /\ result' = result /\ result' \in {0, 1} /\ corrupted' = TRUE
    BY <1>2 DEF Corrupt, TableInv
  <2> QED BY <1>2, <2>1, <2>2, Keeping
<1>3. CASE /\ Found(name) # {}
           /\ buckets' = [buckets EXCEPT ![Index(name)] = @ \ Found(name)]
           /\ count' = count - 1 /\ result' = 1
           /\ UNCHANGED <<bucket_count, corrupted>>
  <2>1. Placed(buckets, bucket_count) /\ Index(name) \in 0 .. bucket_count - 1
        /\ Found(name) \subseteq buckets[Index(name)] /\ Found(name) = {node \in Nodes : node.name = name}
    BY Searching DEF TableInv
  <2>2. Nodes = All(buckets, bucket_count) /\ Nodes' = All(buckets', bucket_count)
    BY <1>3 DEF Nodes, All
  <2>3. Placed(buckets', bucket_count) /\ All(buckets', bucket_count) = All(buckets, bucket_count) \ Found(name)
    <3>1. buckets' = ChainsWithout(buckets, Index(name), Found(name))
      BY <1>3 DEF ChainsWithout
    <3>2. /\ Placed(ChainsWithout(buckets, Index(name), Found(name)), bucket_count)
          /\ All(ChainsWithout(buckets, Index(name), Found(name)), bucket_count)
               = All(buckets, bucket_count) \ Found(name)
      BY ONLY <2>1, Take
    <3> QED BY ONLY <3>1, <3>2
  <2>4. Placed(buckets', bucket_count') /\ Nodes' = Nodes \ {node \in Nodes : node.name = name}
    BY <1>3, <2>1, <2>2, <2>3
  <2>5. TableInv' /\ name \in DOMAIN Stored /\ Stored' = [m \in DOMAIN Stored \ {name} |-> Stored[m]]
    BY <1>1, <1>3, <2>4, Taking
  <2> QED BY <1>3, <2>5 DEF Map!Remove
<1>4. CASE Found(name) = {} /\ result' = 0 /\ UNCHANGED <<table, corrupted>>
  <2>1. TableInv' /\ Stored' = Stored
    BY <1>1, <1>4, Keeping
  <2>2. name \notin DOMAIN Stored
    BY <1>4 DEF Stored
  <2>3. Stored = [m \in DOMAIN Stored |-> Stored[m]] /\ DOMAIN Stored \ {name} = DOMAIN Stored
    BY <2>2 DEF Stored
  <2> QED BY <1>4, <2>1, <2>2, <2>3 DEF Map!Remove
<1> QED BY <1>2, <1>3, <1>4 DEF macro_table_remove

(* A new table is empty.                                                   *)
LEMMA NewTable ==
  /\ Placed(macro_table_create, InitialBuckets)
  /\ All(macro_table_create, InitialBuckets) = {}
  /\ View({}) = [name \in {} |-> Lost]
BY BucketsAssumption DEF macro_table_create, Placed, All, View, NamesOf

LEMMA Destroying ==
  ASSUME TableInv, macro_table_destroy
  PROVE  TableInv' /\ (Map!Renew \/ UNCHANGED <<Stored, result>>)
<1>1. corrupted = FALSE
  BY DEF macro_table_destroy, TableInv
<1>2. CASE (\E node \in Nodes : FreedBefore(node)) /\ Corrupt
  <2>1. UNCHANGED table /\ result' = result /\ result' \in {0, 1} /\ corrupted' = TRUE
    BY <1>2 DEF Corrupt, TableInv
  <2> QED BY <1>2, <2>1, Keeping
<1>3. CASE /\ buckets' = macro_table_create /\ bucket_count' = InitialBuckets /\ count' = 0
           /\ result' = 1 /\ UNCHANGED corrupted
  <2>1. Nodes' = {} /\ Placed(buckets', bucket_count')
    BY <1>3, NewTable DEF Nodes, All
  <2>2. Unique({}) /\ LostFirst({}) /\ IsFiniteSet({}) /\ Cardinality({}) = 0
    BY FS_EmptySet DEF Unique, LostFirst
  <2>3. TableInv'
    BY <1>1, <1>3, <2>1, <2>2 DEF TableInv, LostFirst, FreedBefore
  <2>4. Stored' = [name \in {} |-> Lost]
    BY <2>1, <2>3, StoredIsView, NewTable
  <2> QED BY <1>3, <2>3, <2>4 DEF Map!Renew
<1> QED BY <1>2, <1>3 DEF macro_table_destroy

LEMMA Start ==
  Init => TableInv /\ Map!Init
<1> SUFFICES ASSUME Init PROVE TableInv /\ Map!Init
  OBVIOUS
<1>1. Nodes = {} /\ Placed(buckets, bucket_count)
  BY NewTable DEF Init, Nodes, All
<1>2. Unique({}) /\ LostFirst({}) /\ IsFiniteSet({}) /\ Cardinality({}) = 0
  BY FS_EmptySet DEF Unique, LostFirst
<1>3. TableInv
  BY <1>1, <1>2 DEF Init, TableInv
<1>4. Stored = [name \in {} |-> Lost]
  BY <1>1, <1>3, StoredIsView, NewTable
<1> QED BY <1>3, <1>4 DEF Init, Map!Init

LEMMA Step ==
  TableInv /\ [Next]_vars => TableInv' /\ [Map!Next]_<<Stored, result>>
<1> SUFFICES ASSUME TableInv, [Next]_vars
             PROVE  TableInv' /\ [Map!Next]_<<Stored, result>>
  OBVIOUS
<1>1. CASE UNCHANGED vars
  <2>1. UNCHANGED table /\ result' = result /\ corrupted' = corrupted
        /\ result' \in {0, 1} /\ corrupted' \in BOOLEAN
    BY <1>1 DEF vars, TableInv
  <2>2. corrupted' => \E node \in Nodes : FreedBefore(node)
    BY <2>1 DEF TableInv
  <2> QED BY <2>1, <2>2, Keeping
<1>2. ASSUME NEW name \in Names, NEW d \in Definition, macro_table_add(name, d)
      PROVE  TableInv' /\ [Map!Next]_<<Stored, result>>
  BY <1>2, Adding DEF Map!Next
<1>3. ASSUME NEW name \in Names, macro_table_remove(name)
      PROVE  TableInv' /\ [Map!Next]_<<Stored, result>>
  BY <1>3, Removing DEF Map!Next
<1>4. CASE macro_table_destroy
  BY <1>4, Destroying DEF Map!Next
<1> QED BY <1>1, <1>2, <1>3, <1>4 DEF Next

LEMMA WhatItMeans ==
  TableInv => TableOK /\ FreedOnce
<1> SUFFICES ASSUME TableInv PROVE TableOK /\ FreedOnce
  OBVIOUS
<1>1. ASSUME NEW i \in 0 .. bucket_count - 1, NEW m \in buckets[i]
      PROVE  m \in Nodes
  BY <1>1 DEF Nodes
<1>2. TableOK
  BY <1>1 DEF TableInv, Placed, Unique, TableOK
<1>3. ASSUME corrupted PROVE \E name \in DOMAIN Stored : Stored[name] = Lost
  <2>1. PICK node \in Nodes : FreedBefore(node)
    BY <1>3 DEF TableInv
  <2>2. Meaning(node) = Lost
    BY <2>1 DEF TableInv, LostFirst, Meaning
  <2>3. Holder(Nodes, node.name) = node
    BY <2>1, HolderIs DEF TableInv
  <2>4. node.name \in NamesOf(Nodes)
    BY <2>1 DEF NamesOf
  <2>5. Stored = View(Nodes)
    BY StoredIsView
  <2> QED BY <2>2, <2>3, <2>4, <2>5 DEF View
<1> QED BY <1>2, <1>3 DEF FreedOnce

-----------------------------------------------------------------------------
(* Theorems *)

(* Whatever the names, their hashes and the order of the operations, the   *)
(* table keeps its shape and its count, and the heap is corrupted only     *)
(* while a macro that a failed update lost is in the table.                *)
THEOREM TableCorrect == Spec => [](TableOK /\ FreedOnce)
<1>1. Spec => []TableInv
  BY Start, Step, PTL DEF Spec
<1> QED BY <1>1, WhatItMeans, PTL

(* The table implements the partial function of its header.                *)
THEOREM Refinement == Spec => ImplementsMap
BY Start, Step, PTL DEF Spec, ImplementsMap, Map!Spec
=============================================================================
