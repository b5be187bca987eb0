------------------------- MODULE RecursiveFunctions -------------------------
(***************************************************************************)
(* A recursive function is, to a prover, one that is chosen among those    *)
(* that satisfy its equation. These are the facts that say that there is   *)
(* one, for the functions by which the modules say what a loop or a        *)
(* recursion of the code computes: where every value depends on values of  *)
(* a lower rank only, the equation has a solution.                         *)
(***************************************************************************)
EXTENDS Integers, TLAPS, WellFoundedInduction

(* A nonempty set of numbers has a least one.                              *)
LEMMA LeastNumber ==
  ASSUME NEW set, set \subseteq Nat, set # {}
  PROVE  \E m \in set : \A n \in set : m <= n
<1>1. PICK m \in set : \A n \in set : ~ (<<n, m>> \in OpToRel(<, Nat))
  BY NatLessThanWellFounded, WFMin
<1>2. \A n \in set : ~(n < m)
  BY <1>1 DEF OpToRel
<1> QED BY <1>2

(* The value at x, H[x][f] where f has the others, follows from those of a *)
(* lower rank.                                                             *)
DependsBelow(D, V, rank, H) ==
  /\ rank \in [D -> Nat]
  /\ H \in [D -> [[D -> V] -> V]]
  /\ \A x \in D : \A f, g \in [D -> V] :
       (\A y \in D : rank[y] < rank[x] => f[y] = g[y]) => H[x][f] = H[x][g]

(* The equation holds for the arguments of a rank below n.                 *)
SolvesTo(D, V, rank, H, n, f) ==
  f \in [D -> V] /\ \A x \in D : rank[x] < n => f[x] = H[x][f]

(* Two solutions are the same as far as both go.                           *)
SolutionsMeet(D, V, rank, H) ==
  \A n, m \in Nat : \A f, g :
    n <= m /\ SolvesTo(D, V, rank, H, n, f) /\ SolvesTo(D, V, rank, H, m, g)
      => \A x \in D : rank[x] < n => f[x] = g[x]

LEMMA SolutionsAgree ==
  ASSUME NEW D, NEW V, NEW rank, NEW H, DependsBelow(D, V, rank, H)
  PROVE  SolutionsMeet(D, V, rank, H)
<1>0. rank \in [D -> Nat]
  BY DEF DependsBelow
<1> SUFFICES ASSUME NEW n \in Nat, NEW m \in Nat, NEW f, NEW g, n <= m,
                    SolvesTo(D, V, rank, H, n, f), SolvesTo(D, V, rank, H, m, g)
             PROVE  \A x \in D : rank[x] < n => f[x] = g[x]
  BY DEF SolutionsMeet
<1> USE <1>0
<1> DEFINE differing == {y \in D : rank[y] < n /\ f[y] # g[y]}
           differ == {rank[x] : x \in differing}
<1> SUFFICES ASSUME differing # {} PROVE FALSE
  OBVIOUS
<1>1. differ \subseteq Nat /\ differ # {}
  <2>1. \A y \in differing : rank[y] \in Nat
    OBVIOUS
  <2>2. differ \subseteq Nat
    BY <2>1
  <2>3. PICK y : y \in differing
    OBVIOUS
  <2>4. rank[y] \in differ
    BY <2>3
  <2> QED BY <2>2, <2>4
<1>2. PICK r \in differ : \A s \in differ : r <= s
  <2> HIDE DEF differ
  <2> QED BY <1>1, LeastNumber
<1>3. PICK x \in D : rank[x] = r /\ rank[x] < n /\ f[x] # g[x]
  <2>1. r \in differ
    BY <1>2
  <2> QED BY <2>1
<1>4. ASSUME NEW y \in D, rank[y] < rank[x], f[y] # g[y]
      PROVE  FALSE
  <2>1. rank[y] \in Nat /\ rank[x] \in Nat /\ rank[y] < n
    BY <1>3, <1>4
  <2>2. rank[y] \in differ
    BY <1>4, <2>1
  <2>3. r <= rank[y]
    BY <1>2, <2>2
  <2> HIDE DEF differ
  <2> QED BY <1>3, <1>4, <2>1, <2>3
<1>5. f \in [D -> V] /\ g \in [D -> V]
  BY DEF SolvesTo
<1>6. H[x][f] = H[x][g]
  <2>1. \A y \in D : rank[y] < rank[x] => f[y] = g[y]
    BY <1>4, Zenon
  <2> QED BY <1>3, <1>5, <2>1, Zenon DEF DependsBelow
<1>7. f[x] = H[x][f] /\ g[x] = H[x][g]
  BY <1>3 DEF SolvesTo
<1> QED BY <1>3, <1>6, <1>7

LEMMA SolutionTo ==
  ASSUME NEW D, NEW V, NEW rank, NEW H, DependsBelow(D, V, rank, H), NEW v \in V, NEW n \in Nat
  PROVE  \E f : SolvesTo(D, V, rank, H, n, f)
<1>0. rank \in [D -> Nat] /\ H \in [D -> [[D -> V] -> V]]
  BY DEF DependsBelow
<1> USE <1>0
<1> DEFINE unsolved == {k \in Nat : ~ \E f : SolvesTo(D, V, rank, H, k, f)}
<1> SUFFICES ASSUME unsolved # {} PROVE FALSE
  OBVIOUS
<1>1. PICK k \in unsolved : \A j \in unsolved : k <= j
  <2>1. unsolved \subseteq Nat
    OBVIOUS
  <2> HIDE DEF unsolved
  <2> QED BY <2>1, LeastNumber
<1>2. k # 0
  <2>1. SolvesTo(D, V, rank, H, 0, [x \in D |-> v])
    BY DEF SolvesTo
  <2> QED BY <1>1, <2>1
<1>3. k - 1 \in Nat /\ k \in Nat
  BY <1>1, <1>2
<1>4. PICK f : SolvesTo(D, V, rank, H, k - 1, f)
  BY <1>1, <1>3
<1> DEFINE g == [x \in D |-> IF rank[x] = k - 1 THEN H[x][f] ELSE f[x]]
<1>5. f \in [D -> V] /\ g \in [D -> V]
  BY <1>4 DEF SolvesTo
<1>6. \A y \in D : rank[y] < k - 1 => f[y] = g[y]
  OBVIOUS
<1>7. ASSUME NEW x \in D, rank[x] < k
      PROVE  g[x] = H[x][g]
  <2>1. g[x] = H[x][f]
    <3>1. CASE rank[x] = k - 1
      BY <3>1
    <3>2. CASE rank[x] < k - 1
      BY <1>3, <1>4, <3>2 DEF SolvesTo
    <3>3. rank[x] \in Nat
      OBVIOUS
    <3>4. rank[x] = k - 1 \/ rank[x] < k - 1
      <4> DEFINE r == rank[x]
      <4>1. r \in Nat /\ r < k
        BY <1>7
      <4> HIDE DEF r
      <4>2. r = k - 1 \/ r < k - 1
        BY <1>3, <4>1
      <4> QED BY <4>2 DEF r
    <3> QED BY <3>1, <3>2, <3>4, Zenon
  <2>2. \A y \in D : rank[y] < rank[x] => f[y] = g[y]
    BY <1>3, <1>6, <1>7
  <2> HIDE DEF g
  <2>3. H[x][f] = H[x][g]
    BY <1>5, <2>2 DEF DependsBelow
  <2> QED BY <2>1, <2>3
<1>8. SolvesTo(D, V, rank, H, k, g)
  <2> HIDE DEF g
  <2> QED BY <1>5, <1>7 DEF SolvesTo
<1> QED BY <1>1, <1>8

(* The equation of a recursive function has a solution if the value at an  *)
(* argument depends only on those of lower ranks.                          *)
LEMMA SolutionExists ==
  ASSUME NEW D, NEW V, NEW rank, NEW H, DependsBelow(D, V, rank, H), V # {}
  PROVE  \E f \in [D -> V] : f = [x \in D |-> H[x][f]]
<1>0. rank \in [D -> Nat] /\ H \in [D -> [[D -> V] -> V]]
  BY DEF DependsBelow
<1>b. PICK v : v \in V
  OBVIOUS
<1>a. SolutionsMeet(D, V, rank, H)
  BY SolutionsAgree
<1> USE <1>0
<1> DEFINE To(n) == CHOOSE f : SolvesTo(D, V, rank, H, n, f)
           F == [x \in D |-> To(rank[x] + 1)[x]]
<1>1. ASSUME NEW n \in Nat
      PROVE  SolvesTo(D, V, rank, H, n, To(n))
  <2>1. \E f : SolvesTo(D, V, rank, H, n, f)
    BY <1>b, SolutionTo
  <2> QED BY <2>1, Zenon
<1>2. \A x \in D : To(rank[x] + 1) \in [D -> V]
  <2> HIDE DEF To
  <2> TAKE x \in D
  <2>1. rank[x] + 1 \in Nat
    OBVIOUS
  <2> QED BY <1>1, <2>1 DEF SolvesTo
<1> HIDE DEF To
<1>3. F \in [D -> V]
  BY <1>2
<1>4. ASSUME NEW x \in D
      PROVE  F[x] = H[x][F]
  <2> DEFINE f == To(rank[x] + 1)
  <2>1. rank[x] + 1 \in Nat /\ rank[x] \in Nat
    OBVIOUS
  <2>2. SolvesTo(D, V, rank, H, rank[x] + 1, f)
    BY <1>1, <2>1
  <2>3. ASSUME NEW y \in D, rank[y] < rank[x]
        PROVE  f[y] = F[y]
    <3>1. rank[y] + 1 \in Nat /\ rank[y] + 1 <= rank[x] + 1 /\ rank[y] < rank[y] + 1
      BY <2>1, <2>3
    <3>2. SolvesTo(D, V, rank, H, rank[y] + 1, To(rank[y] + 1))
      BY <1>1, <3>1
    <3>3. To(rank[y] + 1)[y] = f[y]
      <4> DEFINE n == rank[y] + 1
                 m == rank[x] + 1
                 g == To(n)
      <4>1. /\ n \in Nat /\ m \in Nat /\ n <= m /\ rank[y] < n
            /\ SolvesTo(D, V, rank, H, n, g) /\ SolvesTo(D, V, rank, H, m, f)
        BY <2>1, <2>2, <3>1, <3>2
      <4> HIDE DEF n, m, f, g, F
      <4>2. \A z \in D : rank[z] < n => g[z] = f[z]
        BY <1>a, <4>1 DEF SolutionsMeet
      <4>3. g[y] = f[y]
        BY <4>1, <4>2
      <4> QED BY <4>3 DEF g, n
    <3> HIDE DEF f
    <3> QED BY <3>3 DEF F
  <2>4. f \in [D -> V] /\ f[x] = H[x][f]
    BY <2>1, <2>2 DEF SolvesTo
  <2>5. F[x] = f[x]
    OBVIOUS
  <2> HIDE DEF f, F
  <2>6. H[x][f] = H[x][F]
    BY <1>3, <2>3, <2>4 DEF DependsBelow
  <2> QED BY <2>4, <2>5, <2>6
<1> HIDE DEF F
<1>5. F = [x \in D |-> H[x][F]]
  BY <1>3, <1>4
<1> QED BY <1>3, <1>5

(* What a loop adds up: f[m] is what there is after m of its n steps.      *)
Steps(n, V, step) == step \in [1 .. n -> [V -> V]]

Accumulation(n, V, base, step, f) ==
  /\ f \in [0 .. n -> V]
  /\ f[0] = base
  /\ \A m \in 1 .. n : f[m] = step[m][f[m - 1]]

LEMMA Accumulates ==
  ASSUME NEW n \in Nat, NEW V, NEW base \in V, NEW step, Steps(n, V, step)
  PROVE  \E f : Accumulation(n, V, base, step, f)
<1> DEFINE D == 0 .. n
           rank == [m \in D |-> m]
           Value(m, f) == IF m = 0 THEN base ELSE step[m][f[m - 1]]
           H == [m \in D |-> [f \in [D -> V] |-> Value(m, f)]]
<1>1. \A m \in D : m = 0 \/ (m \in 1 .. n /\ m - 1 \in D /\ m - 1 < m)
  OBVIOUS
<1>2. rank \in [D -> Nat] /\ \A m \in D : rank[m] = m
  OBVIOUS
<1>3. \A m \in 1 .. n : m \in D /\ m # 0
  OBVIOUS
<1>4. 0 \in D
  OBVIOUS
<1> HIDE DEF D, rank
<1>5. ASSUME NEW m \in D, NEW f \in [D -> V]
      PROVE  Value(m, f) \in V
  BY <1>1 DEF Steps
<1>6. ASSUME NEW m \in D, NEW f, NEW g, \A k \in D : rank[k] < rank[m] => f[k] = g[k]
      PROVE  Value(m, f) = Value(m, g)
  <2>1. m # 0 => m - 1 \in D /\ f[m - 1] = g[m - 1]
    BY <1>1, <1>2, <1>6
  <2> QED BY <2>1
<1>7. /\ H \in [D -> [[D -> V] -> V]]
      /\ \A m \in D : \A f \in [D -> V] : H[m][f] = Value(m, f)
  <2> HIDE DEF Value
  <2> QED BY <1>5
<1> HIDE DEF H, Value
<1>8. \A m \in D : \A f, g \in [D -> V] :
        (\A k \in D : rank[k] < rank[m] => f[k] = g[k]) => H[m][f] = H[m][g]
  BY <1>6, <1>7
<1>9. DependsBelow(D, V, rank, H)
  BY <1>2, <1>7, <1>8, Zenon DEF DependsBelow
<1>10. PICK f \in [D -> V] : f = [m \in D |-> H[m][f]]
  <2>1. V # {}
    OBVIOUS
  <2> QED BY <1>9, <2>1, SolutionExists
<1>11. \A m \in D : f[m] = Value(m, f)
  BY <1>7, <1>10
<1>12. f[0] = base /\ \A m \in 1 .. n : f[m] = step[m][f[m - 1]]
  BY <1>3, <1>4, <1>11 DEF Value
<1> QED BY <1>12 DEF D, Accumulation
=============================================================================
