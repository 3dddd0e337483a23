--------------------------- MODULE DagViewProofs ---------------------------
(***************************************************************************)
(* Proofs about DagView, for every workflow file: the walk that renderDAG  *)
(* makes takes exactly the names that no cycle reaches, each at the length *)
(* of the longest way to it.                                               *)
(*                                                                         *)
(* Two things here are inductions over data, the sum over the steps that   *)
(* Indegree folds and the iteration in Reach.  They are done with sets of  *)
(* numbers: a set that has 0 and with each number the next is Nat.         *)
(***************************************************************************)
EXTENDS DagView, FiniteSetTheorems, WellFoundedInduction, TLAPS

-----------------------------------------------------------------------------
(* Numbers.                                                                *)

(* A set of numbers that is not empty has a least element.                 *)
LEMMA MinOfNats ==
    ASSUME NEW S \in SUBSET Nat, S # {}
    PROVE  Min(S) \in S /\ \A y \in S : Min(S) <= y
<1>1. \A x, y \in Nat : <<x, y>> \in OpToRel(<, Nat) <=> x < y
  BY DEF OpToRel
<1>2. \E R : IsWellFoundedOn(R, Nat) /\ \A x, y \in Nat : <<x, y>> \in R <=> x < y
  BY <1>1, NatLessThanWellFounded
<1>3. PICK R : IsWellFoundedOn(R, Nat) /\ \A x, y \in Nat : <<x, y>> \in R <=> x < y
  BY <1>2
<1>4. S \subseteq Nat
  OBVIOUS
<1>5. \E x \in S : \A y \in S : ~(<<y, x>> \in R)
  <2>1. IsWellFoundedOn(R, Nat)
    BY <1>3
  <2> QED
    BY <1>4, <2>1, WFMin, Zenon
<1>6. PICK m \in S : \A y \in S : ~(<<y, m>> \in R)
  BY <1>5
<1>7. \A y \in S : m <= y
  <2> TAKE y \in S
  <2>1. m \in Nat /\ y \in Nat /\ ~(y < m)
    BY <1>3, <1>4, <1>6
  <2> QED
    BY <2>1
<1>8. \E x \in S : \A y \in S : x <= y
  BY <1>7
<1> QED
  BY <1>8 DEF Min

(* Induction, with a set in the place of a formula.                        *)
LEMMA SetInduction ==
    ASSUME NEW P \in SUBSET Nat, 0 \in P, \A k \in P : k + 1 \in P
    PROVE  P = Nat
<1> SUFFICES ASSUME Nat \ P # {} PROVE FALSE
  OBVIOUS
<1>1. PICK m \in Nat \ P : \A y \in Nat \ P : m <= y
  BY MinOfNats
<1>2. m - 1 \in Nat /\ m - 1 \in P
  BY <1>1
<1>3. (m - 1) + 1 \in P
  BY <1>2
<1> QED
  BY <1>1, <1>3

LEMMA MaxOfTwo ==
    ASSUME NEW a \in Nat, NEW b \in Nat
    PROVE  Max({a, b}) = IF a < b THEN b ELSE a
<1>1. \E x \in {a, b} : \A y \in {a, b} : x >= y
  OBVIOUS
<1>2. Max({a, b}) \in {a, b} /\ \A y \in {a, b} : Max({a, b}) >= y
  BY <1>1 DEF Max
<1> QED
  BY <1>2

(* A function on Nat may be defined by what it is at 0 and by a step.      *)
Prefix(a, h, S, k) ==
    {g \in [0..k -> S] : g[0] = a /\ \A i \in Nat : i < k => g[i + 1] = h[g[i]]}

Iterates(g, a, h, S) ==
    g \in [Nat -> S] /\ g[0] = a /\ \A i \in Nat : g[i + 1] = h[g[i]]

LEMMA Iteration ==
    ASSUME NEW S, NEW a \in S, NEW h \in [S -> S]
    PROVE  \E g : Iterates(g, a, h, S)
<1> DEFINE P == {k \in Nat : Prefix(a, h, S, k) # {}}
<1>1. P = Nat
  <2>1. 0 \in P
    <3>1. [i \in 0..0 |-> a] \in Prefix(a, h, S, 0)
      BY DEF Prefix
    <3> QED
      BY <3>1
  <2>2. ASSUME NEW k \in P PROVE k + 1 \in P
    <3>1. PICK g : g \in Prefix(a, h, S, k)
      BY <2>2
    <3> DEFINE f == [i \in 0..(k + 1) |-> IF i = k + 1 THEN h[g[k]] ELSE g[i]]
    <3>2. g \in [0..k -> S] /\ g[0] = a /\ \A i \in Nat : i < k => g[i + 1] = h[g[i]]
      BY <3>1 DEF Prefix
    <3>3. f \in [0..(k + 1) -> S] /\ f[0] = a
      BY <3>2
    <3>4. ASSUME NEW i \in Nat, i < k + 1 PROVE f[i + 1] = h[f[i]]
      <4>1. CASE i < k
        BY <3>2, <3>4, <4>1
      <4>2. CASE i = k
        BY <3>2, <4>2
      <4> QED
        BY <3>4, <4>1, <4>2
    <3>5. f \in Prefix(a, h, S, k + 1)
      BY <3>3, <3>4 DEF Prefix
    <3> QED
      BY <3>5
  <2> HIDE DEF P
  <2> QED
    BY <2>1, <2>2, SetInduction DEF P
<1> DEFINE Q == {i \in Nat : \A k, l \in Nat : i <= k /\ i <= l =>
                     \A f \in Prefix(a, h, S, k) : \A g \in Prefix(a, h, S, l) : f[i] = g[i]}
<1>2. Q = Nat
  <2>1. 0 \in Q
    BY DEF Prefix
  <2>2. ASSUME NEW i \in Q PROVE i + 1 \in Q
    <3> SUFFICES ASSUME NEW k \in Nat, NEW l \in Nat, i + 1 <= k, i + 1 <= l,
                        NEW f \in Prefix(a, h, S, k), NEW g \in Prefix(a, h, S, l)
                 PROVE  f[i + 1] = g[i + 1]
      OBVIOUS
    <3>1. f[i] = g[i]
      BY <2>2
    <3>2. f[i + 1] = h[f[i]] /\ g[i + 1] = h[g[i]]
      BY DEF Prefix
    <3> QED
      BY <3>1, <3>2
  <2> HIDE DEF Q
  <2> QED
    BY <2>1, <2>2, SetInduction DEF Q
<1> DEFINE G == [k \in Nat |-> CHOOSE g : g \in Prefix(a, h, S, k)]
<1>3. \A k \in Nat : G[k] \in Prefix(a, h, S, k)
  BY <1>1
<1> HIDE DEF G
<1> DEFINE g == [k \in Nat |-> G[k][k]]
<1>4. g \in [Nat -> S] /\ g[0] = a
  BY <1>3 DEF Prefix
<1>5. ASSUME NEW i \in Nat PROVE g[i + 1] = h[g[i]]
  <2>1. G[i + 1][i + 1] = h[G[i + 1][i]]
    BY <1>3 DEF Prefix
  <2>2. G[i + 1][i] = G[i][i]
    BY <1>2, <1>3
  <2> QED
    BY <2>1, <2>2
<1>6. Iterates(g, a, h, S)
  BY <1>4, <1>5 DEF Iterates
<1> QED
  BY <1>6

-----------------------------------------------------------------------------
(* The sum that MapThenSumSet folds: one element is taken from the set     *)
(* after the other.                                                        *)
Taken(T) == CHOOSE x \in T : TRUE

Folding(f, w, S) ==
    f = [T \in SUBSET S |-> IF T = {} THEN 0 ELSE w[Taken(T)] + f[T \ {Taken(T)}]]

(* There is such a function, for a finite set.                             *)
LEMMA FoldExists ==
    ASSUME NEW S, IsFiniteSet(S), NEW w \in [S -> Nat]
    PROVE  \E f : Folding(f, w, S)
<1> DEFINE Value(f, T) == IF T = {} THEN 0 ELSE w[Taken(T)] + f[T \ {Taken(T)}]
           P == {k \in Nat : \E f \in [SUBSET S -> Nat] :
                    \A T \in SUBSET S : Cardinality(T) <= k => f[T] = Value(f, T)}
<1>1. \A T \in SUBSET S : IsFiniteSet(T) /\ Cardinality(T) \in Nat
  BY FS_Subset, FS_CardinalityType
<1>2. \A T \in SUBSET S : T # {} =>
          Taken(T) \in T /\ Cardinality(T \ {Taken(T)}) = Cardinality(T) - 1
  BY <1>1, FS_RemoveElement DEF Taken
<1>3. 0 \in P
  <2>1. \A T \in SUBSET S : Cardinality(T) <= 0 => T = {}
    BY <1>1, FS_EmptySet
  <2>2. \A T \in SUBSET S : Cardinality(T) <= 0 =>
            [U \in SUBSET S |-> 0][T] = Value([U \in SUBSET S |-> 0], T)
    BY <2>1
  <2>3. [U \in SUBSET S |-> 0] \in [SUBSET S -> Nat]
    OBVIOUS
  <2> HIDE DEF Value
  <2> QED
    BY <2>2, <2>3
<1>4. ASSUME NEW k \in P PROVE k + 1 \in P
  <2>1. PICK f \in [SUBSET S -> Nat] :
           \A T \in SUBSET S : Cardinality(T) <= k => f[T] = Value(f, T)
    BY <1>4
  <2> DEFINE g == [T \in SUBSET S |-> IF Cardinality(T) <= k THEN f[T] ELSE Value(f, T)]
  <2>2. ASSUME NEW T \in SUBSET S PROVE Value(f, T) \in Nat
    <3>1. CASE T = {}
      BY <3>1
    <3>2. CASE T # {}
      <4>1. w[Taken(T)] \in Nat /\ f[T \ {Taken(T)}] \in Nat
        BY <1>2, <3>2
      <4> QED
        BY <3>2, <4>1
    <3> QED
      BY <3>1, <3>2
  <2>3. g \in [SUBSET S -> Nat]
    BY <2>2
  <2>4. ASSUME NEW T \in SUBSET S, Cardinality(T) <= k + 1 PROVE g[T] = Value(g, T)
    <3>1. g[T] = Value(f, T)
      BY <2>1
    <3>2. CASE T = {}
      BY <3>1, <3>2
    <3>3. CASE T # {}
      <4>1. T \ {Taken(T)} \in SUBSET S /\ Cardinality(T \ {Taken(T)}) <= k
        BY <1>1, <1>2, <2>4, <3>3
      <4>2. g[T \ {Taken(T)}] = f[T \ {Taken(T)}]
        BY <4>1
      <4> QED
        BY <3>1, <3>3, <4>2
    <3> QED
      BY <3>2, <3>3
  <2> HIDE DEF Value, g
  <2> QED
    BY <2>3, <2>4
<1>5. P = Nat
  <2> HIDE DEF P
  <2> QED
    BY <1>3, <1>4, SetInduction DEF P
<1>6. Cardinality(S) \in P
  BY <1>5, FS_CardinalityType
<1>7. PICK f \in [SUBSET S -> Nat] :
         \A T \in SUBSET S : Cardinality(T) <= Cardinality(S) => f[T] = Value(f, T)
  BY <1>6
<1>8. \A T \in SUBSET S : Cardinality(T) <= Cardinality(S)
  BY FS_Subset
<1>9. f = [T \in SUBSET S |-> Value(f, T)]
  <2> HIDE DEF Value
  <2> QED
    BY <1>7, <1>8
<1> QED
  BY <1>9 DEF Folding

(* It does not depend on the order in which the elements are taken.        *)
IsSum(f, w, S) ==
    /\ f \in [SUBSET S -> Nat] /\ f[{}] = 0
    /\ \A T \in SUBSET S : \A c \in T : f[T] = w[c] + f[T \ {c}]

LEMMA FoldIsSum ==
    ASSUME NEW S, IsFiniteSet(S), NEW w \in [S -> Nat], NEW f, Folding(f, w, S)
    PROVE  IsSum(f, w, S)
<1>1. \A T \in SUBSET S : IsFiniteSet(T) /\ Cardinality(T) \in Nat
  BY FS_Subset, FS_CardinalityType
<1>2. \A T \in SUBSET S : \A c \in T : Cardinality(T \ {c}) = Cardinality(T) - 1
  BY <1>1, FS_RemoveElement
<1>3. \A T \in SUBSET S : T # {} => Taken(T) \in T
  BY DEF Taken
<1>4. /\ DOMAIN f = SUBSET S /\ f = [T \in SUBSET S |-> f[T]] /\ f[{}] = 0
      /\ \A T \in SUBSET S : T # {} => f[T] = w[Taken(T)] + f[T \ {Taken(T)}]
  BY Zenon DEF Folding
<1> DEFINE Good(T) == f[T] \in Nat /\ \A c \in T : f[T] = w[c] + f[T \ {c}]
           P == {k \in Nat : \A T \in SUBSET S : Cardinality(T) <= k => Good(T)}
<1>5. 0 \in P
  <2>1. \A T \in SUBSET S : Cardinality(T) <= 0 => T = {}
    BY <1>1, FS_EmptySet
  <2>2. Good({})
    BY <1>4
  <2> HIDE DEF Good
  <2> QED
    BY <2>1, <2>2
<1>6. ASSUME NEW k \in P PROVE k + 1 \in P
  <2> SUFFICES ASSUME NEW T \in SUBSET S, Cardinality(T) <= k + 1, T # {}
               PROVE  Good(T)
    <3>1. Good({})
      BY <1>4
    <3> HIDE DEF Good
    <3> QED
      BY <3>1
  <2>1. \A U \in SUBSET S : Cardinality(U) <= k => Good(U)
    BY <1>6
  <2>2. PICK x \in T : f[T] = w[x] + f[T \ {x}]
    BY <1>3, <1>4
  <2>3. \A c \in T : Cardinality(T \ {c}) <= k /\ T \ {c} \in SUBSET S
    BY <1>1, <1>2, <1>6
  <2>4. \A c \in T : Good(T \ {c})
    <3> HIDE DEF Good
    <3> QED
      BY <2>1, <2>3
  <2>5. w[x] \in Nat /\ f[T \ {x}] \in Nat
    BY <2>4
  <2>6. f[T] \in Nat
    BY <2>2, <2>5
  <2>7. ASSUME NEW c \in T, c # x PROVE f[T] = w[c] + f[T \ {c}]
    <3> DEFINE U == (T \ {x}) \ {c}
    <3>1. U = (T \ {c}) \ {x} /\ U \in SUBSET S
      OBVIOUS
    <3>2. f[T \ {x}] = w[c] + f[U]
      BY <2>4, <2>7
    <3>3. f[T \ {c}] = w[x] + f[(T \ {c}) \ {x}]
      BY <2>4, <2>7
    <3>4. Cardinality(U) <= k
      <4>1. Cardinality(U) = Cardinality(T \ {x}) - 1
        BY <1>2, <2>3, <2>7
      <4> QED
        BY <1>1, <1>6, <2>3, <4>1
    <3>5. f[U] \in Nat
      BY <2>1, <3>1, <3>4
    <3>6. w[c] \in Nat
      OBVIOUS
    <3> HIDE DEF U
    <3> QED
      BY <2>2, <2>5, <3>1, <3>2, <3>3, <3>5, <3>6
  <2> QED
    BY <2>2, <2>6, <2>7
<1>7. P = Nat
  <2> HIDE DEF P
  <2> QED
    BY <1>5, <1>6, SetInduction DEF P
<1>8. ASSUME NEW T \in SUBSET S PROVE Good(T)
  <2>1. Cardinality(T) \in P
    BY <1>1, <1>7
  <2> HIDE DEF Good
  <2> QED
    BY <1>1, <2>1
<1> QED
  BY <1>4, <1>8 DEF IsSum

-----------------------------------------------------------------------------
(* The graph.                                                              *)
Weighted == edges \in [Step \X Name -> Nat]

Edge(m, n) == m \in Step /\ n \in Name /\ edges[<<m, n>>] > 0

Nodes == {n \in Name : n \in Step \/ \E m \in Step : Edge(m, n)}

Into(n) == [s \in Step |-> edges[<<s, n>>]]

LEMMA StepsFinite == Step \subseteq Name /\ IsFiniteSet(Name) /\ IsFiniteSet(Step)
BY StepAssumption, FS_Subset

LEMMA IntoType ==
    ASSUME Weighted, NEW n \in Name
    PROVE  Into(n) \in [Step -> Nat]
BY DEF Weighted, Into

LEMMA TargetsAreEdges ==
    ASSUME NEW m \in Name
    PROVE  Targets(m) = {n \in Name : Edge(m, n)}
<1>1. \A n : edges[m, n] = edges[<<m, n>>]
  BY Zenon
<1> QED
  BY <1>1, Zenon DEF Targets, Edge

LEMMA IndegreeIsSum ==
    ASSUME Weighted, NEW n \in Name
    PROVE  \E f : IsSum(f, Into(n), Step) /\ Indegree(n) = f[Step]
<1> DEFINE First(T) == CHOOSE x \in T : TRUE
           F(f) == f = [T \in SUBSET Step |-> IF T = {} THEN 0
                                              ELSE edges[First(T), n] + f[T \ {First(T)}]]
<1>1. Indegree(n) = (CHOOSE f : F(f))[Step]
  BY Zenon DEF Indegree, MapThenSumSet, MapThenFoldSet
<1>2. \A f : F(f) <=> Folding(f, Into(n), Step)
  <2>1. \A T \in SUBSET Step : T # {} => edges[First(T), n] = Into(n)[First(T)]
    <3>1. \A s : edges[s, n] = edges[<<s, n>>]
      BY Zenon
    <3>2. \A T \in SUBSET Step : T # {} => First(T) \in Step
      OBVIOUS
    <3>3. \A s \in Step : Into(n)[s] = edges[<<s, n>>]
      BY DEF Into
    <3> HIDE DEF First
    <3> QED
      BY <3>1, <3>2, <3>3, Zenon
  <2>2. \A T : First(T) = Taken(T)
    BY Zenon DEF Taken
  <2> HIDE DEF First
  <2>3. ASSUME NEW f
        PROVE  [T \in SUBSET Step |-> IF T = {} THEN 0 ELSE edges[First(T), n] + f[T \ {First(T)}]]
             = [T \in SUBSET Step |-> IF T = {} THEN 0 ELSE Into(n)[Taken(T)] + f[T \ {Taken(T)}]]
    BY <2>1, <2>2, Zenon
  <2> QED
    BY <2>3, Zenon DEF Folding
<1>3. \E f : F(f)
  <2>1. \E f : Folding(f, Into(n), Step)
    BY IntoType, FoldExists, StepsFinite
  <2> HIDE DEF F
  <2> QED
    BY <1>2, <2>1
<1> HIDE DEF F
<1>4. F(CHOOSE f : F(f))
  BY <1>3, Zenon
<1>5. PICK f : F(f) /\ Indegree(n) = f[Step]
  BY <1>1, <1>4, Zenon
<1>6. IsSum(f, Into(n), Step)
  BY <1>2, <1>5, IntoType, FoldIsSum, StepsFinite
<1> QED
  BY <1>5, <1>6

(* A sum is 0 when there is nothing to be added.                           *)
LEMMA SumIsZero ==
    ASSUME NEW S, IsFiniteSet(S), NEW w \in [S -> Nat], NEW f, IsSum(f, w, S), NEW T \in SUBSET S
    PROVE  f[T] = 0 <=> \A c \in T : w[c] = 0
<1>1. \A U \in SUBSET S : IsFiniteSet(U) /\ Cardinality(U) \in Nat
  BY FS_Subset, FS_CardinalityType
<1>2. \A U \in SUBSET S : \A c \in U : Cardinality(U \ {c}) = Cardinality(U) - 1
  BY <1>1, FS_RemoveElement
<1> DEFINE P == {k \in Nat : \A U \in SUBSET S :
                    Cardinality(U) = k /\ (\A c \in U : w[c] = 0) => f[U] = 0}
<1>3. 0 \in P
  <2>1. \A U \in SUBSET S : Cardinality(U) = 0 => U = {}
    BY <1>1, FS_EmptySet
  <2> QED
    BY <2>1 DEF IsSum
<1>4. ASSUME NEW k \in P PROVE k + 1 \in P
  <2> SUFFICES ASSUME NEW U \in SUBSET S, Cardinality(U) = k + 1, \A c \in U : w[c] = 0
               PROVE  f[U] = 0
    OBVIOUS
  <2>1. U # {}
    BY <1>4, FS_EmptySet
  <2>2. PICK c \in U : TRUE
    BY <2>1
  <2>3. f[U \ {c}] = 0
    <3>1. Cardinality(U \ {c}) = k
      BY <1>2, <1>4
    <3> QED
      BY <1>4, <3>1
  <2> QED
    BY <2>2, <2>3 DEF IsSum
<1>5. P = Nat
  <2> HIDE DEF P
  <2> QED
    BY <1>3, <1>4, SetInduction DEF P
<1>6. (\A c \in T : w[c] = 0) => f[T] = 0
  <2>1. Cardinality(T) \in P
    BY <1>1, <1>5
  <2> QED
    BY <2>1
<1>7. ASSUME f[T] = 0, NEW c \in T PROVE w[c] = 0
  <2>1. f[T] = w[c] + f[T \ {c}] /\ w[c] \in Nat /\ f[T \ {c}] \in Nat
    BY DEF IsSum
  <2> QED
    BY <1>7, <2>1
<1> QED
  BY <1>6, <1>7

-----------------------------------------------------------------------------
(* The walk.  What remains of a name is the sum over the steps that have   *)
(* not been visited; a name is in the queue or visited exactly when all    *)
(* edges to it come from visited steps; and its level is one more than     *)
(* the greatest of theirs.                                                 *)
WalkTypes ==
    /\ queue \subseteq Nodes /\ visited \subseteq Nodes /\ queue \cap visited = {}
    /\ level \in [Name -> Nat] /\ remaining \in [Name -> Nat]

Remaining ==
    \A n \in Name : \E f : IsSum(f, Into(n), Step) /\ remaining[n] = f[Step \ visited]

Released(n) == \A m \in Step : Edge(m, n) => m \in visited

QueueIsReleased == \A n \in Nodes : n \in queue \cup visited <=> Released(n)

Levels ==
    \A n \in Name :
        /\ \A m \in visited : Edge(m, n) => level[m] < level[n]
        /\ level[n] = 0 \/ \E m \in visited : Edge(m, n) /\ level[n] = level[m] + 1

WalkInv == Weighted /\ WalkTypes /\ Remaining /\ QueueIsReleased /\ Levels

LEMMA NothingRemains ==
    ASSUME Weighted, Remaining, NEW n \in Name
    PROVE  remaining[n] = 0 <=> Released(n)
<1>1. PICK f : IsSum(f, Into(n), Step) /\ remaining[n] = f[Step \ visited]
  BY DEF Remaining
<1>2. remaining[n] = 0 <=> \A m \in Step \ visited : Into(n)[m] = 0
  BY <1>1, IntoType, StepsFinite, SumIsZero
<1>3. \A m \in Step : Into(n)[m] = 0 <=> ~Edge(m, n)
  BY IntoType DEF Into, Edge
<1> QED
  BY <1>2, <1>3 DEF Released

LEMMA RootsHaveNoEdges ==
    ASSUME Weighted
    PROVE  ViewRoots = {r \in Step : \A m \in Step : ~Edge(m, r)}
<1> SUFFICES ASSUME NEW r \in Step PROVE Indegree(r) = 0 <=> \A m \in Step : ~Edge(m, r)
  BY DEF ViewRoots
<1>1. r \in Name
  BY StepsFinite
<1>2. PICK f : IsSum(f, Into(r), Step) /\ Indegree(r) = f[Step]
  BY <1>1, IndegreeIsSum
<1>3. Indegree(r) = 0 <=> \A m \in Step : Into(r)[m] = 0
  BY <1>1, <1>2, IntoType, StepsFinite, SumIsZero
<1>4. \A m \in Step : Into(r)[m] = 0 <=> ~Edge(m, r)
  BY <1>1, IntoType DEF Into, Edge
<1> QED
  BY <1>3, <1>4

(* A walk starts with the names that have no edges, and with all of them   *)
(* remaining to be followed.                                               *)
LEMMA NothingFollowed ==
    ASSUME Weighted, NEW n \in Name
    PROVE  /\ Indegree(n) \in Nat
           /\ \E f : IsSum(f, Into(n), Step) /\ Indegree(n) = f[Step \ {}]
<1>1. PICK f : IsSum(f, Into(n), Step) /\ Indegree(n) = f[Step]
  BY IndegreeIsSum
<1>2. f[Step] \in Nat /\ Step \ {} = Step
  BY <1>1 DEF IsSum
<1> QED
  BY <1>1, <1>2

LEMMA StartWalkInv == StartWalk => WalkInv
<1> SUFFICES ASSUME StartWalk PROVE WalkInv
  OBVIOUS
<1>1. Weighted
  BY DEF StartWalk, Weighted
<1>2. queue = {r \in Step : \A m \in Step : ~Edge(m, r)} /\ visited = {} /\ level = [n \in Name |-> 0]
  BY <1>1, RootsHaveNoEdges DEF StartWalk
<1>3. remaining \in [Name -> Nat] /\ Remaining
  BY <1>1, NothingFollowed DEF StartWalk, Remaining
<1>4. WalkTypes
  BY <1>2, <1>3, StepsFinite DEF WalkTypes, Nodes
<1>5. QueueIsReleased
  BY <1>2 DEF QueueIsReleased, Released, Nodes
<1>6. Levels
  BY <1>2 DEF Levels
<1> QED
  BY <1>1, <1>3, <1>4, <1>5, <1>6 DEF WalkInv

LEMMA RestartWalkInv ==
    ASSUME WalkInv, RestartWalk, UNCHANGED edges
    PROVE  WalkInv'
<1>1. Weighted /\ Weighted'
  BY DEF WalkInv, Weighted
<1>2. /\ queue' = {r \in Step : \A m \in Step : ~Edge(m, r)} /\ visited' = {}
      /\ level' = [n \in Name |-> 0] /\ remaining' = [n \in Name |-> Indegree(n)]
  BY <1>1, RootsHaveNoEdges DEF RestartWalk
<1>3. (\A m, n : Edge(m, n)' <=> Edge(m, n)) /\ (\A n : Into(n)' = Into(n)) /\ Nodes' = Nodes
  BY DEF Edge, Into, Nodes
<1>4. remaining' \in [Name -> Nat] /\ Remaining'
  <2>1. \A n \in Name : /\ Indegree(n) \in Nat
                        /\ \E f : IsSum(f, Into(n), Step) /\ Indegree(n) = f[Step \ {}]
    BY <1>1, NothingFollowed
  <2> QED
    BY <1>2, <1>3, <2>1 DEF Remaining
<1>5. WalkTypes'
  BY <1>2, <1>3, <1>4, StepsFinite DEF WalkTypes, Nodes
<1>6. QueueIsReleased'
  BY <1>2, <1>3 DEF QueueIsReleased, Released, Nodes
<1>7. Levels'
  BY <1>2 DEF Levels
<1> QED
  BY <1>1, <1>4, <1>5, <1>6, <1>7 DEF WalkInv

LEMMA SameWalk ==
    ASSUME WalkInv, UNCHANGED <<edges, walkVars>>
    PROVE  WalkInv'
<1>1. /\ edges' = edges /\ queue' = queue /\ level' = level
      /\ remaining' = remaining /\ visited' = visited
  BY DEF walkVars
<1>2. (\A m, n : Edge(m, n)' <=> Edge(m, n)) /\ (\A n : Into(n)' = Into(n)) /\ Nodes' = Nodes
  BY <1>1 DEF Edge, Into, Nodes
<1>3. Weighted' /\ WalkTypes' /\ Remaining'
  BY <1>1, <1>2 DEF WalkInv, Weighted, WalkTypes, Remaining
<1>4. QueueIsReleased' /\ Levels'
  BY <1>1, <1>2 DEF WalkInv, QueueIsReleased, Released, Levels
<1> QED
  BY <1>3, <1>4 DEF WalkInv

(* One turn of the loop: cur is taken from the queue.                      *)
LEMMA VisitInv ==
    ASSUME WalkInv, NEW cur \in Name, Visit(cur)
    PROVE  WalkInv'
<1>1. /\ cur \in queue /\ cur \in Nodes /\ cur \notin visited
      /\ visited' = visited \cup {cur}
  BY DEF Visit, WalkInv, WalkTypes
<1>2. /\ Weighted /\ Weighted'
      /\ (\A m, n : Edge(m, n)' <=> Edge(m, n)) /\ (\A n : Into(n)' = Into(n)) /\ Nodes' = Nodes
  BY DEF Visit, WalkInv, Weighted, Edge, Into, Nodes
<1>3. \A n : n \in Targets(cur) <=> Edge(cur, n)
  BY TargetsAreEdges DEF Edge
<1>4. \A n \in Nodes : n \in queue \cup visited <=> Released(n)
  BY DEF WalkInv, QueueIsReleased
<1>5. \A n \in queue \cup visited : ~Edge(cur, n)
  BY <1>1, <1>4 DEF Released, Edge, WalkInv, WalkTypes
<1>6. /\ level \in [Name -> Nat] /\ remaining \in [Name -> Nat] /\ Nodes \subseteq Name
  BY DEF WalkInv, WalkTypes, Nodes
<1>7. remaining' \in [Name -> Nat] /\ Remaining'
  <2> SUFFICES ASSUME NEW n \in Name
               PROVE  /\ remaining'[n] \in Nat
                      /\ \E f : IsSum(f, Into(n), Step) /\ remaining'[n] = f[Step \ visited']
    BY <1>2 DEF Remaining, Visit, Followed
  <2>1. PICK f : IsSum(f, Into(n), Step) /\ remaining[n] = f[Step \ visited]
    BY DEF WalkInv, Remaining
  <2>2. remaining'[n] = IF Edge(cur, n) THEN remaining[n] - edges[<<cur, n>>] ELSE remaining[n]
    <3>1. edges[cur, n] = edges[<<cur, n>>]
      BY Zenon
    <3>2. Followed(cur)[n] = IF n \in Targets(cur) THEN remaining[n] - edges[cur, n] ELSE remaining[n]
      BY Zenon DEF Followed
    <3> QED
      BY <1>3, <3>1, <3>2, Zenon DEF Visit
  <2>3. CASE cur \in Step
    <3>1. (Step \ visited) \ {cur} = Step \ visited' /\ cur \in Step \ visited
      BY <1>1, <2>3
    <3>2. f[Step \ visited] = Into(n)[cur] + f[Step \ visited'] /\ f[Step \ visited'] \in Nat
      BY <2>1, <3>1 DEF IsSum
    <3>3. Into(n)[cur] = edges[<<cur, n>>] /\ Into(n)[cur] \in Nat
      BY <1>2, <2>3, IntoType DEF Into
    <3>4. remaining'[n] = f[Step \ visited']
      BY <2>1, <2>2, <2>3, <3>2, <3>3 DEF Edge
    <3> QED
      BY <2>1, <3>2, <3>4
  <2>4. CASE cur \notin Step
    <3>1. Step \ visited' = Step \ visited /\ ~Edge(cur, n)
      BY <1>1, <2>4 DEF Edge
    <3> QED
      BY <1>6, <2>1, <2>2, <3>1
  <2> QED
    BY <2>3, <2>4
<1>8. \A n \in Name : remaining'[n] = 0 <=> Released(n)'
  <2> SUFFICES ASSUME NEW n \in Name PROVE remaining'[n] = 0 <=> Released(n)'
    OBVIOUS
  <2>1. PICK f : IsSum(f, Into(n), Step) /\ remaining'[n] = f[Step \ visited']
    BY <1>2, <1>7 DEF Remaining
  <2>2. remaining'[n] = 0 <=> \A m \in Step \ visited' : Into(n)[m] = 0
    BY <1>2, <2>1, IntoType, StepsFinite, SumIsZero
  <2>3. \A m \in Step : Into(n)[m] = 0 <=> ~Edge(m, n)
    BY <1>2, IntoType DEF Into, Edge
  <2> QED
    BY <1>2, <2>2, <2>3 DEF Released
<1>9. queue' = (queue \ {cur}) \cup {n \in Name : Edge(cur, n) /\ Released(n)'}
  BY <1>3, <1>8 DEF Visit, Edge
<1>10. QueueIsReleased'
  <2> SUFFICES ASSUME NEW n \in Nodes PROVE n \in queue' \cup visited' <=> Released(n)'
    BY <1>2 DEF QueueIsReleased
  <2>1. Released(n)' <=> \A m \in Step : Edge(m, n) => m \in visited \cup {cur}
    BY <1>1, <1>2 DEF Released
  <2>2. Released(n)' => Released(n) \/ Edge(cur, n)
    BY <2>1 DEF Released
  <2>3. Released(n) => Released(n)'
    BY <2>1 DEF Released
  <2> QED
    BY <1>1, <1>4, <1>6, <1>9, <2>2, <2>3
<1>11. WalkTypes'
  <2>1. queue' \subseteq Nodes' /\ visited' \subseteq Nodes'
    BY <1>1, <1>2, <1>9 DEF WalkInv, WalkTypes, Nodes, Edge
  <2>2. queue' \cap visited' = {}
    BY <1>1, <1>5, <1>9 DEF WalkInv, WalkTypes
  <2>3. level' \in [Name -> Nat]
    <3>1. \A n \in Name : Max({level[n], level[cur] + 1}) \in Nat
      BY <1>6, MaxOfTwo
    <3> QED
      BY <1>6, <3>1 DEF Visit, Raised
  <2> QED
    BY <1>7, <2>1, <2>2, <2>3 DEF WalkTypes
<1>12. Levels'
  <2>1. \A n \in Name : level'[n] = IF ~Edge(cur, n) THEN level[n]
                                    ELSE IF level[n] < level[cur] + 1 THEN level[cur] + 1
                                    ELSE level[n]
    BY <1>3, <1>6, MaxOfTwo DEF Visit, Raised
  <2>2. \A m \in visited' : m \in Name /\ level'[m] = level[m]
    BY <1>1, <1>5, <1>6, <2>1 DEF WalkInv, WalkTypes
  <2> SUFFICES ASSUME NEW n \in Name
               PROVE  /\ \A m \in visited' : Edge(m, n) => level[m] < level'[n]
                      /\ \/ level'[n] = 0
                         \/ \E m \in visited' : Edge(m, n) /\ level'[n] = level[m] + 1
    BY <1>2, <2>2 DEF Levels
  <2>3. /\ \A m \in visited : Edge(m, n) => level[m] < level[n]
        /\ level[n] = 0 \/ \E m \in visited : Edge(m, n) /\ level[n] = level[m] + 1
    BY DEF WalkInv, Levels
  <2>4. CASE ~Edge(cur, n)
    BY <1>1, <2>1, <2>3, <2>4
  <2>5. CASE Edge(cur, n)
    BY <1>1, <1>6, <2>1, <2>2, <2>3, <2>5
  <2> QED
    BY <2>4, <2>5
<1> QED
  BY <1>2, <1>7, <1>10, <1>11, <1>12 DEF WalkInv

-----------------------------------------------------------------------------
(* Ways through the graph, and the walk when the queue is empty.           *)

LEMMA ReachSteps ==
    ASSUME NEW n \in Name
    PROVE  /\ Reach(0, n) = {n}
           /\ \A k \in Nat : Reach(k + 1, n) = UNION {Targets(m) : m \in Reach(k, n)}
           /\ \A k \in Nat : Reach(k, n) \in SUBSET Name
<1> DEFINE F(f) == f = [i \in Nat |-> IF i = 0 THEN {n} ELSE UNION {Targets(m) : m \in f[i - 1]}]
<1>1. \A k : Reach(k, n) = (CHOOSE f : F(f))[k]
  BY Zenon DEF Reach
<1> DEFINE h == [X \in SUBSET Name |-> UNION {Targets(m) : m \in X}]
<1>2. h \in [SUBSET Name -> SUBSET Name]
  <2>1. \A m : Targets(m) \in SUBSET Name
    BY DEF Targets
  <2> QED
    BY <2>1
<1>3. PICK g \in [Nat -> SUBSET Name] : g[0] = {n} /\ \A i \in Nat : g[i + 1] = h[g[i]]
  <2> HIDE DEF h
  <2>1. {n} \in SUBSET Name
    OBVIOUS
  <2>2. \E g : Iterates(g, {n}, h, SUBSET Name)
    BY <1>2, <2>1, Iteration, Zenon
  <2> QED
    BY <2>2, Zenon DEF Iterates
<1>4. F(g)
  <2>1. ASSUME NEW i \in Nat
        PROVE  g[i] = IF i = 0 THEN {n} ELSE UNION {Targets(m) : m \in g[i - 1]}
    <3>1. CASE i = 0
      BY <1>3, <3>1
    <3>2. CASE i # 0
      <4>1. i - 1 \in Nat /\ (i - 1) + 1 = i
        BY <3>2
      <4>2. g[i] = h[g[i - 1]] /\ g[i - 1] \in SUBSET Name
        BY <1>3, <4>1
      <4> QED
        BY <3>2, <4>2
    <3> QED
      BY <3>1, <3>2
  <2>2. g = [i \in Nat |-> g[i]]
    BY <1>3
  <2> HIDE DEF h
  <2> QED
    BY <2>1, <2>2, Zenon
<1> HIDE DEF F, h
<1>5. F(CHOOSE f : F(f))
  BY <1>4, Zenon
<1>6. PICK f : F(f) /\ \A k : Reach(k, n) = f[k]
  BY <1>1, <1>5, Zenon
<1>7. \A k \in Nat : f[k] = IF k = 0 THEN {n} ELSE UNION {Targets(m) : m \in f[k - 1]}
  BY <1>6, Zenon DEF F
<1>8. f[0] = {n}
  BY <1>7
<1>9. \A k \in Nat : f[k + 1] = UNION {Targets(m) : m \in f[k]}
  <2> TAKE k \in Nat
  <2>1. k + 1 \in Nat /\ k + 1 # 0 /\ (k + 1) - 1 = k
    OBVIOUS
  <2> QED
    BY <1>7, <2>1
<1>10. \A k \in Nat : f[k] \in SUBSET Name
  <2> TAKE k \in Nat
  <2>1. UNION {Targets(m) : m \in f[k - 1]} \subseteq Name
    BY DEF Targets
  <2>2. f[k] = {n} \/ f[k] = UNION {Targets(m) : m \in f[k - 1]}
    BY <1>7
  <2> QED
    BY <2>1, <2>2
<1> QED
  BY <1>6, <1>8, <1>9, <1>10

(* A way is one edge longer at its end, or at its start.                   *)
LEMMA LongerWay ==
    ASSUME NEW m \in Name, NEW k \in Nat
    PROVE  Reach(k + 1, m) = {n \in Name : \E l \in Reach(k, m) : Edge(l, n)}
<1>1. Reach(k + 1, m) = UNION {Targets(l) : l \in Reach(k, m)} /\ Reach(k, m) \in SUBSET Name
  BY ReachSteps
<1>2. \A l \in Reach(k, m) : Targets(l) = {n \in Name : Edge(l, n)}
  BY <1>1, TargetsAreEdges
<1> QED
  BY <1>1, <1>2

LEMMA EarlierStart ==
    ASSUME NEW m \in Name, NEW l \in Name, Edge(m, l), NEW k \in Nat
    PROVE  Reach(k, l) \subseteq Reach(k + 1, m)
<1> DEFINE P == {i \in Nat : Reach(i, l) \subseteq Reach(i + 1, m)}
<1>1. 0 \in P
  <2>1. Reach(0, l) = {l} /\ Reach(0, m) = {m}
    BY ReachSteps
  <2>2. Reach(0 + 1, m) = {n \in Name : \E x \in Reach(0, m) : Edge(x, n)}
    BY LongerWay
  <2> QED
    BY <2>1, <2>2
<1>2. ASSUME NEW i \in P PROVE i + 1 \in P
  <2>1. Reach(i + 1, l) = {n \in Name : \E x \in Reach(i, l) : Edge(x, n)}
    BY LongerWay
  <2>2. i + 1 \in Nat
    OBVIOUS
  <2>3. Reach((i + 1) + 1, m) = {n \in Name : \E x \in Reach(i + 1, m) : Edge(x, n)}
    BY <2>2, LongerWay
  <2> QED
    BY <2>1, <2>2, <2>3
<1>3. P = Nat
  <2> HIDE DEF P
  <2> QED
    BY <1>1, <1>2, SetInduction DEF P
<1> QED
  BY <1>3

(* Nothing leads to a visited name but visited names, each at a level that *)
(* is lower by at least the length of the way.                             *)
LEMMA WaysRise ==
    ASSUME WalkInv, NEW k \in Nat, NEW m \in Name, NEW n \in visited, n \in Reach(k, m)
    PROVE  m \in visited /\ level[m] + k <= level[n]
<1> DEFINE P == {i \in Nat : \A x \in visited : x \in Reach(i, m) =>
                                m \in visited /\ level[m] + i <= level[x]}
<1>1. level \in [Name -> Nat] /\ visited \subseteq Name
  BY DEF WalkInv, WalkTypes, Nodes
<1>2. 0 \in P
  <2>1. Reach(0, m) = {m}
    BY ReachSteps
  <2> QED
    BY <1>1, <2>1
<1>3. ASSUME NEW i \in P PROVE i + 1 \in P
  <2> SUFFICES ASSUME NEW x \in visited, x \in Reach(i + 1, m)
               PROVE  m \in visited /\ level[m] + (i + 1) <= level[x]
    OBVIOUS
  <2>1. PICK l \in Reach(i, m) : Edge(l, x)
    BY LongerWay
  <2>2. l \in visited /\ level[l] < level[x]
    BY <1>1, <2>1 DEF WalkInv, WalkTypes, QueueIsReleased, Released, Levels, Edge
  <2>3. m \in visited /\ level[m] + i <= level[l]
    BY <2>1, <2>2
  <2> QED
    BY <1>1, <2>2, <2>3
<1>4. P = Nat
  <2> HIDE DEF P
  <2> QED
    BY <1>2, <1>3, SetInduction DEF P
<1> QED
  BY <1>4

LEMMA VisitedAreOffCycles ==
    ASSUME WalkInv
    PROVE  visited \cap AfterCycle = {}
<1> SUFFICES ASSUME NEW n \in visited, n \in AfterCycle PROVE FALSE
  OBVIOUS
<1>0. Cardinality(Name) \in Nat
  BY StepsFinite, FS_CardinalityType
<1>1. PICK c \in OnCycle, k \in Length : n \in Reach(k, c)
  BY DEF AfterCycle
<1>2. PICK j \in Length \ {0} : c \in Reach(j, c)
  BY DEF OnCycle
<1>3. c \in Name /\ k \in Nat /\ j \in Nat /\ j # 0
  BY <1>0 DEF OnCycle, Length
<1>4. c \in visited
  BY <1>1, <1>3, WaysRise
<1>5. level[c] + j <= level[c]
  BY <1>2, <1>3, <1>4, WaysRise
<1>6. level[c] \in Nat
  BY <1>3 DEF WalkInv, WalkTypes
<1> QED
  BY <1>3, <1>5, <1>6

(* Whoever is left when the queue is empty has somebody before him who is  *)
(* left too, so that a way back from him comes to a name twice.            *)
LEMMA LeftAreAfterCycles ==
    ASSUME WalkInv, queue = {}, NEW n \in Nodes \ visited
    PROVE  n \in AfterCycle
<1> DEFINE B == Nodes \ visited
           h == [x \in B |-> CHOOSE y \in B : Edge(y, x)]
           N == Cardinality(Name)
<1>0. N \in Nat /\ B \subseteq Name
  BY StepsFinite, FS_CardinalityType DEF Nodes
<1>1. ASSUME NEW x \in B PROVE \E y \in B : Edge(y, x)
  <2>1. ~Released(x)
    BY DEF WalkInv, QueueIsReleased
  <2>2. PICK y \in Step : Edge(y, x) /\ y \notin visited
    BY <2>1 DEF Released
  <2> QED
    BY <2>2, StepsFinite DEF Nodes
<1>2. h \in [B -> B] /\ \A x \in B : Edge(h[x], x)
  BY <1>1
<1> HIDE DEF B, h
<1>3. PICK p \in [Nat -> B] : p[0] = n /\ \A i \in Nat : p[i + 1] = h[p[i]]
  <2>1. n \in B
    BY DEF B
  <2>2. \E g : Iterates(g, n, h, B)
    BY <1>2, <2>1, Iteration, Zenon
  <2> QED
    BY <2>2, Zenon DEF Iterates
<1>4. \A i \in Nat : p[i] \in Name /\ Edge(p[i + 1], p[i])
  BY <1>0, <1>2, <1>3
<1> DEFINE P == {d \in Nat : \A i \in Nat : p[i] \in Reach(d, p[i + d])}
<1>5. P = Nat
  <2>1. 0 \in P
    <3>1. ASSUME NEW i \in Nat PROVE p[i] \in Reach(0, p[i + 0])
      <4>1. i + 0 = i
        OBVIOUS
      <4>2. Reach(0, p[i]) = {p[i]}
        BY <1>4, ReachSteps
      <4> QED
        BY <4>1, <4>2
    <3> QED
      BY <3>1
  <2>2. ASSUME NEW d \in P PROVE d + 1 \in P
    <3>1. ASSUME NEW i \in Nat PROVE p[i] \in Reach(d + 1, p[i + (d + 1)])
      <4>1. i + d \in Nat /\ (i + d) + 1 = i + (d + 1) /\ (i + d) + 1 \in Nat
        OBVIOUS
      <4>2. Reach(d, p[i + d]) \subseteq Reach(d + 1, p[(i + d) + 1])
        BY <1>4, <4>1, EarlierStart
      <4> QED
        BY <4>1, <4>2
    <3> QED
      BY <3>1
  <2> HIDE DEF P
  <2> QED
    BY <2>1, <2>2, SetInduction DEF P
<1>6. \A i, d \in Nat : p[i] \in Reach(d, p[i + d])
  BY <1>5
<1>7. PICK i \in 0..N, j \in 0..N : i < j /\ p[i] = p[j]
  <2> DEFINE q == [x \in 0..N |-> p[x]]
  <2>1. IsFiniteSet(0..N) /\ Cardinality(0..N) = N + 1
    BY <1>0, FS_Interval
  <2>2. q \in [0..N -> Name]
    BY <1>0, <1>4
  <2>3. \E x, y \in 0..N : x # y /\ q[x] = q[y]
    <3> HIDE DEF q, N
    <3>1. N + 1 > N
      BY <1>0
    <3>2. Cardinality(0..N) > Cardinality(Name)
      BY <2>1, <3>1 DEF N
    <3> QED
      BY <2>1, <2>2, <3>2, StepsFinite, FS_PigeonHole
  <2>4. PICK x \in 0..N, y \in 0..N : x # y /\ p[x] = p[y]
    BY <2>3
  <2>5. x < y \/ y < x
    BY <1>0, <2>4
  <2> QED
    BY <2>4, <2>5
<1>8. i \in Length /\ j - i \in Length \ {0} /\ i \in Nat /\ j - i \in Nat /\ i + (j - i) = j /\ 0 + i = i
  BY <1>0, <1>7 DEF Length
<1>9. p[i] \in Reach(j - i, p[j])
  BY <1>6, <1>8
<1>10. p[i] \in OnCycle
  BY <1>4, <1>7, <1>8, <1>9 DEF OnCycle
<1>11. n \in Reach(i, p[i])
  BY <1>3, <1>6, <1>8
<1> QED
  BY <1>0, <1>8, <1>10, <1>11 DEF AfterCycle, Nodes

(* A way leads from a root to each visited name, through all the levels.   *)
LEMMA LevelsAreReached ==
    ASSUME WalkInv, NEW n \in visited
    PROVE  /\ \E r \in ViewRoots : n \in Reach(level[n], r)
           /\ \A i \in 0..level[n] : \E m \in visited : level[m] = i
<1> DEFINE P == {k \in Nat : \A x \in visited : level[x] = k =>
                    /\ \E r \in ViewRoots : x \in Reach(k, r)
                    /\ \A i \in 0..k : \E m \in visited : level[m] = i}
<1>1. level \in [Name -> Nat] /\ visited \subseteq Nodes /\ visited \subseteq Name /\ Weighted
  BY DEF WalkInv, WalkTypes, Nodes
<1>2. \A x \in visited : \A m \in Step : Edge(m, x) => m \in visited /\ level[m] < level[x]
  BY <1>1 DEF WalkInv, QueueIsReleased, Released, Levels
<1>3. 0 \in P
  <2> SUFFICES ASSUME NEW x \in visited, level[x] = 0
               PROVE  \E r \in ViewRoots : x \in Reach(0, r)
    <3>1. \A i \in 0..0 : i = 0
      OBVIOUS
    <3> QED
      BY <3>1
  <2>1. \A m \in Step : ~Edge(m, x)
    BY <1>1, <1>2
  <2>2. x \in ViewRoots
    BY <1>1, <2>1, RootsHaveNoEdges DEF Nodes
  <2>3. Reach(0, x) = {x}
    BY <1>1, ReachSteps
  <2> QED
    BY <2>2, <2>3
<1>4. ASSUME NEW k \in P PROVE k + 1 \in P
  <2> SUFFICES ASSUME NEW x \in visited, level[x] = k + 1
               PROVE  /\ \E r \in ViewRoots : x \in Reach(k + 1, r)
                      /\ \A i \in 0..(k + 1) : \E m \in visited : level[m] = i
    OBVIOUS
  <2>1. PICK m \in visited : Edge(m, x) /\ level[x] = level[m] + 1
    BY <1>1 DEF WalkInv, Levels
  <2>2. level[m] = k
    BY <1>1, <2>1
  <2>3. PICK r \in ViewRoots : m \in Reach(k, r)
    BY <2>2
  <2>4. r \in Name
    BY StepsFinite DEF ViewRoots
  <2>5. x \in Reach(k + 1, r)
    BY <1>1, <2>1, <2>3, <2>4, LongerWay
  <2>6. \A i \in 0..k : \E y \in visited : level[y] = i
    BY <2>2
  <2>7. \A i \in 0..(k + 1) : i \in 0..k \/ i = k + 1
    OBVIOUS
  <2> QED
    BY <2>3, <2>5, <2>6, <2>7
<1>5. P = Nat
  <2> HIDE DEF P
  <2> QED
    BY <1>3, <1>4, SetInduction DEF P
<1>6. level[n] \in P
  BY <1>1, <1>5
<1> QED
  BY <1>6

LEMMA LevelsAreLengths ==
    ASSUME WalkInv, NEW n \in visited
    PROVE  level[n] \in Length
<1> DEFINE N == Cardinality(Name)
           L == level[n]
           q == [i \in 0..L |-> CHOOSE m \in visited : level[m] = i]
<1>1. N \in Nat /\ L \in Nat /\ visited \subseteq Name
  BY StepsFinite, FS_CardinalityType DEF WalkInv, WalkTypes, Nodes
<1>2. \A i \in 0..L : q[i] \in visited /\ level[q[i]] = i
  BY LevelsAreReached
<1>3. q \in [0..L -> Name]
  BY <1>1, <1>2
<1>4. IsFiniteSet(0..L) /\ Cardinality(0..L) = L + 1
  <2> HIDE DEF L
  <2> QED
    BY <1>1, FS_Interval
<1> HIDE DEF q
<1>5. ~(Cardinality(0..L) > Cardinality(Name))
  <2> SUFFICES ASSUME Cardinality(0..L) > Cardinality(Name) PROVE FALSE
    OBVIOUS
  <2>1. \E x, y \in 0..L : x # y /\ q[x] = q[y]
    <3> HIDE DEF L
    <3> QED
      BY <1>3, <1>4, StepsFinite, FS_PigeonHole
  <2> QED
    BY <1>2, <2>1
<1> QED
  BY <1>1, <1>4, <1>5 DEF Length

LEMMA LevelsAreDepths ==
    ASSUME WalkInv, NEW n \in visited
    PROVE  level[n] = Depth(n)
<1> DEFINE S == {k \in Length : \E r \in ViewRoots : n \in Reach(k, r)}
<1>0. Cardinality(Name) \in Nat /\ level \in [Name -> Nat] /\ visited \subseteq Name
  BY StepsFinite, FS_CardinalityType DEF WalkInv, WalkTypes, Nodes
<1>1. level[n] \in S
  BY LevelsAreReached, LevelsAreLengths
<1>2. ASSUME NEW k \in S PROVE k <= level[n]
  <2>1. PICK r \in ViewRoots : n \in Reach(k, r)
    OBVIOUS
  <2>2. k \in Nat /\ r \in Name
    BY <1>0, StepsFinite DEF Length, ViewRoots
  <2>3. r \in visited /\ level[r] + k <= level[n]
    BY <2>1, <2>2, WaysRise
  <2> QED
    BY <1>0, <2>2, <2>3
<1>3. S \subseteq Nat
  BY <1>0 DEF Length
<1> HIDE DEF S
<1>4. \A y \in S : level[n] >= y
  BY <1>0, <1>2, <1>3
<1>5. Max(S) \in S /\ \A y \in S : Max(S) >= y
  BY <1>1, <1>4, Zenon DEF Max
<1>6. Max(S) = level[n]
  <2>1. Max(S) >= level[n] /\ level[n] >= Max(S)
    BY <1>1, <1>4, <1>5
  <2>2. Max(S) \in Nat /\ level[n] \in Nat
    BY <1>1, <1>3, <1>5
  <2> QED
    BY <2>1, <2>2
<1> QED
  BY <1>6 DEF Depth, S

(* So the names with a stage are those no cycle reaches, at their depths.  *)
LEMMA WalkEndsInDepths == WalkInv => StagesAreDepths
<1> SUFFICES ASSUME WalkInv, queue = {}
             PROVE  /\ visited = (Step \cup UNION {Targets(s) : s \in Step}) \ AfterCycle
                    /\ \A n \in visited : level[n] = Depth(n)
  BY DEF StagesAreDepths
<1>1. Step \cup UNION {Targets(s) : s \in Step} = Nodes
  <2>1. \A s \in Step : Targets(s) = {n \in Name : Edge(s, n)}
    BY StepsFinite, TargetsAreEdges
  <2> QED
    BY <2>1, StepsFinite DEF Nodes
<1>2. visited \subseteq Nodes
  BY DEF WalkInv, WalkTypes
<1> QED
  BY <1>1, <1>2, VisitedAreOffCycles, LeftAreAfterCycles, LevelsAreDepths

=============================================================================
