------------------------------- MODULE DagProofs -------------------------------
(* Proofs about the sorts of Dag, for every finite set of edges: the levels  *)
(* are the layering of the graph, and none if it has a circle; what is       *)
(* offered for scenarios are chains, the longest ones among them.            *)
(*                                                                           *)
(* The loop is a recursive function.  Induction on its turns rests on a fact *)
(* about sets of numbers: one that is not empty has a least element.         *)
EXTENDS Dag, FiniteSetTheorems, WellFoundedInduction, TLAPS

(* A set of natural numbers has a least element, unless it is empty.         *)
LEMMA LeastNumber ==
  ASSUME NEW T \in SUBSET Nat, T # {}
  PROVE  \E x \in T : \A y \in T : x <= y
<1> DEFINE R == {p \in Nat \X Nat : p[1] < p[2]}
<1>1. IsWellFoundedOn(OpToRel(<, Nat), Nat)
  BY NatLessThanWellFounded
<1>2. IsWellFoundedOn(R, Nat)
  BY <1>1 DEF OpToRel
<1>3. ASSUME NEW x \in Nat, NEW y \in Nat, <<y, x>> \notin R PROVE x <= y
  BY <1>3
<1> HIDE DEF R
<1>4. \E x \in T : \A y \in T : <<y, x>> \notin R
  BY <1>2, WFMin
<1> QED BY <1>3, <1>4

(* A set that has 0 and with every number the next one has them all.         *)
LEMMA NatSubset ==
  ASSUME NEW S, 0 \in S, \A n \in Nat : n \in S => n + 1 \in S
  PROVE  Nat \subseteq S
<1> SUFFICES ASSUME Nat \ S # {} PROVE FALSE
  OBVIOUS
<1>1. PICK n \in Nat \ S : \A m \in Nat \ S : n <= m
  BY LeastNumber
<1>2. n - 1 \in Nat /\ n - 1 \in S
  BY <1>1
<1> QED BY <1>1, <1>2

(* The same up to a bound.                                                   *)
LEMMA UpToSubset ==
  ASSUME NEW N \in Nat, NEW S, 0 \in S, \A n \in 0 .. N - 1 : n \in S => n + 1 \in S
  PROVE  0 .. N \subseteq S
<1> DEFINE T == {n \in Nat : n \in 0 .. N => n \in S}
<1>1. 0 \in T /\ \A n \in Nat : n \in T => n + 1 \in T
  OBVIOUS
<1> HIDE DEF T
<1>2. Nat \subseteq T
  BY <1>1, NatSubset
<1> QED BY <1>2 DEF T

----------------------------------------------------------------------------
(* The turns of the loop. *)

\* The nodes not yet erased after k turns, and those the next turn erases.
Rest(e, k) == DOMAIN DegreesAfter(e)[k]
Free(e, k) == SameLevel(DegreesAfter(e)[k])

(* A finite graph has finitely many nodes and predecessors.                  *)
LEMMA GraphFinite ==
  ASSUME NEW e, IsFiniteSet(e)
  PROVE  /\ IsFiniteSet(NodesOf(e)) /\ Cardinality(NodesOf(e)) \in Nat
         /\ \A n : /\ Predecessors(e, n) \subseteq NodesOf(e)
                   /\ IsFiniteSet(Predecessors(e, n))
<1>1. IsFiniteSet({d[1] : d \in e}) /\ IsFiniteSet({d[2] : d \in e})
  <2> DEFINE f == [d \in e |-> d[1]]
             g == [d \in e |-> d[2]]
  <2>1. f \in Surjection(e, {d[1] : d \in e}) /\ g \in Surjection(e, {d[2] : d \in e})
    BY DEF Surjection
  <2> HIDE DEF f, g
  <2> QED BY <2>1, FS_Surjection
<1>2. IsFiniteSet(NodesOf(e)) /\ Cardinality(NodesOf(e)) \in Nat
  BY <1>1, FS_Union, FS_CardinalityType DEF NodesOf
<1>3. ASSUME NEW n PROVE Predecessors(e, n) \subseteq NodesOf(e)
  BY DEF Predecessors, NodesOf
<1> QED BY <1>2, <1>3, FS_Subset

(* The recursive function is the one its definition describes.               *)
LEMMA DegreesUnroll ==
  ASSUME NEW e, IsFiniteSet(e)
  PROVE  DegreesAfter(e) = [k \in 0 .. Cardinality(NodesOf(e)) |->
           IF k = 0 THEN Indegrees(e) ELSE Erased(e, DegreesAfter(e)[k - 1])]
<1> DEFINE c == Cardinality(NodesOf(e))
           Unrolls(n, g) == g = [k \in 0 .. n |-> IF k = 0 THEN Indegrees(e)
                                                  ELSE Erased(e, g[k - 1])]
           S == {n \in Nat : \E g : Unrolls(n, g)}
<1>1. 0 \in S
  <2>1. Unrolls(0, [k \in 0 .. 0 |-> Indegrees(e)])
    OBVIOUS
  <2> QED BY <2>1
<1>2. ASSUME NEW n \in Nat, n \in S PROVE n + 1 \in S
  <2>1. PICK g : Unrolls(n, g)
    BY <1>2
  <2> DEFINE h == [k \in 0 .. n + 1 |-> IF k <= n THEN g[k] ELSE Erased(e, g[n])]
  <2>2. ASSUME NEW k \in 0 .. n + 1
        PROVE  h[k] = IF k = 0 THEN Indegrees(e) ELSE Erased(e, h[k - 1])
    <3>1. CASE k = 0
      BY <2>1, <3>1
    <3>2. CASE k \in 1 .. n
      BY <2>1, <3>2
    <3>3. CASE k = n + 1
      BY <2>1, <3>3
    <3> QED BY <3>1, <3>2, <3>3
  <2>3. h = [k \in 0 .. n + 1 |-> h[k]]
    OBVIOUS
  <2> HIDE DEF h
  <2>4. Unrolls(n + 1, h)
    BY <2>2, <2>3
  <2> QED BY <2>4
<1> HIDE DEF S
<1>3. Nat \subseteq S
  BY <1>1, <1>2, NatSubset
<1>4. \E g : Unrolls(c, g)
  BY <1>3, GraphFinite DEF S
<1>5. DegreesAfter(e) = CHOOSE g : Unrolls(c, g)
  BY DEF DegreesAfter
<1> QED BY <1>4, <1>5

(* Before the first turn every node is there with its in-degree.             *)
LEMMA FirstTurn ==
  ASSUME NEW e, IsFiniteSet(e)
  PROVE  DegreesAfter(e)[0] = Indegrees(e) /\ Rest(e, 0) = NodesOf(e)
<1>1. 0 \in 0 .. Cardinality(NodesOf(e))
  BY GraphFinite
<1>2. DegreesAfter(e)[0] = Indegrees(e)
  BY <1>1, DegreesUnroll
<1> QED BY <1>2 DEF Rest, Indegrees

(* A turn erases the nodes that are free.                                    *)
LEMMA NextTurn ==
  ASSUME NEW e, IsFiniteSet(e), NEW k \in 0 .. Cardinality(NodesOf(e)) - 1
  PROVE  /\ DegreesAfter(e)[k + 1] = Erased(e, DegreesAfter(e)[k])
         /\ Rest(e, k + 1) = Rest(e, k) \ Free(e, k)
<1>1. k + 1 \in 0 .. Cardinality(NodesOf(e)) /\ k + 1 # 0 /\ (k + 1) - 1 = k
  BY GraphFinite
<1>2. DegreesAfter(e)[k + 1] = Erased(e, DegreesAfter(e)[k])
  BY <1>1, DegreesUnroll
<1> QED BY <1>2 DEF Rest, Free, Erased

(* After every turn the degree of a node is the number of its predecessors   *)
(* that are still there.                                                     *)
LEMMA DegreesCount ==
  ASSUME NEW e, IsFiniteSet(e)
  PROVE  \A k \in 0 .. Cardinality(NodesOf(e)) :
           /\ Rest(e, k) \subseteq NodesOf(e)
           /\ \A n \in Rest(e, k) :
                DegreesAfter(e)[k][n] = Cardinality(Predecessors(e, n) \cap Rest(e, k))
<1> DEFINE c == Cardinality(NodesOf(e))
           S == {k \in 0 .. c :
                   /\ Rest(e, k) \subseteq NodesOf(e)
                   /\ \A n \in Rest(e, k) :
                        DegreesAfter(e)[k][n] = Cardinality(Predecessors(e, n) \cap Rest(e, k))}
<1>1. c \in Nat
  BY GraphFinite
<1>2. 0 \in S
  <2>1. ASSUME NEW n \in NodesOf(e)
        PROVE  Indegrees(e)[n] = Cardinality(Predecessors(e, n) \cap NodesOf(e))
    <3>1. Predecessors(e, n) \cap NodesOf(e) = Predecessors(e, n)
      BY GraphFinite
    <3> QED BY <3>1 DEF Indegrees
  <2> QED BY <1>1, <2>1, FirstTurn
<1>3. ASSUME NEW k \in 0 .. c - 1, k \in S PROVE k + 1 \in S
  <2> DEFINE F == Free(e, k)
  <2>1. /\ DegreesAfter(e)[k + 1] = Erased(e, DegreesAfter(e)[k])
        /\ Rest(e, k + 1) = Rest(e, k) \ F
    BY NextTurn
  <2>2. F \subseteq Rest(e, k)
    BY DEF Free, SameLevel, Rest
  <2>3. ASSUME NEW n \in Rest(e, k + 1)
        PROVE  DegreesAfter(e)[k + 1][n] = Cardinality(Predecessors(e, n) \cap Rest(e, k + 1))
    <3> DEFINE P == Predecessors(e, n) \cap Rest(e, k)
    <3>1. DegreesAfter(e)[k + 1][n]
            = DegreesAfter(e)[k][n] - Cardinality(Predecessors(e, n) \cap F)
      BY <2>1 DEF Erased, Free, Rest
    <3>2. DegreesAfter(e)[k][n] = Cardinality(P)
      BY <1>3, <2>1
    <3>3. IsFiniteSet(P)
      BY GraphFinite, FS_Intersection
    <3>4. /\ Predecessors(e, n) \cap F = P \cap F
          /\ Predecessors(e, n) \cap Rest(e, k + 1) = P \ F
      BY <2>1, <2>2
    <3> HIDE DEF P, F
    <3>5. Cardinality(P \ F) = Cardinality(P) - Cardinality(P \cap F)
      BY <3>3, FS_Difference
    <3> QED BY <3>1, <3>2, <3>4, <3>5
  <2>4. Rest(e, k + 1) \subseteq NodesOf(e)
    BY <1>3, <2>1
  <2> QED BY <1>1, <2>3, <2>4
<1> HIDE DEF S
<1>4. 0 .. c \subseteq S
  BY <1>1, <1>2, <1>3, UpToSubset
<1> QED BY <1>4 DEF S

(* The nodes a turn erases are those without a predecessor left.             *)
LEMMA FreeNodes ==
  ASSUME NEW e, IsFiniteSet(e), NEW k \in 0 .. Cardinality(NodesOf(e))
  PROVE  Free(e, k) = {n \in Rest(e, k) : Predecessors(e, n) \cap Rest(e, k) = {}}
<1>1. ASSUME NEW n \in Rest(e, k)
      PROVE  DegreesAfter(e)[k][n] = 0 <=> Predecessors(e, n) \cap Rest(e, k) = {}
  <2>1. IsFiniteSet(Predecessors(e, n) \cap Rest(e, k))
    BY GraphFinite, FS_Intersection
  <2> QED BY <2>1, DegreesCount, FS_EmptySet
<1> QED BY <1>1 DEF Free, SameLevel, Rest

(* What was erased stays erased, and went in one of the turns.               *)
LEMMA ErasedInTurns ==
  ASSUME NEW e, IsFiniteSet(e), NEW k \in 0 .. Cardinality(NodesOf(e))
  PROVE  NodesOf(e) \ Rest(e, k) = UNION {Free(e, j) : j \in 0 .. k - 1}
<1> DEFINE c == Cardinality(NodesOf(e))
           S == {i \in 0 .. c : NodesOf(e) \ Rest(e, i) = UNION {Free(e, j) : j \in 0 .. i - 1}}
<1>1. c \in Nat
  BY GraphFinite
<1>2. 0 \in S
  <2>1. NodesOf(e) \ Rest(e, 0) = {}
    BY FirstTurn
  <2>2. UNION {Free(e, j) : j \in 0 .. 0 - 1} = {}
    OBVIOUS
  <2> QED BY <1>1, <2>1, <2>2
<1>3. ASSUME NEW i \in 0 .. c - 1, i \in S PROVE i + 1 \in S
  <2>1. Rest(e, i + 1) = Rest(e, i) \ Free(e, i)
    BY NextTurn
  <2>2. Free(e, i) \subseteq NodesOf(e)
    <3>1. i \in 0 .. c
      BY <1>1
    <3> QED BY <3>1, DegreesCount, FreeNodes
  <2>3. 0 .. (i + 1) - 1 = (0 .. i - 1) \cup {i}
    BY <1>1
  <2>4. UNION {Free(e, j) : j \in 0 .. (i + 1) - 1}
          = (UNION {Free(e, j) : j \in 0 .. i - 1}) \cup Free(e, i)
    BY <2>3
  <2>5. NodesOf(e) \ Rest(e, i + 1) = (NodesOf(e) \ Rest(e, i)) \cup Free(e, i)
    BY <2>1, <2>2
  <2> QED BY <1>1, <1>3, <2>4, <2>5
<1> HIDE DEF S
<1>4. 0 .. c \subseteq S
  BY <1>1, <1>2, <1>3, UpToSubset
<1> QED BY <1>4 DEF S

(* Later turns have less left.                                               *)
LEMMA RestShrinks ==
  ASSUME NEW e, IsFiniteSet(e), NEW k \in 0 .. Cardinality(NodesOf(e)), NEW i \in 0 .. k
  PROVE  Rest(e, k) \subseteq Rest(e, i)
<1>1. i \in 0 .. Cardinality(NodesOf(e))
  BY GraphFinite
<1>2. UNION {Free(e, j) : j \in 0 .. i - 1} \subseteq UNION {Free(e, j) : j \in 0 .. k - 1}
  BY GraphFinite
<1> QED BY <1>1, <1>2, ErasedInTurns, DegreesCount

(* A turn that finds nothing free is followed by others that do not.         *)
LEMMA StuckStaysStuck ==
  ASSUME NEW e, IsFiniteSet(e), NEW i \in 0 .. Cardinality(NodesOf(e)), Free(e, i) = {},
         NEW k \in i .. Cardinality(NodesOf(e))
  PROVE  Free(e, k) = {}
<1> DEFINE c == Cardinality(NodesOf(e))
           S == {j \in Nat : i + j <= c => Rest(e, i + j) = Rest(e, i)}
<1>1. c \in Nat
  BY GraphFinite
<1>2. 0 \in S
  OBVIOUS
<1>3. ASSUME NEW j \in Nat, j \in S PROVE j + 1 \in S
  <2>1. SUFFICES ASSUME i + (j + 1) <= c PROVE Rest(e, i + (j + 1)) = Rest(e, i)
    OBVIOUS
  <2>2. i + j \in 0 .. c - 1 /\ i + (j + 1) = (i + j) + 1
    BY <1>1, <2>1
  <2>3. Rest(e, i + j) = Rest(e, i)
    BY <1>1, <1>3, <2>2
  <2>4. i + j \in 0 .. c
    BY <1>1, <2>2
  <2>5. Free(e, i + j) = {}
    BY <2>3, <2>4, FreeNodes
  <2>6. Rest(e, (i + j) + 1) = Rest(e, i + j)
    BY <2>2, <2>5, NextTurn
  <2> QED BY <2>2, <2>3, <2>6
<1>4. k - i \in Nat /\ i + (k - i) = k /\ k <= c /\ k \in 0 .. c
  BY <1>1
<1>5. Nat \subseteq S
  <2> HIDE DEF S
  <2> QED BY <1>2, <1>3, NatSubset
<1>6. k - i \in S
  <2> HIDE DEF S
  <2> QED BY <1>4, <1>5
<1>7. Rest(e, k) = Rest(e, i)
  BY <1>4, <1>6
<1> QED BY <1>4, <1>7, FreeNodes

(* There are at most as many turns as nodes: the last one finds nothing.     *)
LEMMA LastTurnStuck ==
  ASSUME NEW e, IsFiniteSet(e)
  PROVE  Free(e, Cardinality(NodesOf(e))) = {}
<1> DEFINE c == Cardinality(NodesOf(e))
           S == {k \in 0 .. c : \/ Free(e, c) = {}
                                \/ Cardinality(Rest(e, k)) <= c - k}
<1>1. c \in Nat /\ c \in 0 .. c
  BY GraphFinite
<1>2. 0 \in S
  BY <1>1, FirstTurn
<1>3. ASSUME NEW k \in 0 .. c - 1, k \in S PROVE k + 1 \in S
  <2> SUFFICES ASSUME Free(e, c) # {} PROVE Cardinality(Rest(e, k + 1)) <= c - (k + 1)
    BY <1>1
  <2>1. k \in 0 .. c /\ c \in k .. c
    BY <1>1
  <2>2. Free(e, k) # {}
    BY <2>1, StuckStaysStuck
  <2>3. PICK n \in Free(e, k) : TRUE
    BY <2>2
  <2>4. n \in Rest(e, k) /\ Free(e, k) \subseteq Rest(e, k)
    BY <2>1, FreeNodes
  <2>5. IsFiniteSet(Rest(e, k))
    BY <2>1, DegreesCount, GraphFinite, FS_Subset
  <2>6. Rest(e, k + 1) \subseteq Rest(e, k) \ {n}
    BY <2>3, NextTurn
  <2>7. /\ IsFiniteSet(Rest(e, k) \ {n})
        /\ Cardinality(Rest(e, k) \ {n}) = Cardinality(Rest(e, k)) - 1
    BY <2>4, <2>5, FS_RemoveElement
  <2>8. Cardinality(Rest(e, k + 1)) <= Cardinality(Rest(e, k)) - 1
    BY <2>6, <2>7, FS_Subset
  <2>9. /\ Cardinality(Rest(e, k)) \in Nat
        /\ Cardinality(Rest(e, k + 1)) \in Nat
    BY <2>5, <2>6, <2>7, FS_Subset, FS_CardinalityType
  <2> QED BY <1>1, <1>3, <2>8, <2>9
<1> HIDE DEF S
<1>4. c \in S
  BY <1>1, <1>2, <1>3, UpToSubset
<1>5. SUFFICES ASSUME Cardinality(Rest(e, c)) <= c - c PROVE Free(e, c) = {}
  BY <1>4 DEF S
<1>6. IsFiniteSet(Rest(e, c))
  BY <1>1, DegreesCount, GraphFinite, FS_Subset
<1>7. Rest(e, c) = {}
  BY <1>1, <1>5, <1>6, FS_EmptySet, FS_CardinalityType
<1> QED BY <1>1, <1>7, FreeNodes

\* The turns that erase something, counted.
Turns(e) == Cardinality({k \in DOMAIN DegreesAfter(e) : Free(e, k) # {}})

(* The turns that erase something are the first ones.                        *)
LEMMA TurnsAreFirst ==
  ASSUME NEW e, IsFiniteSet(e)
  PROVE  /\ Turns(e) \in 0 .. Cardinality(NodesOf(e))
         /\ Free(e, Turns(e)) = {}
         /\ \A k \in 0 .. Turns(e) - 1 : Free(e, k) # {}
<1> DEFINE c == Cardinality(NodesOf(e))
           U == {k \in 0 .. c : Free(e, k) # {}}
           Stuck == {k \in 0 .. c : Free(e, k) = {}}
<1>1. c \in Nat /\ c \in Stuck
  BY GraphFinite, LastTurnStuck
<1>2. PICK m \in Stuck : \A k \in Stuck : m <= k
  <2>1. Stuck \in SUBSET Nat /\ Stuck # {}
    BY <1>1
  <2> HIDE DEF Stuck
  <2> QED BY <2>1, LeastNumber
<1>3. U = 0 .. m - 1
  <2>1. ASSUME NEW k \in 0 .. c, k < m PROVE Free(e, k) # {}
    BY <1>1, <1>2, <2>1
  <2>2. ASSUME NEW k \in 0 .. c, k >= m PROVE Free(e, k) = {}
    BY <1>1, <1>2, <2>2, StuckStaysStuck
  <2>3. m \in 0 .. c
    BY <1>1, <1>2
  <2> QED BY <1>1, <2>1, <2>2, <2>3
<1>4. Cardinality(0 .. m - 1) = m
  BY <1>1, <1>2, FS_Interval
<1>5. DOMAIN DegreesAfter(e) = 0 .. c
  BY DegreesUnroll
<1>6. Turns(e) = m
  BY <1>3, <1>4, <1>5 DEF Turns
<1> QED BY <1>2, <1>3, <1>6

(* topologicalSort in these terms.                                           *)
LEMMA SortIs ==
  ASSUME NEW e, IsFiniteSet(e)
  PROVE  TopologicalSort(e) = IF Rest(e, Turns(e)) # {} THEN <<>>
                              ELSE [i \in 1 .. Turns(e) |-> Free(e, i - 1)]
BY DEF TopologicalSort, Rest, Turns, Free

(* A circle is never erased: none of its nodes is ever free.                 *)
LEMMA CircleStays ==
  ASSUME NEW e, IsFiniteSet(e), NEW T \in SUBSET NodesOf(e),
         \A n \in T : Predecessors(e, n) \cap T # {},
         NEW k \in 0 .. Cardinality(NodesOf(e))
  PROVE  T \subseteq Rest(e, k)
<1> DEFINE c == Cardinality(NodesOf(e))
           S == {i \in 0 .. c : T \subseteq Rest(e, i)}
<1>1. c \in Nat
  BY GraphFinite
<1>2. 0 \in S
  BY <1>1, FirstTurn
<1>3. ASSUME NEW i \in 0 .. c - 1, i \in S PROVE i + 1 \in S
  <2>1. i \in 0 .. c /\ i + 1 \in 0 .. c
    BY <1>1
  <2>2. T \cap Free(e, i) = {}
    BY <1>3, <2>1, FreeNodes
  <2> QED BY <1>3, <2>1, <2>2, NextTurn
<1> HIDE DEF S
<1>4. 0 .. c \subseteq S
  BY <1>1, <1>2, <1>3, UpToSubset
<1> QED BY <1>4 DEF S

(* The sort gives up exactly if there is a circle.                           *)
LEMMA GivesUpOnCircle ==
  ASSUME NEW e, IsFiniteSet(e)
  PROVE  Cyclic(e) <=> Rest(e, Turns(e)) # {}
<1> DEFINE R == Rest(e, Turns(e))
<1>1. Turns(e) \in 0 .. Cardinality(NodesOf(e)) /\ Free(e, Turns(e)) = {}
  BY TurnsAreFirst
<1>2. ASSUME R # {} PROVE Cyclic(e)
  <2>1. \A n \in R : Predecessors(e, n) \cap R # {}
    BY <1>1, FreeNodes
  <2>2. R \in (SUBSET NodesOf(e)) \ {{}}
    BY <1>1, <1>2, DegreesCount
  <2> HIDE DEF R
  <2> QED BY <2>1, <2>2 DEF Cyclic
<1>3. ASSUME Cyclic(e) PROVE R # {}
  <2>1. PICK T \in (SUBSET NodesOf(e)) \ {{}} : \A n \in T : Predecessors(e, n) \cap T # {}
    BY <1>3 DEF Cyclic
  <2> QED BY <1>1, <2>1, CircleStays
<1> QED BY <1>2, <1>3

(* topologicalSort returns the layering of the graph, each node one level    *)
(* after the last one it depends on, or nothing if there is a circle.        *)
THEOREM SortIsLayering ==
  ASSUME NEW e, IsFiniteSet(e)
  PROVE  /\ Cyclic(e) => TopologicalSort(e) = <<>>
         /\ ~Cyclic(e) => IsLayering(e, TopologicalSort(e))
<1>1. Cyclic(e) => TopologicalSort(e) = <<>>
  BY GivesUpOnCircle, SortIs
<1> SUFFICES ASSUME ~Cyclic(e) PROVE IsLayering(e, TopologicalSort(e))
  BY <1>1
<1> DEFINE m == Turns(e)
           L == TopologicalSort(e)
<1>2. m \in 0 .. Cardinality(NodesOf(e)) /\ Cardinality(NodesOf(e)) \in Nat
  BY TurnsAreFirst, GraphFinite
<1>3. Rest(e, m) = {} /\ L = [i \in 1 .. m |-> Free(e, i - 1)]
  BY GivesUpOnCircle, SortIs
<1> HIDE DEF L, m
<1>4. ASSUME NEW i \in 1 .. m + 1
      PROVE  UNION {L[j] : j \in 1 .. i - 1} = NodesOf(e) \ Rest(e, i - 1)
  <2>1. {L[j] : j \in 1 .. i - 1} = {Free(e, j) : j \in 0 .. (i - 1) - 1}
    <3>1. ASSUME NEW j \in 1 .. i - 1 PROVE j - 1 \in 0 .. (i - 1) - 1 /\ L[j] = Free(e, j - 1)
      BY <1>2, <1>3
    <3>2. ASSUME NEW j \in 0 .. (i - 1) - 1
          PROVE  j + 1 \in 1 .. i - 1 /\ L[j + 1] = Free(e, j)
      BY <1>2, <1>3
    <3> QED BY <3>1, <3>2
  <2>2. i - 1 \in 0 .. Cardinality(NodesOf(e))
    BY <1>2
  <2> QED BY <2>1, <2>2, ErasedInTurns
<1>5. UNION {L[i] : i \in DOMAIN L} = NodesOf(e)
  <2>1. m + 1 \in 1 .. m + 1 /\ (m + 1) - 1 = m /\ DOMAIN L = 1 .. m
    BY <1>2, <1>3
  <2>2. UNION {L[j] : j \in 1 .. (m + 1) - 1} = NodesOf(e) \ Rest(e, (m + 1) - 1)
    BY <1>4, <2>1
  <2> QED BY <1>3, <2>1, <2>2
<1>6. ASSUME NEW i \in DOMAIN L, NEW n \in L[i]
      PROVE  /\ \A j \in DOMAIN L : n \in L[j] => j = i
             /\ i > 1 => Predecessors(e, n) \cap L[i - 1] # {}
             /\ Predecessors(e, n) \subseteq UNION {L[j] : j \in 1 .. i - 1}
  <2>1. i \in 1 .. m /\ i - 1 \in 0 .. Cardinality(NodesOf(e)) /\ n \in Free(e, i - 1)
    BY <1>2, <1>3
  <2>2. n \in Rest(e, i - 1) /\ Predecessors(e, n) \cap Rest(e, i - 1) = {}
    BY <2>1, FreeNodes
  <2>3. \A j \in DOMAIN L : n \in L[j] => ~(j < i)
    <3>1. SUFFICES ASSUME NEW j \in 1 .. m, n \in L[j], j < i PROVE FALSE
      BY <1>2, <1>3
    <3>2. n \in UNION {L[h] : h \in 1 .. i - 1}
      BY <2>1, <3>1
    <3>3. i \in 1 .. m + 1
      BY <1>2, <2>1
    <3> QED BY <1>4, <2>2, <3>2, <3>3
  <2>4. \A j \in DOMAIN L : n \in L[j] => ~(j > i)
    <3>1. SUFFICES ASSUME NEW j \in 1 .. m, n \in L[j], j > i PROVE FALSE
      BY <1>2, <1>3
    <3>2. /\ j - 1 \in 0 .. Cardinality(NodesOf(e)) /\ i \in 0 .. j - 1
          /\ i - 1 \in 0 .. Cardinality(NodesOf(e)) - 1 /\ (i - 1) + 1 = i
      BY <1>2, <2>1, <3>1
    <3>3. n \in Rest(e, j - 1)
      BY <1>3, <3>1, <3>2, FreeNodes
    <3>4. n \in Rest(e, i)
      BY <3>2, <3>3, RestShrinks
    <3>5. Rest(e, (i - 1) + 1) = Rest(e, i - 1) \ Free(e, i - 1)
      BY <3>2, NextTurn
    <3> QED BY <2>1, <3>2, <3>4, <3>5
  <2>5. ASSUME i > 1 PROVE Predecessors(e, n) \cap L[i - 1] # {}
    <3>1. /\ i - 2 \in 0 .. Cardinality(NodesOf(e)) - 1 /\ (i - 2) + 1 = i - 1
          /\ i - 2 \in 0 .. Cardinality(NodesOf(e)) /\ L[i - 1] = Free(e, i - 2)
      BY <1>2, <1>3, <2>1, <2>5
    <3>2. Rest(e, i - 1) = Rest(e, i - 2) \ Free(e, i - 2)
      BY <3>1, NextTurn
    <3>3. Predecessors(e, n) \cap Rest(e, i - 2) # {}
      BY <2>2, <3>1, <3>2, FreeNodes
    <3> QED BY <2>2, <3>1, <3>2, <3>3
  <2>6. Predecessors(e, n) \subseteq UNION {L[j] : j \in 1 .. i - 1}
    <3>1. i \in 1 .. m + 1
      BY <1>2, <2>1
    <3> QED BY <1>4, <2>2, <3>1, GraphFinite
  <2> QED BY <1>2, <1>3, <2>1, <2>3, <2>4, <2>5, <2>6
<1> QED BY <1>5, <1>6 DEF IsLayering, L

----------------------------------------------------------------------------
(* The chains offered for scenarios. *)

(* What is kept of a pick is its beginning, connected throughout, and all of *)
(* it unless the next node is not connected.                                 *)
LEMMA KeptIsConnected ==
  ASSUME NEW e, NEW N, NEW m \in Nat, NEW p \in [1 .. m -> N]
  PROVE  \E h \in 0 .. m :
           /\ ConnectedPart(e, p) = [i \in 1 .. h |-> p[i]]
           /\ \A i \in 2 .. h : <<p[i - 1], p[i]>> \in e
           /\ h = m \/ (h >= 1 /\ <<p[h], p[h + 1]>> \notin e)
<1> DEFINE breaks == {i \in 2 .. m : ~CheckDependency(e, p[i - 1], p[i])}
<1>1. Len(p) = m /\ p \in Seq(N)
  OBVIOUS
<1>2. CASE breaks = {}
  <2>1. ConnectedPart(e, p) = p
    BY <1>1, <1>2 DEF ConnectedPart
  <2>2. p = [i \in 1 .. m |-> p[i]]
    OBVIOUS
  <2>3. \A i \in 2 .. m : <<p[i - 1], p[i]>> \in e
    BY <1>2 DEF CheckDependency
  <2>4. m \in 0 .. m /\ ConnectedPart(e, p) = [i \in 1 .. m |-> p[i]]
    BY <2>1, <2>2
  <2> QED BY <2>3, <2>4
<1>3. CASE breaks # {}
  <2> DEFINE b == CHOOSE i \in breaks : \A j \in breaks : i <= j
  <2>1. ConnectedPart(e, p) = SubSeq(p, 1, b - 1)
    BY <1>1, <1>3 DEF ConnectedPart
  <2>2. \E i \in breaks : \A j \in breaks : i <= j
    <3>1. breaks \in SUBSET Nat
      OBVIOUS
    <3> HIDE DEF breaks
    <3> QED BY <1>3, <3>1, LeastNumber
  <2>3. b \in breaks /\ \A j \in breaks : b <= j
    BY <2>2
  <2> HIDE DEF b
  <2>4. b \in 2 .. m /\ <<p[b - 1], p[b]>> \notin e
    BY <2>3 DEF CheckDependency
  <2>5. \A i \in 2 .. b - 1 : <<p[i - 1], p[i]>> \in e
    BY <2>3, <2>4 DEF CheckDependency
  <2>6. SubSeq(p, 1, b - 1) = [i \in 1 .. b - 1 |-> p[i]]
    BY <1>1, <2>4
  <2>7. b - 1 \in 0 .. m /\ b - 1 >= 1 /\ (b - 1) + 1 = b
    BY <2>4
  <2>8. ConnectedPart(e, p) = [i \in 1 .. b - 1 |-> p[i]]
    BY <2>1, <2>6
  <2>9. b - 1 = m \/ (b - 1 >= 1 /\ <<p[b - 1], p[(b - 1) + 1]>> \notin e)
    BY <2>4, <2>7
  <2> QED BY <2>5, <2>7, <2>8, <2>9
<1> QED BY <1>2, <1>3

(* The levels go up along an edge.                                           *)
LEMMA LevelsGoUp ==
  ASSUME NEW e, NEW L, IsLayering(e, L), NEW m \in Nat, DOMAIN L = 1 .. m,
         NEW a, NEW b, <<a, b>> \in e,
         NEW i \in 1 .. m, NEW j \in 1 .. m, a \in L[i], b \in L[j]
  PROVE  i < j
<1>1. a \in Predecessors(e, b)
  BY DEF Predecessors
<1>2. PICK h \in 1 .. j - 1 : a \in L[h]
  <2>1. Predecessors(e, b) \subseteq UNION {L[h] : h \in 1 .. j - 1}
    BY DEF IsLayering
  <2> QED BY <1>1, <2>1
<1>3. h \in 1 .. m
  BY <1>2
<1> QED BY <1>2, <1>3 DEF IsLayering

(* Numbers of 1 .. m that increase m times are these numbers.                *)
LEMMA IncreasingIsIdentity ==
  ASSUME NEW m \in Nat, NEW l \in [1 .. m -> 1 .. m], \A i \in 2 .. m : l[i - 1] < l[i]
  PROVE  \A i \in 1 .. m : l[i] = i
<1> DEFINE S == {n \in Nat : n \in 1 .. m => l[n] >= n}
           T == {n \in Nat : n < m => l[m - n] <= m - n}
<1>1. 0 \in S /\ 0 \in T
  OBVIOUS
<1>2. ASSUME NEW n \in Nat, n \in S PROVE n + 1 \in S
  <2>1. SUFFICES ASSUME n + 1 \in 1 .. m PROVE l[n + 1] >= n + 1
    OBVIOUS
  <2>2. CASE n = 0
    BY <2>1, <2>2
  <2>3. CASE n > 0
    <3>1. n + 1 \in 2 .. m /\ (n + 1) - 1 = n /\ n \in 1 .. m
      BY <2>1, <2>3
    <3>2. l[n] < l[n + 1] /\ l[n] >= n
      BY <1>2, <3>1
    <3> QED BY <3>1, <3>2
  <2> QED BY <2>2, <2>3
<1>3. ASSUME NEW n \in Nat, n \in T PROVE n + 1 \in T
  <2>1. SUFFICES ASSUME n + 1 < m PROVE l[m - (n + 1)] <= m - (n + 1)
    OBVIOUS
  <2>2. m - n \in 2 .. m /\ (m - n) - 1 = m - (n + 1) /\ m - (n + 1) \in 1 .. m /\ m - n \in 1 .. m
    BY <2>1
  <2>3. l[m - (n + 1)] < l[m - n] /\ l[m - n] <= m - n
    BY <1>3, <2>1, <2>2
  <2> QED BY <2>2, <2>3
<1>4. Nat \subseteq S
  <2> HIDE DEF S
  <2> QED BY <1>1, <1>2, NatSubset
<1>5. Nat \subseteq T
  <2> HIDE DEF T
  <2> QED BY <1>1, <1>3, NatSubset
<1>6. ASSUME NEW i \in 1 .. m PROVE l[i] = i
  <2>1. i \in Nat /\ m - i \in Nat /\ m - i < m /\ m - (m - i) = i
    OBVIOUS
  <2>2. l[i] >= i
    BY <1>4, <2>1
  <2>3. l[i] <= i
    BY <1>5, <2>1
  <2> QED BY <2>2, <2>3
<1> QED BY <1>6

(* A chain as long as there are levels has a node of each, in order.         *)
LEMMA LongChainClimbs ==
  ASSUME NEW e, NEW L, IsLayering(e, L), NEW m \in Nat, DOMAIN L = 1 .. m,
         NEW c \in [1 .. m -> NodesOf(e)], \A i \in 2 .. m : <<c[i - 1], c[i]>> \in e
  PROVE  \A i \in 1 .. m : c[i] \in L[i]
<1> DEFINE l == [i \in 1 .. m |-> CHOOSE j \in 1 .. m : c[i] \in L[j]]
<1>1. \A i \in 1 .. m : l[i] \in 1 .. m /\ c[i] \in L[l[i]]
  <2>1. ASSUME NEW i \in 1 .. m PROVE \E j \in 1 .. m : c[i] \in L[j]
    BY DEF IsLayering
  <2> QED BY <2>1
<1>2. l \in [1 .. m -> 1 .. m]
  BY <1>1
<1> HIDE DEF l
<1>3. \A i \in 2 .. m : l[i - 1] < l[i]
  <2>1. ASSUME NEW i \in 2 .. m PROVE l[i - 1] < l[i]
    <3>1. i \in 1 .. m /\ i - 1 \in 1 .. m
      OBVIOUS
    <3> QED BY <1>1, <3>1, LevelsGoUp
  <2> QED BY <2>1
<1>4. \A i \in 1 .. m : l[i] = i
  BY <1>2, <1>3, IncreasingIsIdentity
<1> QED BY <1>1, <1>4

\* The choices of one node per level.
Picks(e) == {p \in [1 .. Len(TopologicalSort(e)) -> NodesOf(e)] :
               \A i \in 1 .. Len(TopologicalSort(e)) : p[i] \in TopologicalSort(e)[i]}

(* There are as many levels as turns, or none.                               *)
LEMMA SortLength ==
  ASSUME NEW e, IsFiniteSet(e)
  PROVE  /\ Len(TopologicalSort(e)) \in Nat
         /\ DOMAIN TopologicalSort(e) = 1 .. Len(TopologicalSort(e))
         /\ TopologicalSort(e) \in Seq(SUBSET NodesOf(e))
<1>1. CASE Rest(e, Turns(e)) # {}
  <2>1. TopologicalSort(e) = <<>>
    BY <1>1, SortIs
  <2> QED BY <2>1
<1>2. CASE Rest(e, Turns(e)) = {}
  <2>1. Turns(e) \in Nat
    BY TurnsAreFirst, GraphFinite
  <2>2. \A i \in 1 .. Turns(e) : Free(e, i - 1) \in SUBSET NodesOf(e)
    BY TurnsAreFirst, GraphFinite, FreeNodes, DegreesCount
  <2> QED BY <1>2, <2>1, <2>2, SortIs
<1> QED BY <1>1, <1>2

(* A node of a level has its number among the chain's nodes.                 *)
LEMMA ChainClimbs ==
  ASSUME NEW e, IsFiniteSet(e), NEW c \in MultiTopologicalSort(e)
  PROVE  /\ Len(c) \in 2 .. Len(TopologicalSort(e)) /\ c \in [1 .. Len(c) -> NodesOf(e)]
         /\ \A i \in 1 .. Len(c) : c[i] \in TopologicalSort(e)[i]
         /\ \A i \in 2 .. Len(c) : <<c[i - 1], c[i]>> \in e
<1>1. PICK p \in Picks(e) : c = ConnectedPart(e, p) /\ Len(c) > 1
  BY DEF MultiTopologicalSort, Picks
<1>2. /\ Len(TopologicalSort(e)) \in Nat
      /\ p \in [1 .. Len(TopologicalSort(e)) -> NodesOf(e)]
      /\ \A i \in 1 .. Len(TopologicalSort(e)) : p[i] \in TopologicalSort(e)[i]
  BY SortLength DEF Picks
<1>3. PICK h \in 0 .. Len(TopologicalSort(e)) :
        c = [i \in 1 .. h |-> p[i]] /\ \A i \in 2 .. h : <<p[i - 1], p[i]>> \in e
  BY <1>1, <1>2, KeptIsConnected
<1>4. Len(c) = h /\ h > 1
  BY <1>1, <1>3
<1> QED BY <1>2, <1>3, <1>4

(* The chains the sort returns are chains of the graph.                      *)
LEMMA OfferedAreChains ==
  ASSUME NEW e, IsFiniteSet(e), NEW c \in MultiTopologicalSort(e)
  PROVE  IsChain(e, c)
<1>1. /\ Len(c) \in 2 .. Len(TopologicalSort(e))
      /\ c[1] \in TopologicalSort(e)[1]
      /\ \A i \in 2 .. Len(c) : <<c[i - 1], c[i]>> \in e
  BY ChainClimbs, SortLength
<1>2. TopologicalSort(e) # <<>>
  BY <1>1
<1>3. IsLayering(e, TopologicalSort(e))
  BY <1>2, SortIsLayering
<1>4. 1 \in DOMAIN TopologicalSort(e)
  BY <1>1, SortLength
<1>5. Predecessors(e, c[1]) = {}
  BY <1>1, <1>3, <1>4 DEF IsLayering
<1> QED BY <1>1, <1>5, SortLength DEF IsChain

(* A chain with as many nodes as there are levels is offered.                *)
LEMMA LongestAreOffered ==
  ASSUME NEW e, IsFiniteSet(e), Len(TopologicalSort(e)) > 1,
         NEW c \in [1 .. Len(TopologicalSort(e)) -> NodesOf(e)], IsChain(e, c)
  PROVE  c \in MultiTopologicalSort(e)
<1> DEFINE m == Len(TopologicalSort(e))
<1>1. m \in Nat /\ m > 1 /\ DOMAIN TopologicalSort(e) = 1 .. m /\ Len(c) = m
  BY SortLength
<1>2. IsLayering(e, TopologicalSort(e))
  <2>1. TopologicalSort(e) # <<>>
    BY <1>1
  <2> QED BY <2>1, SortIsLayering
<1>3. \A i \in 2 .. m : <<c[i - 1], c[i]>> \in e
  BY <1>1 DEF IsChain
<1>4. \A i \in 1 .. m : c[i] \in TopologicalSort(e)[i]
  BY <1>1, <1>2, <1>3, LongChainClimbs
<1>5. PICK h \in 0 .. m : /\ ConnectedPart(e, c) = [i \in 1 .. h |-> c[i]]
                          /\ h = m \/ (h >= 1 /\ <<c[h], c[h + 1]>> \notin e)
  BY <1>1, KeptIsConnected
<1>6. CASE h = m
  <2>1. ConnectedPart(e, c) = c
    BY <1>5, <1>6
  <2> QED BY <1>1, <1>4, <2>1 DEF MultiTopologicalSort
<1>7. CASE h # m
  <2>1. h \in Int /\ h >= 1 /\ h <= m /\ m \in Int
    <3> HIDE DEF m
    <3> QED BY <1>1, <1>5, <1>7
  <2>2. h + 1 \in 2 .. m /\ (h + 1) - 1 = h
    BY <1>7, <2>1
  <2> QED BY <1>3, <1>5, <1>7, <2>2
<1> QED BY <1>6, <1>7

(* From a circle nothing is offered.                                         *)
LEMMA CircleOffersNone ==
  ASSUME NEW e, IsFiniteSet(e), Cyclic(e)
  PROVE  MultiTopologicalSort(e) = {}
<1>1. TopologicalSort(e) = <<>>
  BY SortIsLayering
<1>2. Len(TopologicalSort(e)) = 0
  BY <1>1
<1> QED BY <1>2, ChainClimbs

(* multiTopologicalSort returns chains of the graph that start at a node     *)
(* without predecessor, among them every chain as long as there are levels,  *)
(* and none if there is a circle.                                            *)
THEOREM ChainsOffered ==
  ASSUME NEW e, IsFiniteSet(e)
  PROVE  LET chains == MultiTopologicalSort(e)
             longest == Len(TopologicalSort(e))
         IN /\ \A c \in chains : IsChain(e, c)
            /\ longest > 1 =>
                 \A c \in [1 .. longest -> NodesOf(e)] : IsChain(e, c) => c \in chains
            /\ Cyclic(e) => chains = {}
BY OfferedAreChains, LongestAreOffered, CircleOffersNone
=============================================================================
