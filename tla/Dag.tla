--------------------------------- MODULE Dag ---------------------------------
(***************************************************************************)
(* The algorithms of dag.cpp, on a graph given by its set of edges.  A     *)
(* node that is connected twice to another counts twice in its in-degree   *)
(* and is discounted twice, so a set of edges says as much as the lists.   *)
(***************************************************************************)
EXTENDS Integers, Sequences, FiniteSets

\* The nodes that buildGraph enters into m_nodeIndegreeMap: a node without any
\* edge is not among them.
NodesOf(edges) == {e[1] : e \in edges} \cup {e[2] : e \in edges}

Predecessors(edges, n) == {e[1] : e \in {d \in edges : d[2] = n}}

\* buildGraph: m_nodeIndegreeMap.
Indegrees(edges) == [n \in NodesOf(edges) |-> Cardinality(Predecessors(edges, n))]

SameLevel(degrees) == {n \in DOMAIN degrees : degrees[n] = 0}

\* mutant: the in-degrees are not brought up to date
ErasedOnly(edges, degrees) == [n \in DOMAIN degrees \ SameLevel(degrees) |-> 0]

\* One turn of the sort's loop: the nodes of degree 0 are erased and no longer
\* count for their successors.
Erased(edges, degrees) ==
  [n \in DOMAIN degrees \ SameLevel(degrees) |->
     degrees[n] - Cardinality(Predecessors(edges, n) \cap SameLevel(degrees))]

\* m_nodeIndegreeMap's copy after k turns.
DegreesAfter(edges) ==
  LET degrees[k \in 0 .. Cardinality(NodesOf(edges))] ==
        IF k = 0 THEN Indegrees(edges) ELSE Erased(edges, degrees[k - 1])
  IN degrees

\* topologicalSort: the levels, or nothing if a cycle keeps nodes from being
\* erased.  The order inside a level is that of an unordered map.
TopologicalSort(edges) ==
  LET degrees == DegreesAfter(edges)
      turns   == {k \in DOMAIN degrees : SameLevel(degrees[k]) # {}}
  IN IF DOMAIN degrees[Cardinality(turns)] # {} THEN <<>>
     ELSE [i \in 1 .. Cardinality(turns) |-> SameLevel(degrees[i - 1])]

CheckDependency(edges, src, dst) == <<src, dst>> \in edges

\* mutant: the part that is connected is not looked for
WholePick(edges, pick) == pick

\* What findAllTopologicalSort keeps of one node per level: the part up to
\* the first two that are not connected.
ConnectedPart(edges, pick) ==
  LET breaks == {i \in 2 .. Len(pick) : ~CheckDependency(edges, pick[i - 1], pick[i])}
  IN IF breaks = {} THEN pick
     ELSE SubSeq(pick, 1, (CHOOSE i \in breaks : \A j \in breaks : i <= j) - 1)

\* multiTopologicalSort: every choice of one node per level, cut where it is
\* not connected, single nodes left out.
MultiTopologicalSort(edges) ==
  LET levels == TopologicalSort(edges)
      picks  == {p \in [1 .. Len(levels) -> NodesOf(edges)] :
                   \A i \in 1 .. Len(levels) : p[i] \in levels[i]}
  IN {c \in {ConnectedPart(edges, p) : p \in picks} : Len(c) > 1}

----------------------------------------------------------------------------
(* Reference definitions. *)

\* Some nodes all have a predecessor among themselves.
Cyclic(edges) ==
  \E S \in (SUBSET NodesOf(edges)) \ {{}} : \A n \in S : Predecessors(edges, n) \cap S # {}

\* The level of a node is the length of the longest chain that ends at it.
IsLayering(edges, levels) ==
  /\ UNION {levels[i] : i \in DOMAIN levels} = NodesOf(edges)
  /\ \A i \in DOMAIN levels : \A n \in levels[i] :
       /\ \A j \in DOMAIN levels : n \in levels[j] => j = i
       /\ i > 1 => Predecessors(edges, n) \cap levels[i - 1] # {}
       /\ Predecessors(edges, n) \subseteq UNION {levels[j] : j \in 1 .. i - 1}

\* Chains of edges that start at a node without predecessor.
IsChain(edges, c) ==
  /\ Len(c) > 1 /\ Predecessors(edges, c[1]) = {}
  /\ \A i \in 2 .. Len(c) : <<c[i - 1], c[i]>> \in edges
=============================================================================
