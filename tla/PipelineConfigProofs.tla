------------------------- MODULE PipelineConfigProofs -------------------------
(* Proofs about PipelineConfig: what the sort returns are chains, and a path *)
(* has every node of its scenario once, in the order of the connections.     *)
EXTENDS PipelineConfig, DagProofs

(* The nodes of a chain are in different levels, so they are different.      *)
LEMMA ChainIsInjective ==
  ASSUME NEW e, IsFiniteSet(e), NEW c \in MultiTopologicalSort(e),
         NEW i \in 1 .. Len(c), NEW j \in 1 .. Len(c), c[i] = c[j]
  PROVE  i = j
<1>1. /\ Len(c) \in 2 .. Len(TopologicalSort(e))
      /\ c[i] \in TopologicalSort(e)[i] /\ c[j] \in TopologicalSort(e)[j]
  BY ChainClimbs
<1>2. TopologicalSort(e) # <<>>
  BY <1>1
<1>3. IsLayering(e, TopologicalSort(e))
  BY <1>2, SortIsLayering
<1>4. i \in DOMAIN TopologicalSort(e) /\ j \in DOMAIN TopologicalSort(e)
  BY <1>1, SortLength
<1> QED BY <1>1, <1>3, <1>4 DEF IsLayering

\* What the next node does to the nodes kept before it.
KeptWith(p, n, s) == IF HasScenario(n, s) THEN Append(p, n) ELSE p

(* The recursive function is the one its definition describes.               *)
LEMMA KeptUnroll ==
  ASSUME NEW c, NEW m \in Nat, Len(c) = m, NEW s
  PROVE  /\ KeptAfter(c, s)[0] = <<>>
         /\ \A i \in 1 .. m : KeptAfter(c, s)[i] = KeptWith(KeptAfter(c, s)[i - 1], c[i], s)
<1> DEFINE Unrolls(n, g) == g = [i \in 0 .. n |-> IF i = 0 THEN <<>>
                                                  ELSE KeptWith(g[i - 1], c[i], s)]
           S == {n \in Nat : \E g : Unrolls(n, g)}
<1>1. 0 \in S
  <2>1. Unrolls(0, [i \in 0 .. 0 |-> <<>>])
    OBVIOUS
  <2> QED BY <2>1
<1>2. ASSUME NEW n \in Nat, n \in S PROVE n + 1 \in S
  <2>1. PICK g : Unrolls(n, g)
    BY <1>2
  <2> DEFINE h == [i \in 0 .. n + 1 |-> IF i <= n THEN g[i] ELSE KeptWith(g[n], c[n + 1], s)]
  <2>2. ASSUME NEW i \in 0 .. n + 1
        PROVE  h[i] = IF i = 0 THEN <<>> ELSE KeptWith(h[i - 1], c[i], s)
    <3>1. CASE i = 0
      BY <2>1, <3>1
    <3>2. CASE i \in 1 .. n
      BY <2>1, <3>2
    <3>3. CASE i = n + 1
      BY <2>1, <3>3
    <3> QED BY <3>1, <3>2, <3>3
  <2>3. h = [i \in 0 .. n + 1 |-> h[i]]
    OBVIOUS
  <2> HIDE DEF h
  <2>4. Unrolls(n + 1, h)
    BY <2>2, <2>3
  <2> QED BY <2>4
<1> HIDE DEF S
<1>3. Nat \subseteq S
  BY <1>1, <1>2, NatSubset
<1>4. \E g : Unrolls(m, g)
  BY <1>3 DEF S
<1>6. KeptAfter(c, s) = CHOOSE g : Unrolls(m, g)
  BY DEF KeptAfter, KeptWith
<1> DEFINE k == KeptAfter(c, s)
<1> HIDE DEF k
<1>7. k = [i \in 0 .. m |-> IF i = 0 THEN <<>> ELSE KeptWith(k[i - 1], c[i], s)]
  BY <1>4, <1>6 DEF k
<1>8. k[0] = <<>> /\ \A i \in 1 .. m : k[i] = KeptWith(k[i - 1], c[i], s)
  BY <1>7
<1> QED BY <1>8 DEF k

\* p has the nodes among the first i of c that serve the scenario, each once.
KeptOf(p, c, s, i) ==
  /\ p \in Seq({c[j] : j \in 1 .. i})
  /\ {p[k] : k \in DOMAIN p} = {c[j] : j \in {h \in 1 .. i : HasScenario(c[h], s)}}
  /\ \A k, h \in DOMAIN p : p[k] = p[h] => k = h

(* One node more, which is none of those before.                             *)
LEMMA KeepOneMore ==
  ASSUME NEW N, NEW m \in Nat, NEW c \in [1 .. m -> N], NEW s, NEW n \in 0 .. m - 1,
         \A i, j \in 1 .. m : c[i] = c[j] => i = j,
         NEW p, KeptOf(p, c, s, n)
  PROVE  KeptOf(KeptWith(p, c[n + 1], s), c, s, n + 1)
<1> DEFINE V == {c[j] : j \in 1 .. n + 1}
           q == KeptWith(p, c[n + 1], s)
<1>1. p \in Seq(V) /\ c[n + 1] \in V
  <2>1. {c[j] : j \in 1 .. n} \subseteq V
    OBVIOUS
  <2>2. p \in Seq({c[j] : j \in 1 .. n})
    BY DEF KeptOf
  <2> QED BY <2>1, <2>2
<1>2. \A k \in DOMAIN p : p[k] # c[n + 1]
  <2>1. \A j \in 1 .. n : c[j] # c[n + 1]
    OBVIOUS
  <2> QED BY <2>1 DEF KeptOf
<1>3. {j \in 1 .. n + 1 : HasScenario(c[j], s)}
        = {j \in 1 .. n : HasScenario(c[j], s)}
          \cup (IF HasScenario(c[n + 1], s) THEN {n + 1} ELSE {})
  OBVIOUS
<1>4. CASE HasScenario(c[n + 1], s)
  <2>1. q = Append(p, c[n + 1])
    BY <1>4 DEF KeptWith
  <2>2. /\ {p[k] : k \in DOMAIN p} = {c[j] : j \in {i \in 1 .. n : HasScenario(c[i], s)}}
        /\ \A k, i \in DOMAIN p : p[k] = p[i] => k = i
    BY DEF KeptOf
  <2> HIDE DEF q, V
  <2>3. /\ q \in Seq(V) /\ DOMAIN q = (DOMAIN p) \cup {Len(p) + 1} /\ DOMAIN p = 1 .. Len(p)
        /\ q[Len(p) + 1] = c[n + 1] /\ \A k \in DOMAIN p : q[k] = p[k]
    BY <1>1, <2>1
  <2>4. {q[k] : k \in DOMAIN q} = {p[k] : k \in DOMAIN p} \cup {c[n + 1]}
    BY <2>3
  <2>5. \A k, i \in DOMAIN q : q[k] = q[i] => k = i
    BY <1>2, <2>2, <2>3
  <2>6. {c[j] : j \in {i \in 1 .. n + 1 : HasScenario(c[i], s)}}
          = {c[j] : j \in {i \in 1 .. n : HasScenario(c[i], s)}} \cup {c[n + 1]}
    BY <1>3, <1>4
  <2> QED BY <2>2, <2>3, <2>4, <2>5, <2>6 DEF KeptOf, V, q
<1>5. CASE ~HasScenario(c[n + 1], s)
  <2>1. q = p /\ {j \in 1 .. n + 1 : HasScenario(c[j], s)} = {j \in 1 .. n : HasScenario(c[j], s)}
    BY <1>3, <1>5 DEF KeptWith
  <2>2. /\ {p[k] : k \in DOMAIN p} = {c[j] : j \in {i \in 1 .. n : HasScenario(c[i], s)}}
        /\ \A k, i \in DOMAIN p : p[k] = p[i] => k = i
    BY DEF KeptOf
  <2> HIDE DEF q, V
  <2>3. {p[k] : k \in DOMAIN p} = {c[j] : j \in {i \in 1 .. n + 1 : HasScenario(c[i], s)}}
    BY <2>1, <2>2
  <2>4. KeptOf(p, c, s, n + 1)
    BY <1>1, <2>2, <2>3 DEF KeptOf, V
  <2> QED BY <2>1, <2>4 DEF q
<1> QED BY <1>4, <1>5

(* Filtering keeps the nodes that serve the scenario, each once.             *)
LEMMA FilterKeeps ==
  ASSUME NEW N, NEW m \in Nat, NEW c \in [1 .. m -> N], NEW s,
         \A i, j \in 1 .. m : c[i] = c[j] => i = j
  PROVE  KeptOf(Filtered(c, s), c, s, m)
<1> DEFINE f == KeptAfter(c, s)
           S == {i \in 0 .. m : KeptOf(f[i], c, s, i)}
<1> HIDE DEF f
<1>0. Filtered(c, s) = f[m]
  <2>1. Len(c) = m
    OBVIOUS
  <2> QED BY <2>1 DEF Filtered, f
<1>1. f[0] = <<>> /\ \A i \in 1 .. m : f[i] = KeptWith(f[i - 1], c[i], s)
  <2>1. Len(c) = m
    OBVIOUS
  <2> QED BY <2>1, KeptUnroll DEF f
<1>2. 0 \in S
  <2>1. f[0] = <<>>
    BY <1>1
  <2>2. KeptOf(<<>>, c, s, 0)
    BY DEF KeptOf
  <2> QED BY <2>1, <2>2
<1>3. ASSUME NEW i \in 0 .. m - 1, i \in S PROVE i + 1 \in S
  <2>1. i + 1 \in 0 .. m /\ i + 1 # 0 /\ (i + 1) - 1 = i
    OBVIOUS
  <2>2. f[i + 1] = KeptWith(f[i], c[i + 1], s)
    BY <1>1, <2>1
  <2>3. KeptOf(f[i], c, s, i)
    BY <1>3
  <2> HIDE DEF S
  <2>4. KeptOf(KeptWith(f[i], c[i + 1], s), c, s, i + 1)
    BY <2>3, KeepOneMore
  <2>5. KeptOf(f[i + 1], c, s, i + 1)
    BY <2>2, <2>4
  <2> QED BY <2>1, <2>5 DEF S
<1> HIDE DEF S
<1>4. 0 .. m \subseteq S
  BY <1>2, <1>3, UpToSubset
<1>5. KeptOf(f[m], c, s, m)
  BY <1>4 DEF S
<1> QED BY <1>0, <1>5

----------------------------------------------------------------------------
(* The paths. *)

(* Connections of finitely many nodes are finitely many.                     *)
LEMMA FiniteEdges ==
  ASSUME NEW e \in SUBSET (Nodes \X Nodes)
  PROVE  IsFiniteSet(e) /\ NodesOf(e) \subseteq Nodes
<1>1. IsFiniteSet(Nodes \X Nodes)
  BY ConfigAssumption, FS_Product
<1>2. IsFiniteSet(e)
  BY <1>1, FS_Subset
<1> QED BY <1>2 DEF NodesOf

(* A scenario has finitely many nodes in the chains.                         *)
LEMMA FiniteServing ==
  ASSUME NEW e \in SUBSET (Nodes \X Nodes), NEW s
  PROVE  LET V == Serving(s, MultiTopologicalSort(e))
         IN V \subseteq Nodes /\ IsFiniteSet(V) /\ Cardinality(V) \in Nat
<1>1. IsFiniteSet(e) /\ NodesOf(e) \subseteq Nodes
  BY FiniteEdges
<1>2. \A c \in MultiTopologicalSort(e) : \A i \in DOMAIN c : c[i] \in Nodes
  <2>1. ASSUME NEW c \in MultiTopologicalSort(e) PROVE \A i \in DOMAIN c : c[i] \in Nodes
    BY <1>1, ChainClimbs
  <2> QED BY <2>1
<1>3. Serving(s, MultiTopologicalSort(e)) \subseteq Nodes
  BY <1>2 DEF Serving, InChains
<1> QED BY <1>3, ConfigAssumption, FS_Subset, FS_CardinalityType

(* A sequence without repetition is as long as its range is large.           *)
LEMMA DistinctLength ==
  ASSUME NEW V, NEW p \in Seq(V), \A i, j \in DOMAIN p : p[i] = p[j] => i = j
  PROVE  Cardinality({p[i] : i \in DOMAIN p}) = Len(p)
<1> DEFINE R == {p[i] : i \in DOMAIN p}
<1>1. Len(p) \in Nat /\ DOMAIN p = 1 .. Len(p) /\ p = [i \in 1 .. Len(p) |-> p[i]]
  OBVIOUS
<1>2. p \in Bijection(1 .. Len(p), R)
  BY <1>1 DEF Bijection, Injection, Surjection, IsInjective
<1>3. ExistsBijection(1 .. Len(p), R)
  BY <1>2 DEF ExistsBijection
<1> HIDE DEF R
<1>4. Cardinality(R) = Len(p)
  BY <1>1, <1>3, FS_CountingElements
<1> QED BY <1>4 DEF R

(* A path that is offered has all nodes of its scenario, each once, since    *)
(* the code compares its length with the number of these nodes.              *)
LEMMA OfferedIsComplete ==
  ASSUME TypeOK, NEW s \in Scenarios, NEW p \in Offered(s, MultiTopologicalSort(edges))
  PROVE  LET V == Serving(s, MultiTopologicalSort(edges))
         IN /\ p \in Seq(Nodes) /\ {p[i] : i \in DOMAIN p} = V /\ Len(p) = Cardinality(V)
            /\ \A i \in 2 .. Len(p) : <<p[i - 1], p[i]>> \in edges
<1> DEFINE chains == MultiTopologicalSort(edges)
           V == Serving(s, chains)
           R == {p[i] : i \in DOMAIN p}
<1>1. edges \in SUBSET (Nodes \X Nodes) /\ counts[s] \in Nat
  BY DEF TypeOK
<1>2. PICK c \in chains : p = Filtered(c, s)
  BY DEF Offered
<1>3. /\ Len(p) = counts[s] + Cardinality(V)
      /\ \A i \in 2 .. Len(p) : <<p[i - 1], p[i]>> \in edges
  BY DEF Offered, Counted, Connected, CheckDependency
<1>4. /\ Len(c) \in Nat /\ c \in [1 .. Len(c) -> NodesOf(edges)]
      /\ NodesOf(edges) \subseteq Nodes
      /\ \A i, j \in 1 .. Len(c) : c[i] = c[j] => i = j
  BY <1>1, FiniteEdges, ChainClimbs, ChainIsInjective
<1>5. KeptOf(p, c, s, Len(c))
  BY <1>2, <1>4, FilterKeeps
<1>6. /\ p \in Seq({c[j] : j \in 1 .. Len(c)})
      /\ R = {c[j] : j \in {h \in 1 .. Len(c) : HasScenario(c[h], s)}}
      /\ \A k, h \in DOMAIN p : p[k] = p[h] => k = h
  BY <1>5 DEF KeptOf
<1>7. p \in Seq(Nodes)
  <2>1. {c[j] : j \in 1 .. Len(c)} \subseteq Nodes
    BY <1>4
  <2> QED BY <1>6, <2>1
<1>8. R \subseteq V
  <2>1. DOMAIN c = 1 .. Len(c)
    BY <1>4
  <2> QED BY <1>2, <1>6, <2>1 DEF Serving, InChains
<1>9. V \subseteq Nodes /\ IsFiniteSet(V) /\ Cardinality(V) \in Nat
  BY <1>1, FiniteServing
<1>10. Cardinality(R) = Len(p)
  BY <1>6, DistinctLength
<1> HIDE DEF R, V
<1>11. Cardinality(R) <= Cardinality(V) /\ (Cardinality(R) = Cardinality(V) => R = V)
  BY <1>8, <1>9, FS_Subset
<1>12. Len(p) \in Nat
  BY <1>7
<1>13. R = V /\ Len(p) = Cardinality(V)
  BY <1>1, <1>3, <1>9, <1>10, <1>11, <1>12
<1> QED BY <1>3, <1>7, <1>13 DEF R, V

(* Every step keeps the types: the sort of known connections offers known    *)
(* nodes only, and the counts stay numbers.                                  *)
THEOREM ConfigTypeCorrect == Spec => []TypeOK
<1>1. Init => TypeOK
  <2> SUFFICES ASSUME Init PROVE TypeOK
    OBVIOUS
  <2>1. paths \in [Scenarios -> Seq(Nodes)]
    BY DEF Init
  <2>2. builds \in 0 .. MaxBuilds /\ adds \in 0 .. MaxAdds
    BY ConfigAssumption DEF Init
  <2> QED BY <2>1, <2>2 DEF Init, TypeOK
<1>2. TypeOK /\ [Next]_vars => TypeOK'
  <2> SUFFICES ASSUME TypeOK, [Next]_vars PROVE TypeOK'
    OBVIOUS
  <2>1. ASSUME NEW n \in Nodes, NEW S \in SUBSET Scenarios, AddPipeNode(n, S) PROVE TypeOK'
    <3>1. nodes' \subseteq Nodes /\ edges' \subseteq nodes' \X nodes'
      <4>1. nodes' = nodes \cup {n} /\ edges' \subseteq edges
        BY <2>1 DEF AddPipeNode, EdgesNotFrom
      <4>2. nodes \in SUBSET Nodes /\ edges \in SUBSET (nodes \X nodes)
        BY DEF TypeOK
      <4>3. nodes \X nodes \subseteq (nodes \cup {n}) \X (nodes \cup {n})
        OBVIOUS
      <4>4. nodes' \subseteq Nodes
        BY <4>1, <4>2
      <4>5. edges' \subseteq nodes' \X nodes'
        BY <4>1, <4>2, <4>3
      <4> QED BY <4>4, <4>5
    <3>2. adds' \in 0 .. MaxAdds
      BY <2>1, ConfigAssumption DEF AddPipeNode, TypeOK
    <3> QED BY <2>1, <3>1, <3>2 DEF AddPipeNode, Built, TypeOK
  <2>2. ASSUME NEW src \in Nodes, NEW dst \in Nodes, ConnectNode(src, dst) PROVE TypeOK'
    BY <2>2 DEF ConnectNode, TypeOK
  <2>3. CASE ConstructPipelines
    <3> DEFINE chains == MultiTopologicalSort(edges)
    <3>1. edges \in SUBSET (Nodes \X Nodes)
      BY DEF TypeOK
    <3>2. counts' \in [Scenarios -> Nat]
      <4>1. \A s \in Scenarios : Cardinality(Serving(s, chains)) \in Nat
        BY <3>1, FiniteServing
      <4>2. counts' = [s \in Scenarios |-> counts[s] + Cardinality(Serving(s, chains))]
        BY <2>3 DEF ConstructPipelines, Counted
      <4> HIDE DEF chains
      <4> QED BY <4>1, <4>2 DEF TypeOK
    <3>3. paths' \in [Scenarios -> Seq(Nodes)]
      <4> DEFINE Path(s) == IF Offered(s, chains) # {}
                            THEN CHOOSE p \in Offered(s, chains) : TRUE ELSE paths[s]
      <4>1. paths' = [s \in Scenarios |-> Path(s)]
        BY <2>3 DEF ConstructPipelines
      <4>2. ASSUME NEW s \in Scenarios PROVE Path(s) \in Seq(Nodes)
        <5>1. \A p \in Offered(s, chains) : p \in Seq(Nodes)
          BY OfferedIsComplete
        <5>2. paths[s] \in Seq(Nodes)
          BY DEF TypeOK
        <5> HIDE DEF chains
        <5> QED BY <5>1, <5>2
      <4> HIDE DEF Path
      <4> QED BY <4>1, <4>2
    <3>4. graph' \subseteq Nodes \X Nodes /\ builds' \in 0 .. MaxBuilds
      BY <2>3, <3>1, ConfigAssumption DEF ConstructPipelines, TypeOK
    <3> QED BY <2>3, <3>2, <3>3, <3>4 DEF ConstructPipelines, TypeOK
  <2>4. CASE Stop
    BY <2>4 DEF Stop, TypeOK
  <2>5. CASE UNCHANGED vars
    BY <2>5 DEF vars, TypeOK
  <2> QED BY <2>1, <2>2, <2>3, <2>4, <2>5 DEF Next
<1> QED BY <1>1, <1>2, PTL DEF Spec

(* What the sort of the pipeline's graph returns are chains of the graph     *)
(* from a node without predecessor, the longest among them; a circle gives   *)
(* none.                                                                     *)
THEOREM ConfigChains == Spec => []ChainsAreSound
<1>1. TypeOK => ChainsAreSound
  <2> SUFFICES ASSUME TypeOK PROVE ChainsAreSound
    OBVIOUS
  <2>1. graph \in SUBSET (Nodes \X Nodes)
    BY DEF TypeOK
  <2>2. IsFiniteSet(graph)
    BY <2>1, FiniteEdges
  <2> QED BY <2>2, ChainsOffered DEF ChainsAreSound
<1> QED BY <1>1, ConfigTypeCorrect, PTL

\* What PathIsComplete says of the path p of a scenario, constructed from b.
Complete(p, b, s) ==
  LET member == {n \in InChains(MultiTopologicalSort(b[1])) : s \in b[2][n]}
  IN /\ {p[i] : i \in DOMAIN p} = member /\ Len(p) = Cardinality(member)
     /\ \A i \in 2 .. Len(p) : <<p[i - 1], p[i]>> \in b[1]

(* A path has every node of its scenario that is in a chain, each once, and  *)
(* follows the connections of the graph it was constructed from.             *)
THEOREM ConfigPaths == Spec => []PathIsComplete
<1>1. Init => PathIsComplete
  BY DEF Init, PathIsComplete
<1>2. TypeOK /\ PathIsComplete /\ [Next]_vars => PathIsComplete'
  <2> SUFFICES ASSUME TypeOK, PathIsComplete, [Next]_vars PROVE PathIsComplete'
    OBVIOUS
  <2>1. CASE UNCHANGED <<paths, basis>>
    BY <2>1 DEF PathIsComplete
  <2>2. CASE ConstructPipelines
    <3> DEFINE chains == MultiTopologicalSort(edges)
    <3>1. ASSUME NEW s \in Scenarios, paths'[s] # <<>>, Offered(s, chains) = {}
          PROVE  Complete(paths'[s], basis'[s], s)
      <4>1. paths'[s] = paths[s] /\ basis'[s] = basis[s]
        BY <2>2, <3>1 DEF ConstructPipelines
      <4>2. Complete(paths[s], basis[s], s)
        BY <3>1, <4>1 DEF PathIsComplete, Complete
      <4> QED BY <4>1, <4>2
    <3>2. ASSUME NEW s \in Scenarios, Offered(s, chains) # {}
          PROVE  Complete(paths'[s], basis'[s], s)
      <4>1. paths'[s] \in Offered(s, chains) /\ basis'[s] = <<edges, serves>>
        BY <2>2, <3>2 DEF ConstructPipelines
      <4>2. {n \in InChains(chains) : s \in serves[n]} = Serving(s, chains)
        BY DEF Serving, HasScenario
      <4>3. PICK p \in Offered(s, chains) : p = paths'[s]
        BY <4>1
      <4>4. /\ {p[i] : i \in DOMAIN p} = Serving(s, chains)
            /\ Len(p) = Cardinality(Serving(s, chains))
            /\ \A i \in 2 .. Len(p) : <<p[i - 1], p[i]>> \in edges
        BY OfferedIsComplete
      <4>5. Complete(p, <<edges, serves>>, s)
        BY <4>2, <4>4 DEF Complete
      <4> QED BY <4>1, <4>3, <4>5
    <3> HIDE DEF chains
    <3>3. \A s \in Scenarios : paths'[s] # <<>> => Complete(paths'[s], basis'[s], s)
      BY <3>1, <3>2
    <3> QED BY <3>3 DEF PathIsComplete, Complete
  <2> QED BY <2>1, <2>2 DEF Next, AddPipeNode, ConnectNode, Stop, vars
<1> QED BY <1>1, <1>2, ConfigTypeCorrect, PTL DEF Spec

\* What Pipeline and Notification assume of the paths tasks are built with.
PathsFit ==
  \A s \in Scenarios :
    /\ paths[s] \in Seq(Nodes)
    /\ \A i, j \in DOMAIN paths[s] : paths[s][i] = paths[s][j] => i = j

(* The paths getPipelineWithScenario hands out are sequences of nodes without *)
(* a repetition, as the modules of the run time assume: a task never comes to *)
(* a node a second time.                                                      *)
THEOREM PathsAreAsAssumed == Spec => []PathsFit
<1>1. TypeOK /\ PathIsComplete => PathsFit
  <2> SUFFICES ASSUME TypeOK, PathIsComplete, NEW s \in Scenarios
               PROVE  /\ paths[s] \in Seq(Nodes)
                      /\ \A i, j \in DOMAIN paths[s] : paths[s][i] = paths[s][j] => i = j
    BY DEF PathsFit
  <2> DEFINE p == paths[s]
             R == {p[i] : i \in DOMAIN p}
  <2>1. p \in Seq(Nodes)
    BY DEF TypeOK
  <2>2. CASE p = <<>>
    BY <2>1, <2>2
  <2>3. CASE p # <<>>
    <3>1. Len(p) = Cardinality(R)
      BY <2>3 DEF PathIsComplete
    <3>2. Len(p) \in Nat /\ DOMAIN p = 1 .. Len(p) /\ p = [i \in 1 .. Len(p) |-> p[i]]
      BY <2>1
    <3>3. p \in Surjection(1 .. Len(p), R)
      BY <3>2 DEF Surjection
    <3>4. IsFiniteSet(1 .. Len(p)) /\ Cardinality(1 .. Len(p)) = Len(p)
      BY <3>2, FS_Interval
    <3> HIDE DEF p, R
    <3>5. p \in Injection(1 .. Len(p), R)
      BY <3>1, <3>3, <3>4, FS_SurjSameCardinalityImpliesInj
    <3>6. \A i, j \in DOMAIN p : p[i] = p[j] => i = j
      BY <3>2, <3>5 DEF Injection, IsInjective
    <3> QED BY <2>1, <3>6 DEF p
  <2> QED BY <2>2, <2>3
<1> QED BY <1>1, ConfigTypeCorrect, ConfigPaths, PTL
==============================================================================
