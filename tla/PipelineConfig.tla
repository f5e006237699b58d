--------------------------- MODULE PipelineConfig ---------------------------
(***************************************************************************)
(* How PipeLine gets a path of nodes for each scenario: nodes are added    *)
(* with the scenarios they serve and connected, and start() sorts the      *)
(* graph and picks the paths.  A pipeline is configured by one thread; the *)
(* threads that use the paths are in Pipeline.                             *)
(*                                                                         *)
(* m_pipelineModified and the DAG's m_graphModified are set and cleared    *)
(* together here, so one variable stands for both.                         *)
(***************************************************************************)
EXTENDS Dag

CONSTANTS
  Nodes,      \* node identifiers
  Scenarios,  \* scenarios
  MaxBuilds,  \* bound: constructions of the paths
  MaxAdds,    \* bound: nodes added, replacements included
  MaxEdges    \* bound: connections at a time

ASSUME ConfigAssumption ==
  /\ IsFiniteSet(Nodes) /\ IsFiniteSet(Scenarios)
  /\ MaxBuilds \in Nat /\ MaxAdds \in Nat /\ MaxEdges \in Nat

VARIABLES
  nodes,     \* identifiers in m_pipeNodeMaps
  serves,    \* m_pipelineScenarios of each node
  edges,     \* m_outNodes of the nodes
  modified,  \* m_pipelineModified
  graph,     \* m_graph: the edges of the last sort
  counts,    \* m_pipelineScenarioMap, 0 where a scenario is missing
  paths,     \* m_scenario2PipelineMaps
  isStop,    \* m_isStop
  builds,    \* history: how often paths were constructed
  adds,      \* history: how often a node was added
  basis      \* history: graph and scenarios each path was constructed from

vars == <<nodes, serves, edges, modified, graph, counts, paths, isStop, builds, adds, basis>>

----------------------------------------------------------------------------
Init ==
  /\ nodes = {} /\ serves = [n \in Nodes |-> {}] /\ edges = {} /\ modified = FALSE
  /\ graph = {} /\ counts = [s \in Scenarios |-> 0] /\ paths = [s \in Scenarios |-> <<>>]
  /\ isStop = FALSE /\ builds = 0 /\ adds = 0 /\ basis = [s \in Scenarios |-> <<>>]

\* The edges that leave other nodes.
EdgesNotFrom(n) == {e \in edges : e[1] # n}

\* The builder: addScenarios, build.
Built(n, S) == [serves EXCEPT ![n] = S]

HasScenario(n, s) == s \in serves[n]

\* addPipeNode with a create info: a node of the same identifier is replaced,
\* and its connections to others are lost.  (The overload for node objects
\* refuses a known identifier and else does the same.)
AddPipeNode(n, S) ==
  /\ ~isStop /\ adds < MaxAdds /\ adds' = adds + 1
  /\ nodes' = nodes \cup {n} /\ serves' = Built(n, S)
  /\ edges' = EdgesNotFrom(n)
  /\ modified' = TRUE
  /\ UNCHANGED <<graph, counts, paths, isStop, builds, basis>>

\* mutant: a node is connected that the pipeline does not know
ConnectUnknown(src, dst) ==
  /\ ~isStop /\ src # dst /\ Cardinality(edges) < MaxEdges
  /\ edges' = edges \cup {<<src, dst>>}
  /\ UNCHANGED <<nodes, serves, modified, graph, counts, paths, isStop, builds, adds, basis>>

\* connectNode: both nodes are known.
ConnectNode(src, dst) ==
  /\ ~isStop /\ src # dst /\ {src, dst} \subseteq nodes /\ Cardinality(edges) < MaxEdges
  /\ edges' = edges \cup {<<src, dst>>}
  /\ UNCHANGED <<nodes, serves, modified, graph, counts, paths, isStop, builds, adds, basis>>

----------------------------------------------------------------------------
(* constructPipelinesByScenario, called by start() or by the user. *)

\* Nodes that are in one of the chains the sort returns.
InChains(chains) == UNION {{c[i] : i \in DOMAIN c} : c \in chains}

Serving(s, chains) == {n \in InChains(chains) : HasScenario(n, s)}

\* m_pipelineScenarioMap[scenario]++, on top of what earlier builds counted.
Counted(chains) == [s \in Scenarios |-> counts[s] + Cardinality(Serving(s, chains))]

\* mutant: the nodes that do not serve the scenario stay in
Unfiltered(c, s) == c

\* nodeConnections after i nodes of a chain.
KeptAfter(c, s) ==
  LET kept[i \in 0 .. Len(c)] ==
        IF i = 0 THEN <<>>
        ELSE IF HasScenario(c[i], s) THEN Append(kept[i - 1], c[i]) ELSE kept[i - 1]
  IN kept

\* The nodes of a chain that serve the scenario, one after the other.
Filtered(c, s) == KeptAfter(c, s)[Len(c)]

Connected(p) == \A i \in 2 .. Len(p) : CheckDependency(edges, p[i - 1], p[i])

\* The paths offered for a scenario: all its nodes, connected in this order.
\* They are equal to each other, since the levels order the nodes.
Offered(s, chains) ==
  {p \in {Filtered(c, s) : c \in chains} : Len(p) = Counted(chains)[s] /\ Len(p) > 0 /\ Connected(p)}

ConstructPipelines ==
  /\ ~isStop /\ modified /\ builds < MaxBuilds
  /\ LET chains == MultiTopologicalSort(edges)
         found == {s \in Scenarios : Offered(s, chains) # {}}
     IN /\ counts' = Counted(chains)
        /\ paths' = [s \in Scenarios |->
                       IF s \in found THEN CHOOSE p \in Offered(s, chains) : TRUE ELSE paths[s]]
        /\ basis' = [s \in Scenarios |-> IF s \in found THEN <<edges, serves>> ELSE basis[s]]
  /\ graph' = edges /\ modified' = FALSE /\ builds' = builds + 1
  /\ UNCHANGED <<nodes, serves, edges, isStop, adds>>

\* stop() clears graph and nodes, and nothing can be added any more.
Stop ==
  /\ ~isStop
  /\ isStop' = TRUE /\ modified' = TRUE
  /\ nodes' = {} /\ edges' = {} /\ graph' = {}
  /\ UNCHANGED <<serves, counts, paths, builds, adds, basis>>

Next ==
  \/ \E n \in Nodes, S \in SUBSET Scenarios : AddPipeNode(n, S)
  \/ \E src, dst \in Nodes : ConnectNode(src, dst)
  \/ ConstructPipelines \/ Stop

Spec == Init /\ [][Next]_vars

----------------------------------------------------------------------------
(* Properties. *)

(* Connections are between nodes the pipeline knows.                        *)
TypeOK ==
  /\ nodes \subseteq Nodes /\ serves \in [Nodes -> SUBSET Scenarios]
  /\ edges \subseteq nodes \X nodes /\ modified \in BOOLEAN /\ graph \subseteq Nodes \X Nodes
  /\ counts \in [Scenarios -> Nat] /\ paths \in [Scenarios -> Seq(Nodes)]
  /\ isStop \in BOOLEAN /\ builds \in 0 .. MaxBuilds /\ adds \in 0 .. MaxAdds

(* What the sort returns are chains of the graph that start at a node       *)
(* without predecessor, and the longest chains are all among them; from a   *)
(* circle it returns none.                                                  *)
ChainsAreSound ==
  LET chains == MultiTopologicalSort(graph)
      longest == Len(TopologicalSort(graph))
  IN /\ \A c \in chains : IsChain(graph, c)
     /\ longest > 1 =>
          \A c \in [1 .. longest -> NodesOf(graph)] : IsChain(graph, c) => c \in chains
     /\ Cyclic(graph) => chains = {}

(* A path visits nodes of its scenario only, along connections of the graph *)
(* it was constructed from, each once, and leaves out none that is in a     *)
(* chain: a task does not silently skip a node of its scenario.             *)
PathIsComplete ==
  \A s \in Scenarios : paths[s] # <<>> =>
    LET used   == basis[s][1]
        member == {n \in InChains(MultiTopologicalSort(used)) : s \in basis[s][2][n]}
    IN /\ {paths[s][i] : i \in DOMAIN paths[s]} = member
       /\ Len(paths[s]) = Cardinality(member)
       /\ \A i \in 2 .. Len(paths[s]) : <<paths[s][i - 1], paths[s][i]>> \in used

IsScenarioChain(s, c) ==
  /\ {c[i] : i \in DOMAIN c} = {n \in nodes : s \in serves[n]}
  /\ \A i \in 2 .. Len(c) : <<c[i - 1], c[i]>> \in graph

(* The description of the configure table: nodes of a scenario, connected   *)
(* one after the other, are linked into the path of that scenario.          *)
ScenarioLinked ==
  (builds = 1 /\ ~modified /\ graph = edges /\ ~Cyclic(graph)) =>
    \A s \in Scenarios :
      LET k == Cardinality({n \in nodes : s \in serves[n]})
      IN (k > 1 /\ \E c \in [1 .. k -> nodes] : IsScenarioChain(s, c))
           => IsScenarioChain(s, paths[s])
=============================================================================
