--------------------------- MODULE MCPipelineConfig ---------------------------
(* Instances of PipelineConfig for TLC. *)
EXTENDS PipelineConfig, TLC

CONSTANTS n1, n2, n3, n4, s1, s2

Symmetry == Permutations(Nodes) \cup Permutations(Scenarios)
=============================================================================
