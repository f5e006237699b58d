----------------------------- MODULE MCPipeline -----------------------------
(* Instances of Pipeline for TLC. *)
EXTENDS PipelineService, TLC

CONSTANTS c1, c2, w1, w2, n1, n2

\* Two nodes in a row, or one of them skipped.
TwoNodePaths == {<<n1, n2>>, <<n2>>}
OneNodePath  == {<<n1>>}
OnlyTrue == {TRUE}

Symmetry == Permutations(Clients) \cup Permutations(Workers)
=============================================================================
