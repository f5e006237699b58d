--------------------------- MODULE MCBufferManager ---------------------------
(* Instances of BufferManager for TLC. *)
EXTENDS BufferManager, TLC

CONSTANTS u1, u2, u3

Symmetry == Permutations(Users)
=============================================================================
