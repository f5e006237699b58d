------------------------------ MODULE MCTaskFlow ------------------------------
(* Instances of TaskFlow for TLC. *)
EXTENDS TaskFlow, TLC

CONSTANTS t1, t2, t3, w1, w2

\* t3 is more urgent than the others.
UrgentThird == [t \in Tasks |-> IF t = t3 THEN 1 ELSE 2]

Symmetry == Permutations(Workers)
=============================================================================
