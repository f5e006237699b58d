--------------------------- MODULE MCNotification ---------------------------
(* Small instances of Notification for TLC. *)
EXTENDS Notification, TLC

CONSTANTS n1, l1, f1, f2, w1

OneNode == <<n1>>
Listened == {<<n1, l1>>}

\* A real-time task, and normal ones of two priorities.
ThreeKinds == {<<1, 2>>, <<2, 1>>, <<2, 2>>}

Symmetry == Permutations(Workers) \cup Permutations(Finals)
=============================================================================
