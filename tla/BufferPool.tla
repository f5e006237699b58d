----------------------------- MODULE BufferPool -----------------------------
(***************************************************************************)
(* What a BufferManager promises its users, without rings, counts and      *)
(* temporary buffers: a buffer is given to one user at a time, at most     *)
(* maxQueueSize are out, users may share one, and it can be given again    *)
(* only when every share has come back.                                    *)
(***************************************************************************)
EXTENDS Integers, FiniteSets

CONSTANTS Users, Buffers, MaxQueue

VARIABLES
  held,   \* per user and buffer: shares it has to return
  closed  \* the manager is gone

vars == <<held, closed>>

InUse(b) == \E u \in Users : held[u][b] > 0

Init == held = [u \in Users |-> [b \in Buffers |-> 0]] /\ closed = FALSE

Pop(u, b) ==
  /\ ~closed /\ ~InUse(b)
  /\ Cardinality({c \in Buffers : InUse(c)}) < MaxQueue
  /\ held' = [held EXCEPT ![u][b] = 1]
  /\ UNCHANGED closed

Share(u, v, b) ==
  /\ ~closed /\ held[u][b] > 0
  /\ held' = [held EXCEPT ![v][b] = @ + 1]
  /\ UNCHANGED closed

Push(u, b) ==
  /\ ~closed /\ held[u][b] > 0
  /\ held' = [held EXCEPT ![u][b] = @ - 1]
  /\ UNCHANGED closed

Close == ~closed /\ closed' = TRUE /\ UNCHANGED held

Next ==
  \/ Close
  \/ \E u \in Users, b \in Buffers :
       Pop(u, b) \/ Push(u, b) \/ \E v \in Users : Share(u, v, b)

Spec == Init /\ [][Next]_vars
=============================================================================
