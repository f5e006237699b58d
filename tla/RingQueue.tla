------------------------------ MODULE RingQueue ------------------------------
(***************************************************************************)
(* The fixed-size queue of ring_queue.h: capcity + 1 slots, of which one   *)
(* stays free to tell a full queue from an empty one.  pop() only moves    *)
(* the front index, so a slot keeps its element until push() comes round.  *)
(***************************************************************************)
EXTENDS Naturals

Slots(q) == q.capcity + 1

\* Every slot holds a default element, here the given one.
NewRing(capcity, none) ==
  [capcity |-> capcity, elements |-> [i \in 0 .. capcity |-> none],
   realIdx |-> 0, frontIdx |-> 0]

Empty(q) == q.frontIdx = q.realIdx

Full(q) == (q.realIdx + 1) % Slots(q) = q.frontIdx

Size(q) == (q.realIdx + Slots(q) - q.frontIdx) % Slots(q)

\* push() on a full queue returns false and changes nothing.
Push(q, e) ==
  IF Full(q) THEN q
  ELSE [q EXCEPT !.elements[q.realIdx] = e, !.realIdx = (@ + 1) % Slots(q)]

Pop(q) == IF Empty(q) THEN q ELSE [q EXCEPT !.frontIdx = (@ + 1) % Slots(q)]

Front(q) == q.elements[q.frontIdx]

\* What the slots hold, popped elements included.
SlotElements(q) == {q.elements[i] : i \in 0 .. q.capcity}

\* The queued elements, front first.
Contents(q) ==
  [i \in 1 .. Size(q) |-> q.elements[(q.frontIdx + i - 1) % Slots(q)]]
=============================================================================
