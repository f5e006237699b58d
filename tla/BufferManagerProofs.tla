------------------------- MODULE BufferManagerProofs -------------------------
(* Proofs about BufferManager: no buffer is lost or given twice, the count  *)
(* of what is allocated is right, no wake-up is lost, and BufferPool is     *)
(* implemented.                                                             *)
EXTENDS BufferManager, FiniteSetTheorems, TLAPS

----------------------------------------------------------------------------
(* Rings. *)

Ring(c, S) == [capcity : {c}, elements : [0 .. c -> S], realIdx : 0 .. c, frontIdx : 0 .. c]

\* The slots between front and end.
Occupied(q) ==
  IF q.frontIdx <= q.realIdx THEN q.frontIdx .. q.realIdx - 1
  ELSE (q.frontIdx .. q.capcity) \cup (0 .. q.realIdx - 1)

\* The slot of the i-th queued element.
SlotOf(q, i) ==
  IF q.frontIdx + i - 1 <= q.capcity THEN q.frontIdx + i - 1
  ELSE q.frontIdx + i - 1 - Slots(q)

(* Indices grow by less than one turn.                                      *)
LEMMA OneTurn ==
  ASSUME NEW n \in Nat \ {0}, NEW a \in Nat, a < n + n
  PROVE  a % n = IF a < n THEN a ELSE a - n
<1>1. CASE a < n
  <2>1. a % n = a
    BY <1>1
  <2> QED BY <1>1, <2>1
<1>2. CASE a >= n
  <2>1. PICK b \in Nat : b = a - n /\ b < n
    BY <1>2
  <2>2. a = 1 * n + b
    BY <2>1
  <2>3. a % n = b
    BY <2>1, <2>2
  <2> QED BY <1>2, <2>1, <2>3
<1> QED BY <1>1, <1>2

(* What the operators on indices compute.                                   *)
LEMMA RingIndices ==
  ASSUME NEW c \in Nat, NEW S, NEW q \in Ring(c, S)
  PROVE  /\ q.capcity = c /\ q.realIdx \in 0 .. c /\ q.frontIdx \in 0 .. c
         /\ Slots(q) = c + 1
         /\ \A i \in 0 .. c : (i + 1) % (c + 1) = IF i = c THEN 0 ELSE i + 1
         /\ Size(q) = IF q.frontIdx <= q.realIdx THEN q.realIdx - q.frontIdx
                      ELSE q.realIdx + c + 1 - q.frontIdx
         /\ Occupied(q) \subseteq 0 .. c
<1>1. q.capcity = c /\ q.realIdx \in 0 .. c /\ q.frontIdx \in 0 .. c
  BY DEF Ring
<1>2. Slots(q) = c + 1
  BY <1>1 DEF Slots
<1>3. ASSUME NEW i \in 0 .. c PROVE (i + 1) % (c + 1) = IF i = c THEN 0 ELSE i + 1
  <2> DEFINE n == c + 1
             a == i + 1
  <2>1. n \in Nat \ {0} /\ a \in Nat /\ a < n + n
    OBVIOUS
  <2>2. a % n = IF a < n THEN a ELSE a - n
    <3> HIDE DEF a, n
    <3> QED BY <2>1, OneTurn
  <2> QED BY <2>2
<1>4. Size(q) = IF q.frontIdx <= q.realIdx THEN q.realIdx - q.frontIdx
                ELSE q.realIdx + c + 1 - q.frontIdx
  <2> DEFINE a == q.realIdx + (c + 1) - q.frontIdx
             n == c + 1
  <2>1. n \in Nat \ {0} /\ a \in Nat /\ a < n + n
    BY <1>1
  <2>2. a % n = IF a < n THEN a ELSE a - n
    <3> HIDE DEF a, n
    <3> QED BY <2>1, OneTurn
  <2>3. Size(q) = a % (c + 1)
    BY <1>2 DEF Size
  <2> QED BY <1>1, <2>2, <2>3
<1>5. Occupied(q) \subseteq 0 .. c
  BY <1>1 DEF Occupied
<1> QED BY <1>1, <1>2, <1>3, <1>4, <1>5

(* pop() of a queue that is not empty frees the front slot.                 *)
LEMMA RingPopped ==
  ASSUME NEW c \in Nat, NEW S, NEW q \in Ring(c, S), ~Empty(q)
  PROVE  /\ Pop(q) \in Ring(c, S) /\ Pop(q).elements = q.elements
         /\ q.frontIdx \in Occupied(q)
         /\ Occupied(Pop(q)) = Occupied(q) \ {q.frontIdx}
<1>1. q = [capcity |-> q.capcity, elements |-> q.elements, realIdx |-> q.realIdx,
           frontIdx |-> q.frontIdx] /\ q.elements \in [0 .. c -> S]
  BY DEF Ring
<1> DEFINE f == IF q.frontIdx = c THEN 0 ELSE q.frontIdx + 1
           p == [capcity |-> q.capcity, elements |-> q.elements, realIdx |-> q.realIdx,
                 frontIdx |-> f]
<1>2. Pop(q) = p
  <2>1. Pop(q) = [q EXCEPT !.frontIdx = (q.frontIdx + 1) % (c + 1)]
    BY RingIndices, <1>1 DEF Pop
  <2>2. (q.frontIdx + 1) % (c + 1) = f
    BY RingIndices
  <2> HIDE DEF f
  <2> QED BY <1>1, <2>1, <2>2
<1>3. f \in 0 .. c
  BY RingIndices
<1>4. p \in Ring(c, S)
  <2> HIDE DEF f
  <2> QED BY <1>1, <1>3, RingIndices DEF Ring
<1>5. q.frontIdx # q.realIdx
  BY DEF Empty
<1>6. q.frontIdx \in Occupied(q)
  BY <1>5, RingIndices DEF Occupied
<1>7. Occupied(p) = Occupied(q) \ {q.frontIdx}
  BY <1>5, RingIndices DEF Occupied
<1> QED BY <1>2, <1>4, <1>6, <1>7

(* push() on a queue that is not full takes the free slot at its end.       *)
LEMMA RingPushed ==
  ASSUME NEW c \in Nat, NEW S, NEW q \in Ring(c, S), NEW e \in S, ~Full(q)
  PROVE  /\ Push(q, e) \in Ring(c, S)
         /\ q.realIdx \in 0 .. c /\ q.realIdx \notin Occupied(q)
         /\ Occupied(Push(q, e)) = Occupied(q) \cup {q.realIdx}
         /\ Push(q, e).elements = [q.elements EXCEPT ![q.realIdx] = e]
<1>1. q = [capcity |-> q.capcity, elements |-> q.elements, realIdx |-> q.realIdx,
           frontIdx |-> q.frontIdx] /\ q.elements \in [0 .. c -> S]
  BY DEF Ring
<1> DEFINE r == IF q.realIdx = c THEN 0 ELSE q.realIdx + 1
           p == [capcity |-> q.capcity, elements |-> [q.elements EXCEPT ![q.realIdx] = e],
                 realIdx |-> r, frontIdx |-> q.frontIdx]
<1>2. (q.realIdx + 1) % (c + 1) = r
  BY RingIndices
<1>3. Push(q, e) = p
  <2>1. Push(q, e) = [q EXCEPT !.elements[q.realIdx] = e, !.realIdx = (q.realIdx + 1) % (c + 1)]
    BY RingIndices, <1>1 DEF Push
  <2> HIDE DEF r
  <2> QED BY <1>1, <1>2, <2>1
<1>4. r \in 0 .. c
  BY RingIndices
<1>5. p \in Ring(c, S)
  <2> HIDE DEF r
  <2> QED BY <1>1, <1>4, RingIndices DEF Ring
<1>6. r # q.frontIdx
  BY <1>2, RingIndices DEF Full
<1>7. Occupied(p) = Occupied(q) \cup {q.realIdx} /\ q.realIdx \notin Occupied(q)
  <2>1. p.frontIdx = q.frontIdx /\ p.realIdx = r /\ p.capcity = c
    BY RingIndices
  <2> HIDE DEF p
  <2>2. CASE q.realIdx = c
    <3>1. r = 0 /\ q.frontIdx \in 1 .. c
      BY <1>6, <2>2, RingIndices
    <3> HIDE DEF r
    <3>2. Occupied(q) = q.frontIdx .. c - 1
      BY <2>2, <3>1 DEF Occupied
    <3>3. Occupied(p) = (q.frontIdx .. c) \cup (0 .. 0 - 1)
      BY <2>1, <3>1 DEF Occupied
    <3> QED BY <2>2, <3>1, <3>2, <3>3
  <2>3. CASE q.realIdx # c
    <3>1. r = q.realIdx + 1 /\ r # q.frontIdx
      BY <1>6, <2>3
    <3> HIDE DEF r
    <3>2. CASE q.frontIdx <= q.realIdx
      <4>1. Occupied(q) = q.frontIdx .. q.realIdx - 1
        BY <3>2 DEF Occupied
      <4>2. Occupied(p) = q.frontIdx .. r - 1
        BY <2>1, <3>1, <3>2, RingIndices DEF Occupied
      <4> QED BY <3>1, <3>2, <4>1, <4>2, RingIndices
    <3>3. CASE q.frontIdx > q.realIdx
      <4>1. Occupied(q) = (q.frontIdx .. c) \cup (0 .. q.realIdx - 1)
        BY <3>3, RingIndices DEF Occupied
      <4>2. Occupied(p) = (q.frontIdx .. c) \cup (0 .. r - 1)
        BY <2>1, <3>1, <3>3, RingIndices DEF Occupied
      <4> QED BY <3>1, <3>3, <4>1, <4>2, RingIndices
    <3> QED BY <3>2, <3>3, RingIndices
  <2> QED BY <2>2, <2>3
<1> QED BY <1>3, <1>5, <1>7, RingIndices

(* size() counts the occupied slots; the queue is full when all but one are. *)
LEMMA RingSize ==
  ASSUME NEW c \in Nat, NEW S, NEW q \in Ring(c, S)
  PROVE  /\ IsFiniteSet(Occupied(q)) /\ Cardinality(Occupied(q)) = Size(q)
         /\ Size(q) \in 0 .. c
         /\ Empty(q) <=> Occupied(q) = {}
         /\ Full(q) <=> Size(q) = c
<1>1. CASE q.frontIdx <= q.realIdx
  <2>1. Occupied(q) = q.frontIdx .. q.realIdx - 1
    BY <1>1 DEF Occupied
  <2>2. IsFiniteSet(Occupied(q)) /\ Cardinality(Occupied(q)) = q.realIdx - q.frontIdx
    <3>1. q.frontIdx \in Int /\ q.realIdx - 1 \in Int
      BY RingIndices
    <3>2. IsFiniteSet(q.frontIdx .. q.realIdx - 1)
          /\ Cardinality(q.frontIdx .. q.realIdx - 1) =
               IF q.frontIdx > q.realIdx - 1 THEN 0 ELSE (q.realIdx - 1) - q.frontIdx + 1
      BY <3>1, FS_Interval
    <3>3. q.frontIdx \in Int /\ q.realIdx \in Int
      BY RingIndices
    <3> QED BY <1>1, <2>1, <3>2, <3>3
  <2>3. (q.realIdx + 1) % (c + 1) = IF q.realIdx = c THEN 0 ELSE q.realIdx + 1
    BY RingIndices
  <2>4. q.realIdx - q.frontIdx \in 0 .. c /\ Size(q) = q.realIdx - q.frontIdx
    BY <1>1, RingIndices
  <2>5. Empty(q) <=> Occupied(q) = {}
    BY <1>1, <2>1, RingIndices DEF Empty
  <2>6. Full(q) <=> Size(q) = c
    BY <1>1, <2>3, <2>4, RingIndices DEF Full
  <2> QED BY <2>2, <2>4, <2>5, <2>6
<1>2. CASE q.frontIdx > q.realIdx
  <2> DEFINE A == q.frontIdx .. c
             B == 0 .. q.realIdx - 1
  <2>1. Occupied(q) = A \cup B /\ A \cap B = {}
    BY <1>2, RingIndices DEF Occupied
  <2>2. /\ IsFiniteSet(A) /\ Cardinality(A) = c - q.frontIdx + 1
        /\ IsFiniteSet(B) /\ Cardinality(B) = q.realIdx
    <3>1. q.frontIdx \in 0 .. c /\ q.realIdx \in 0 .. c /\ 0 \in Int
      BY RingIndices
    <3>2. q.frontIdx \in Int /\ q.realIdx - 1 \in Int /\ c \in Int
      BY <3>1
    <3>3. IsFiniteSet(A) /\ Cardinality(A) = IF q.frontIdx > c THEN 0 ELSE c - q.frontIdx + 1
      BY <3>2, FS_Interval
    <3>4. IsFiniteSet(B) /\ Cardinality(B) = IF 0 > q.realIdx - 1 THEN 0 ELSE (q.realIdx - 1) - 0 + 1
      BY <3>1, <3>2, FS_Interval
    <3> HIDE DEF A, B
    <3> QED BY <3>1, <3>3, <3>4
  <2>3. q.frontIdx \in A
    BY RingIndices
  <2>4. /\ IsFiniteSet(Occupied(q))
        /\ Cardinality(Occupied(q)) = (c - q.frontIdx + 1) + q.realIdx - 0
    <3> HIDE DEF A, B
    <3> QED BY <2>1, <2>2, FS_Union, FS_EmptySet
  <2>5. (q.realIdx + 1) % (c + 1) = IF q.realIdx = c THEN 0 ELSE q.realIdx + 1
    BY RingIndices
  <2> QED BY <1>2, <2>1, <2>3, <2>4, <2>5, RingIndices DEF Empty, Full
<1> QED BY <1>1, <1>2, RingIndices

(* The queued elements are those of the occupied slots, one each.           *)
LEMMA RingContents ==
  ASSUME NEW c \in Nat, NEW S, NEW q \in Ring(c, S)
  PROVE  /\ \A i \in 1 .. Size(q) : /\ Contents(q)[i] = q.elements[SlotOf(q, i)]
                                    /\ SlotOf(q, i) \in Occupied(q)
         /\ \A i, j \in 1 .. Size(q) : SlotOf(q, i) = SlotOf(q, j) => i = j
         /\ \A k \in Occupied(q) : \E i \in 1 .. Size(q) : SlotOf(q, i) = k
<1>1. ASSUME NEW i \in 1 .. Size(q)
      PROVE  Contents(q)[i] = q.elements[SlotOf(q, i)] /\ SlotOf(q, i) \in Occupied(q)
  <2> DEFINE a == q.frontIdx + i - 1
             n == c + 1
  <2>1. Size(q) \in 0 .. c
    BY RingSize
  <2>2. n \in Nat \ {0} /\ a \in Nat /\ a < n + n
    BY <2>1, RingIndices
  <2>3. a % n = IF a < n THEN a ELSE a - n
    <3> HIDE DEF a, n
    <3> QED BY <2>2, OneTurn
  <2>4. Contents(q)[i] = q.elements[a % (c + 1)]
    BY RingIndices DEF Contents
  <2>5. SlotOf(q, i) = a % (c + 1)
    BY <2>2, <2>3, RingIndices DEF SlotOf
  <2>6. SlotOf(q, i) \in Occupied(q)
    <3>1. CASE q.frontIdx <= q.realIdx
      <4>1. Size(q) = q.realIdx - q.frontIdx /\ Occupied(q) = q.frontIdx .. q.realIdx - 1
        BY <3>1, RingIndices DEF Occupied
      <4>2. SlotOf(q, i) = q.frontIdx + i - 1
        BY <3>1, <4>1, RingIndices DEF SlotOf
      <4> QED BY <4>1, <4>2, RingIndices
    <3>2. CASE q.frontIdx > q.realIdx
      <4>1. Size(q) = q.realIdx + c + 1 - q.frontIdx
            /\ Occupied(q) = (q.frontIdx .. c) \cup (0 .. q.realIdx - 1)
        BY <3>2, RingIndices DEF Occupied
      <4>2. CASE q.frontIdx + i - 1 <= c
        <5>1. SlotOf(q, i) = q.frontIdx + i - 1
          BY <4>2, RingIndices DEF SlotOf
        <5> QED BY <4>1, <4>2, <5>1, RingIndices
      <4>3. CASE q.frontIdx + i - 1 > c
        <5>1. SlotOf(q, i) = q.frontIdx + i - 1 - (c + 1)
          BY <4>3, RingIndices DEF SlotOf
        <5>2. SlotOf(q, i) \in 0 .. q.realIdx - 1
          BY <4>1, <4>3, <5>1, RingIndices
        <5> QED BY <4>1, <5>2
      <4> QED BY <4>2, <4>3, RingIndices
    <3> QED BY <3>1, <3>2, RingIndices
  <2> QED BY <2>4, <2>5, <2>6
<1>2. ASSUME NEW i \in 1 .. Size(q), NEW j \in 1 .. Size(q), SlotOf(q, i) = SlotOf(q, j)
      PROVE  i = j
  BY <1>2, RingSize, RingIndices DEF SlotOf
<1>3. ASSUME NEW k \in Occupied(q) PROVE \E i \in 1 .. Size(q) : SlotOf(q, i) = k
  <2> DEFINE i == IF k >= q.frontIdx THEN k - q.frontIdx + 1 ELSE k + c + 1 - q.frontIdx + 1
  <2>1. i \in 1 .. Size(q) /\ SlotOf(q, i) = k
    BY RingIndices DEF Occupied, SlotOf
  <2> HIDE DEF i
  <2> QED BY <2>1
<1> QED BY <1>1, <1>2, <1>3

----------------------------------------------------------------------------
(* What the properties rest on. *)

\* A buffer's shares, numbered per user.
Out(s, b) == UNION {{u} \X (1 .. s[u][b]) : u \in Users}

\* numOfUser counts the shares that are out.
UsersCounted ==
  \A b \in Buffers : /\ IsFiniteSet(Out(shares, b))
                     /\ buf[b].users = Cardinality(Out(shares, b))

\* What the ring's occupied slots hold.
InRing == {bufferQueue.elements[i] : i \in Occupied(bufferQueue)}

\* The constructor's buffers keep their memory, all others are temporary.
MinIsCached ==
  \A b \in Buffers : IF b <= MinQueue THEN buf[b].live /\ ~buf[b].temp
                     ELSE buf[b].live => buf[b].temp

\* Only the constructor's buffers get into the ring, each once.
RingIsSound ==
  /\ \A i \in 0 .. MinQueue : bufferQueue.elements[i] \in 0 .. MinQueue
  /\ \A i \in Occupied(bufferQueue) : bufferQueue.elements[i] # NoBuffer
  /\ \A i, j \in Occupied(bufferQueue) :
       bufferQueue.elements[i] = bufferQueue.elements[j] => i = j

\* A cached buffer is in the ring if nobody uses it, a temporary one has
\* memory if somebody does.
UnusedIsCached ==
  \A b \in Buffers : IF b <= MinQueue THEN b \in InRing <=> buf[b].users = 0
                     ELSE buf[b].live <=> buf[b].users > 0

PoolInv ==
  /\ TypeOK /\ UsersCounted /\ AllocatedIsLive /\ OnlyHeldSurvive /\ WaitsForReason
  /\ ~exited => MinIsCached /\ RingIsSound /\ UnusedIsCached

----------------------------------------------------------------------------
(* Shares. *)

ShareTypes == [Users -> [Buffers -> Nat]]

(* The shares of a buffer, one by one.                                       *)
LEMMA OutMember ==
  ASSUME NEW s, NEW b
  PROVE  \A p : p \in Out(s, b) <=> \E u \in Users : \E k \in 1 .. s[u][b] : p = <<u, k>>
  BY DEF Out

(* A buffer whose shares stay the same has the same ones out.               *)
LEMMA OutSame ==
  ASSUME NEW s, NEW r, NEW c, \A v \in Users : r[v][c] = s[v][c]
  PROVE  Out(r, c) = Out(s, c)
  BY DEF Out

(* One share more of a buffer.                                              *)
LEMMA ShareAdded ==
  ASSUME NEW s \in ShareTypes, NEW r \in ShareTypes, NEW u \in Users, NEW b \in Buffers,
         \A v \in Users, c \in Buffers : r[v][c] = IF v = u /\ c = b THEN s[v][c] + 1 ELSE s[v][c]
  PROVE  /\ <<u, s[u][b] + 1>> \notin Out(s, b)
         /\ Out(r, b) = Out(s, b) \cup {<<u, s[u][b] + 1>>}
<1>1. \A v \in Users, c \in Buffers : r[v][c] = IF v = u /\ c = b THEN s[v][c] + 1 ELSE s[v][c]
  OBVIOUS
<1>3. <<u, s[u][b] + 1>> \notin Out(s, b)
  <2>1. s[u][b] \in Nat
    BY DEF ShareTypes
  <2>2. s[u][b] + 1 \notin 1 .. s[u][b]
    BY <2>1
  <2> QED BY <2>2, OutMember
<1>4. ASSUME NEW p \in Out(r, b) PROVE p \in Out(s, b) \cup {<<u, s[u][b] + 1>>}
  <2>1. PICK v \in Users : \E k \in 1 .. r[v][b] : p = <<v, k>>
    BY <1>4, OutMember
  <2>2. PICK k \in 1 .. r[v][b] : p = <<v, k>>
    BY <2>1
  <2>3. s[v][b] \in Nat /\ r[v][b] = IF v = u THEN s[v][b] + 1 ELSE s[v][b]
    BY <1>1 DEF ShareTypes
  <2>4. CASE k \in 1 .. s[v][b]
    BY <2>2, <2>4, OutMember
  <2>5. CASE k \notin 1 .. s[v][b]
    <3>1. v = u /\ k = s[u][b] + 1
      BY <2>3, <2>5
    <3> QED BY <2>2, <3>1
  <2> QED BY <2>4, <2>5
<1>5. ASSUME NEW p \in Out(s, b) \cup {<<u, s[u][b] + 1>>} PROVE p \in Out(r, b)
  <2>1. CASE p \in Out(s, b)
    <3>1. PICK v \in Users : \E k \in 1 .. s[v][b] : p = <<v, k>>
      BY <2>1, OutMember
    <3>2. PICK k \in 1 .. s[v][b] : p = <<v, k>>
      BY <3>1
    <3>3. s[v][b] \in Nat /\ r[v][b] = IF v = u THEN s[v][b] + 1 ELSE s[v][b]
      BY <1>1 DEF ShareTypes
    <3>4. k \in 1 .. r[v][b]
      BY <3>3
    <3> QED BY <3>2, <3>4, OutMember
  <2>2. CASE p = <<u, s[u][b] + 1>>
    <3>1. r[u][b] = s[u][b] + 1 /\ s[u][b] \in Nat
      BY <1>1 DEF ShareTypes
    <3>2. s[u][b] + 1 \in 1 .. r[u][b]
      BY <3>1
    <3> QED BY <2>2, <3>2, OutMember
  <2> QED BY <1>5, <2>1, <2>2
<1> QED BY <1>3, <1>4, <1>5

(* One share less: the share that is returned is added back.                *)
LEMMA ShareReturned ==
  ASSUME NEW s \in ShareTypes, NEW r \in ShareTypes, NEW u \in Users, NEW b \in Buffers,
         s[u][b] > 0,
         \A v \in Users, c \in Buffers : r[v][c] = IF v = u /\ c = b THEN s[v][c] - 1 ELSE s[v][c]
  PROVE  /\ <<u, s[u][b]>> \in Out(s, b)
         /\ Out(r, b) = Out(s, b) \ {<<u, s[u][b]>>}
<1>1. \A v \in Users, c \in Buffers : s[v][c] \in Nat
  BY DEF ShareTypes
<1>2. \A v \in Users, c \in Buffers : s[v][c] = IF v = u /\ c = b THEN r[v][c] + 1 ELSE r[v][c]
  BY <1>1
<1>3. r[u][b] + 1 = s[u][b]
  BY <1>1
<1>4. /\ <<u, r[u][b] + 1>> \notin Out(r, b)
      /\ Out(s, b) = Out(r, b) \cup {<<u, r[u][b] + 1>>}
  BY <1>2, ShareAdded
<1> QED BY <1>3, <1>4

(* A buffer is held by somebody if it has users; who holds a share is one.  *)
LEMMA HeldIsUsed ==
  ASSUME TypeOK, UsersCounted, NEW b \in Buffers
  PROVE  /\ buf[b].users \in Nat
         /\ Held(b) <=> buf[b].users > 0
         /\ buf[b].users = 0 => \A u \in Users : shares[u][b] = 0
<1>1. IsFiniteSet(Out(shares, b)) /\ buf[b].users = Cardinality(Out(shares, b))
  BY DEF UsersCounted
<1>2. buf[b].users \in Nat /\ (buf[b].users = 0 <=> Out(shares, b) = {})
  BY <1>1, FS_CardinalityType, FS_EmptySet
<1>3. \A u \in Users : shares[u][b] \in Nat
  BY DEF TypeOK
<1>4. Out(shares, b) = {} <=> \A u \in Users : shares[u][b] = 0
  <2>1. ASSUME NEW u \in Users, shares[u][b] # 0 PROVE <<u, 1>> \in Out(shares, b)
    <3>1. 1 \in 1 .. shares[u][b]
      BY <1>3, <2>1
    <3> QED BY <3>1, OutMember
  <2>2. ASSUME \A u \in Users : shares[u][b] = 0 PROVE Out(shares, b) = {}
    <3>1. \A u \in Users : 1 .. shares[u][b] = {}
      BY <2>2
    <3> QED BY <3>1, OutMember
  <2> QED BY <2>1, <2>2
<1> QED BY <1>2, <1>3, <1>4 DEF Held

(* The number of shares that are out follows, by one.                       *)
LEMMA OneMoreOut ==
  ASSUME NEW s \in ShareTypes, NEW r \in ShareTypes, NEW u \in Users, NEW b \in Buffers,
         \A v \in Users, c \in Buffers : r[v][c] = IF v = u /\ c = b THEN s[v][c] + 1 ELSE s[v][c],
         \A c \in Buffers : IsFiniteSet(Out(s, c)), NEW c \in Buffers
  PROVE  /\ IsFiniteSet(Out(r, c))
         /\ Cardinality(Out(r, c)) = Cardinality(Out(s, c)) + IF c = b THEN 1 ELSE 0
<1> DEFINE x == <<u, s[u][b] + 1>>
           S == Out(s, c)
<1>1. CASE c = b
  <2>1. x \notin S /\ Out(r, c) = S \cup {x} /\ IsFiniteSet(S)
    BY <1>1, ShareAdded
  <2> HIDE DEF x, S
  <2>2. IsFiniteSet(S \cup {x}) /\ Cardinality(S \cup {x}) = Cardinality(S) + 1
    BY <2>1, FS_AddElement
  <2> USE DEF S
  <2> QED BY <1>1, <2>1, <2>2
<1>2. CASE c # b
  <2>1. \A v \in Users : r[v][c] = s[v][c]
    BY <1>2
  <2>2. Out(r, c) = S /\ IsFiniteSet(S)
    BY <2>1, OutSame
  <2> HIDE DEF S
  <2>3. Cardinality(S) \in Nat
    BY <2>2, FS_CardinalityType
  <2>4. Cardinality(Out(r, c)) = Cardinality(S)
    BY <2>2
  <2> USE DEF S
  <2> QED BY <1>2, <2>2, <2>3, <2>4
<1> QED BY <1>1, <1>2

(* And by one the other way.                                                *)
LEMMA OneLessOut ==
  ASSUME NEW s \in ShareTypes, NEW r \in ShareTypes, NEW u \in Users, NEW b \in Buffers,
         s[u][b] > 0,
         \A v \in Users, c \in Buffers : r[v][c] = IF v = u /\ c = b THEN s[v][c] - 1 ELSE s[v][c],
         \A c \in Buffers : IsFiniteSet(Out(s, c)), NEW c \in Buffers
  PROVE  /\ IsFiniteSet(Out(r, c))
         /\ Cardinality(Out(r, c)) = Cardinality(Out(s, c)) - IF c = b THEN 1 ELSE 0
<1> DEFINE x == <<u, s[u][b]>>
           S == Out(s, c)
<1>1. CASE c = b
  <2>1. x \in S /\ Out(r, c) = S \ {x} /\ IsFiniteSet(S)
    BY <1>1, ShareReturned
  <2> HIDE DEF x, S
  <2>2. IsFiniteSet(S \ {x}) /\ Cardinality(S \ {x}) = Cardinality(S) - 1
    BY <2>1, FS_RemoveElement
  <2> USE DEF S
  <2> QED BY <1>1, <2>1, <2>2
<1>2. CASE c # b
  <2>1. \A v \in Users : r[v][c] = s[v][c]
    BY <1>2
  <2>2. Out(r, c) = S /\ IsFiniteSet(S)
    BY <2>1, OutSame
  <2> HIDE DEF S
  <2>3. Cardinality(S) \in Nat
    BY <2>2, FS_CardinalityType
  <2>4. Cardinality(Out(r, c)) = Cardinality(S)
    BY <2>2
  <2> USE DEF S
  <2> QED BY <1>2, <2>2, <2>3, <2>4
<1> QED BY <1>1, <1>2

(* numOfUser follows the shares up and down.                                *)
LEMMA UsersUp ==
  ASSUME TypeOK, UsersCounted, NEW u \in Users, NEW b \in Buffers,
         shares' = [shares EXCEPT ![u][b] = @ + 1],
         \A c \in Buffers : buf'[c].users = IF c = b THEN buf[c].users + 1 ELSE buf[c].users
  PROVE  UsersCounted' /\ shares' \in [Users -> [Buffers -> Nat]]
<1> DEFINE s == shares
           r == shares'
<1>1. s \in ShareTypes
  BY DEF TypeOK, ShareTypes
<1>2. /\ r \in ShareTypes
      /\ \A v \in Users, c \in Buffers : r[v][c] = IF v = u /\ c = b THEN s[v][c] + 1 ELSE s[v][c]
  BY <1>1 DEF ShareTypes
<1>3. \A c \in Buffers : IsFiniteSet(Out(s, c)) /\ buf[c].users = Cardinality(Out(s, c))
  BY DEF UsersCounted
<1>4. \A c \in Buffers : Cardinality(Out(s, c)) \in Nat
  <2> HIDE DEF s
  <2> QED BY <1>3, FS_CardinalityType
<1>5. \A c \in Buffers :
        /\ IsFiniteSet(Out(r, c))
        /\ Cardinality(Out(r, c)) = Cardinality(Out(s, c)) + IF c = b THEN 1 ELSE 0
  <2> HIDE DEF s, r
  <2> QED BY <1>1, <1>2, <1>3, OneMoreOut
<1>6. \A c \in Buffers : IsFiniteSet(Out(r, c)) /\ buf'[c].users = Cardinality(Out(r, c))
  <2> HIDE DEF s, r
  <2> QED BY <1>3, <1>4, <1>5
<1> QED BY <1>2, <1>6 DEF UsersCounted, ShareTypes

(* pushBuffer takes one user off, as it takes one share back.                *)
LEMMA UsersDown ==
  ASSUME TypeOK, UsersCounted, NEW u \in Users, NEW b \in Buffers, shares[u][b] > 0,
         shares' = [shares EXCEPT ![u][b] = @ - 1],
         \A c \in Buffers : buf'[c].users = IF c = b THEN buf[c].users - 1 ELSE buf[c].users
  PROVE  UsersCounted' /\ shares' \in [Users -> [Buffers -> Nat]]
<1> DEFINE s == shares
           r == shares'
<1>1. s \in ShareTypes /\ s[u][b] > 0
  BY DEF TypeOK, ShareTypes
<1>2. /\ r \in ShareTypes
      /\ \A v \in Users, c \in Buffers : r[v][c] = IF v = u /\ c = b THEN s[v][c] - 1 ELSE s[v][c]
  BY <1>1 DEF ShareTypes
<1>3. \A c \in Buffers : IsFiniteSet(Out(s, c)) /\ buf[c].users = Cardinality(Out(s, c))
  BY DEF UsersCounted
<1>4. \A c \in Buffers : Cardinality(Out(s, c)) \in Nat
  <2> HIDE DEF s
  <2> QED BY <1>3, FS_CardinalityType
<1>5. \A c \in Buffers :
        /\ IsFiniteSet(Out(r, c))
        /\ Cardinality(Out(r, c)) = Cardinality(Out(s, c)) - IF c = b THEN 1 ELSE 0
  <2> HIDE DEF s, r
  <2> QED BY <1>1, <1>2, <1>3, OneLessOut
<1>6. \A c \in Buffers : IsFiniteSet(Out(r, c)) /\ buf'[c].users = Cardinality(Out(r, c))
  <2> HIDE DEF s, r
  <2> QED BY <1>3, <1>4, <1>5
<1> QED BY <1>2, <1>6 DEF UsersCounted, ShareTypes

----------------------------------------------------------------------------
(* Counting buffers. *)

Room == MaxQueue - MinQueue

(* The numbers there are: enough for what is allocated and what slots keep. *)
LEMMA Sizes ==
  /\ MinQueue \in Nat \ {0} /\ MaxQueue \in Nat /\ Room \in Nat /\ MaxQueue = MinQueue + Room
  /\ Buffers = 1 .. MinQueue + Room + Room + 1
  /\ 1 .. MinQueue \subseteq Buffers /\ NoBuffer \notin Buffers
  /\ IsFiniteSet(Buffers)
<1>1. /\ MinQueue \in Nat \ {0} /\ MaxQueue \in Nat /\ Room \in Nat
      /\ MaxQueue = MinQueue + Room
  BY SizeAssumption DEF Room
<1>2. Buffers = 1 .. MinQueue + Room + Room + 1
  BY <1>1 DEF Buffers
<1>3. IsFiniteSet(1 .. MinQueue + Room + Room + 1)
  <2>1. MinQueue + Room + Room + 1 \in Int /\ 1 \in Int
    BY <1>1
  <2> QED BY <2>1, FS_Interval
<1> QED BY <1>1, <1>2, <1>3 DEF NoBuffer

(* The types of the two rings, named.                                       *)
LEMMA RingTypes ==
  ASSUME TypeOK
  PROVE  /\ bufferQueue \in Ring(MinQueue, Buffers \cup {NoBuffer})
         /\ tempQueue \in Ring(Room, Buffers \cup {NoBuffer})
  BY DEF TypeOK, Ring, Room

(* What has memory can be counted.                                          *)
LEMMA LiveFinite ==
  /\ IsFiniteSet(Live) /\ Cardinality(Live) \in Nat
<1>1. Live \subseteq Buffers
  BY DEF Live
<1> QED BY <1>1, Sizes, FS_Subset, FS_CardinalityType

(* A ring that lacks one of the constructor's buffers has room for it.      *)
LEMMA RingHasRoom ==
  ASSUME TypeOK, RingIsSound, NEW b \in 1 .. MinQueue, b \notin InRing
  PROVE  ~Full(bufferQueue)
<1> DEFINE T == (1 .. MinQueue) \ {b}
           O == Occupied(bufferQueue)
           f == [i \in O |-> bufferQueue.elements[i]]
<1>1. O \subseteq 0 .. MinQueue
  BY RingTypes, RingIndices, Sizes
<1>2. ASSUME NEW i \in O PROVE f[i] \in T
  <2>1. /\ bufferQueue.elements[i] \in 0 .. MinQueue /\ bufferQueue.elements[i] # 0
        /\ bufferQueue.elements[i] # b
    BY <1>1 DEF RingIsSound, NoBuffer, InRing
  <2> QED BY <2>1, Sizes
<1>3. \A i, j \in O : f[i] = f[j] => i = j
  BY DEF RingIsSound
<1>4. f \in Injection(O, T)
  <2>1. f \in [O -> T]
    BY <1>2
  <2> HIDE DEF f, O, T
  <2> QED BY <1>3, <2>1 DEF Injection, IsInjective
<1>5. IsFiniteSet(T) /\ Cardinality(T) = MinQueue - 1
  <2> DEFINE M == 1 .. MinQueue
  <2>1. 1 \in Int /\ MinQueue \in Int /\ MinQueue >= 1
    BY Sizes
  <2>2. IsFiniteSet(M) /\ Cardinality(M) = MinQueue
    BY <2>1, FS_Interval
  <2> HIDE DEF M
  <2>3. IsFiniteSet(M \ {b}) /\ Cardinality(M \ {b}) = Cardinality(M) - 1
    <3>1. b \in M
      BY DEF M
    <3> QED BY <2>2, <3>1, FS_RemoveElement
  <2> USE DEF M
  <2> QED BY <2>2, <2>3
<1>6. Cardinality(O) <= MinQueue - 1
  <2> HIDE DEF f, O, T
  <2> QED BY <1>4, <1>5, FS_Injection
<1>7. Cardinality(O) = Size(bufferQueue) /\ (Full(bufferQueue) <=> Size(bufferQueue) = MinQueue)
  BY RingTypes, RingSize, Sizes
<1> HIDE DEF O
<1> QED BY <1>6, <1>7, Sizes

(* The slots of the second ring hold no more elements than there are slots. *)
LEMMA SlotCount ==
  ASSUME NEW c \in Nat, NEW S, NEW q \in Ring(c, S)
  PROVE  IsFiniteSet(SlotElements(q)) /\ Cardinality(SlotElements(q)) <= c + 1
<1> DEFINE D == 0 .. c
           T == SlotElements(q)
<1>1. IsFiniteSet(D) /\ Cardinality(D) = c + 1
  <2>1. 0 \in Int /\ c \in Int /\ ~(0 > c)
    OBVIOUS
  <2> QED BY <2>1, FS_Interval
<1>2. T = {q.elements[i] : i \in D} /\ q.elements \in [D -> S]
  BY DEF Ring, SlotElements
<1>3. q.elements \in Surjection(D, T)
  <2> HIDE DEF D, T
  <2>1. q.elements \in [D -> T]
    BY <1>2
  <2> QED BY <1>2, <2>1 DEF Surjection
<1>4. IsFiniteSet(T) /\ Cardinality(T) <= Cardinality(D)
  <2> HIDE DEF D, T
  <2> QED BY <1>1, <1>3, FS_Surjection
<1> QED BY <1>1, <1>4

(* There is a number for a new allocation whenever there is room for one.   *)
LEMMA FreshBuffer ==
  ASSUME TypeOK, MinIsCached, RingIsSound, AllocatedIsLive, NoAlloctCount > 0
  PROVE  /\ allocated \in Nat /\ allocated < MaxQueue
         /\ NewBuffer \in Buffers /\ ~buf[NewBuffer].live /\ NewBuffer > MinQueue
<1> DEFINE N == MinQueue + 1 .. MinQueue + Room + Room + 1
           L == Live
           T == SlotElements(tempQueue)
           M == 1 .. MinQueue
<1>1. allocated \in Nat /\ allocated < MaxQueue
  <2>1. NoAlloctCount = MinQueue + Room - allocated /\ allocated \in Nat
    BY RingTypes, RingIndices, Sizes DEF NoAlloctCount, TypeOK
  <2> QED BY <2>1, Sizes
<1>2. IsFiniteSet(N) /\ Cardinality(N) = Room + Room + 1
  <2>1. MinQueue + 1 \in Int /\ MinQueue + Room + Room + 1 \in Int
        /\ ~(MinQueue + 1 > MinQueue + Room + Room + 1)
        /\ (MinQueue + Room + Room + 1) - (MinQueue + 1) + 1 = Room + Room + 1
    BY Sizes
  <2> QED BY <2>1, FS_Interval
<1>3. IsFiniteSet(T) /\ Cardinality(T) <= Room + 1
  BY RingTypes, SlotCount, Sizes
<1>4. IsFiniteSet(M) /\ Cardinality(M) = MinQueue
  <2>1. 1 \in Int /\ MinQueue \in Int /\ MinQueue >= 1
    BY Sizes
  <2> QED BY <2>1, FS_Interval
<1>5. M \subseteq L
  BY Sizes DEF MinIsCached, Live
<1>6. IsFiniteSet(L \ M) /\ Cardinality(L \ M) = allocated - MinQueue
  <2>1. L \cap M = M
    BY <1>5
  <2>2. IsFiniteSet(L) /\ Cardinality(L) = allocated
    BY LiveFinite DEF AllocatedIsLive
  <2> HIDE DEF L, M
  <2> QED BY <1>4, <2>1, <2>2, FS_Difference
<1>7. /\ IsFiniteSet((L \ M) \cup T)
      /\ Cardinality((L \ M) \cup T) <= (allocated - MinQueue) + (Room + 1)
  <2> DEFINE A == L \ M
  <2> HIDE DEF L, M, T
  <2>1. /\ IsFiniteSet(A \cup T)
        /\ Cardinality(A \cup T) = Cardinality(A) + Cardinality(T) - Cardinality(A \cap T)
    BY <1>3, <1>6, FS_Union
  <2>2. Cardinality(A \cap T) \in Nat /\ Cardinality(A) \in Nat /\ Cardinality(T) \in Nat
    <3> HIDE DEF A
    <3>1. IsFiniteSet(A \cap T) /\ IsFiniteSet(A)
      <4> USE DEF A
      <4>1. IsFiniteSet(A)
        BY <1>6
      <4> HIDE DEF A
      <4> QED BY <4>1, FS_Intersection
    <3> QED BY <1>3, <3>1, FS_CardinalityType
  <2>3. Cardinality(A) = allocated - MinQueue
    BY <1>6
  <2> HIDE DEF A
  <2>4. Cardinality(A \cup T) <= (allocated - MinQueue) + (Room + 1)
    BY <1>1, <1>3, <2>1, <2>2, <2>3, Sizes
  <2> USE DEF A
  <2> QED BY <2>1, <2>4
<1>8. ~(N \subseteq (L \ M) \cup T)
  <2> DEFINE A == (L \ M) \cup T
  <2>1. IsFiniteSet(A) /\ Cardinality(A) <= (allocated - MinQueue) + (Room + 1)
    BY <1>7
  <2>2. Cardinality(A) \in Nat /\ Cardinality(N) \in Nat
    <3> HIDE DEF A, N
    <3> QED BY <1>2, <2>1, FS_CardinalityType
  <2> HIDE DEF A, N
  <2>3. N \subseteq A => Cardinality(N) <= Cardinality(A)
    BY <2>1, FS_Subset
  <2>4. ~(N \subseteq A)
    BY <1>1, <1>2, <2>1, <2>2, <2>3, Sizes
  <2> USE DEF A
  <2> QED BY <2>4
<1>9. PICK b \in N : b \notin (L \ M) \cup T
  BY <1>8
<1>10. b \in Buffers /\ b \notin M /\ b \notin SlotElements(bufferQueue)
  <2>1. SlotElements(bufferQueue) \subseteq 0 .. MinQueue
    BY RingTypes, RingIndices, Sizes DEF SlotElements, RingIsSound
  <2> QED BY <2>1, Sizes
<1>11. ~buf[b].live /\ b \notin SlotElements(bufferQueue) \cup SlotElements(tempQueue)
  BY <1>9, <1>10 DEF Live
<1>12. NewBuffer \in Buffers /\ ~buf[NewBuffer].live
  BY <1>10, <1>11 DEF NewBuffer
<1>13. NewBuffer > MinQueue
  BY <1>12, Sizes DEF MinIsCached
<1> QED BY <1>1, <1>12, <1>13

----------------------------------------------------------------------------
(* The steps. *)

(* A buffer in the ring: one of the constructor's, without users.           *)
LEMMA InRingUnused ==
  ASSUME TypeOK, RingIsSound, UnusedIsCached, NEW i \in Occupied(bufferQueue)
  PROVE  LET b == bufferQueue.elements[i] IN
           /\ b \in Buffers /\ b <= MinQueue /\ b \in InRing /\ buf[b].users = 0
<1> DEFINE b == bufferQueue.elements[i]
<1>1. i \in 0 .. MinQueue
  BY RingTypes, RingIndices, Sizes
<1>2. b \in 0 .. MinQueue /\ b # 0
  BY <1>1 DEF RingIsSound, NoBuffer
<1>3. b \in 1 .. MinQueue /\ b <= MinQueue /\ b \in Buffers
  BY <1>2, Sizes
<1>4. b \in InRing
  BY DEF InRing
<1>5. buf[b].users = 0
  <2> HIDE DEF b
  <2> QED BY <1>3, <1>4 DEF UnusedIsCached
<1> QED BY <1>3, <1>4, <1>5

(* Writing numOfUser keeps a buffer's record.                               *)
LEMMA UsersWritten ==
  ASSUME TypeOK, NEW b \in Buffers, NEW n \in Nat
  PROVE  [buf EXCEPT ![b].users = n] \in [Buffers -> [live : BOOLEAN, temp : BOOLEAN, users : Nat]]
  BY DEF TypeOK

(* popBuffer of a cached buffer.                                            *)
LEMMA CachedStep ==
  ASSUME PoolInv, NEW u \in Users, PopCached(u)
  PROVE  PoolInv'
<1> DEFINE q == bufferQueue
           b == Front(q)
<1>1. /\ ~exited /\ ~Empty(q) /\ exited' = FALSE
      /\ bufferQueue' = Pop(q)
      /\ buf' = [buf EXCEPT ![b].users = @ + 1]
      /\ shares' = [shares EXCEPT ![u][b] = @ + 1]
      /\ pc' = [pc EXCEPT ![u] = "out"]
      /\ UNCHANGED <<tempQueue, allocated, exited>>
  BY DEF PopCached, InPop, FrontTaken, PoolInv, TypeOK
<1>2. /\ TypeOK /\ UsersCounted /\ AllocatedIsLive /\ WaitsForReason
      /\ MinIsCached /\ RingIsSound /\ UnusedIsCached
  BY <1>1 DEF PoolInv
<1>3. /\ q.frontIdx \in Occupied(q) /\ Occupied(bufferQueue') = Occupied(q) \ {q.frontIdx}
      /\ bufferQueue'.elements = q.elements
      /\ bufferQueue' \in Ring(MinQueue, Buffers \cup {NoBuffer})
  BY <1>1, <1>2, RingTypes, RingPopped, Sizes
<1>4. b \in Buffers /\ b <= MinQueue /\ b \in InRing /\ buf[b].users = 0
  BY <1>2, <1>3, InRingUnused DEF Front
<1>5. \A c \in Buffers :
        /\ buf'[c].live = buf[c].live /\ buf'[c].temp = buf[c].temp
        /\ buf'[c].users = IF c = b THEN buf[c].users + 1 ELSE buf[c].users
  BY <1>1, <1>2, <1>4 DEF TypeOK
<1>6. UsersCounted' /\ shares' \in [Users -> [Buffers -> Nat]]
  <2> HIDE DEF b, q
  <2> QED BY <1>1, <1>2, <1>4, <1>5, UsersUp
<1>7. InRing' = InRing \ {b}
  BY <1>2, <1>3 DEF InRing, RingIsSound, Front
<1>8. UnusedIsCached'
  <2> HIDE DEF b, q
  <2>1. ASSUME NEW c \in Buffers, c = b PROVE c \notin InRing' /\ buf'[c].users = 1
    BY <1>4, <1>5, <1>7, <2>1
  <2>2. ASSUME NEW c \in Buffers, c # b
        PROVE  IF c <= MinQueue THEN c \in InRing' <=> buf'[c].users = 0
               ELSE buf'[c].live <=> buf'[c].users > 0
    BY <1>2, <1>5, <1>7, <2>2 DEF UnusedIsCached
  <2>3. ASSUME NEW c \in Buffers
        PROVE  IF c <= MinQueue THEN c \in InRing' <=> buf'[c].users = 0
               ELSE buf'[c].live <=> buf'[c].users > 0
    BY <1>4, <2>1, <2>2
  <2> QED BY <2>3 DEF UnusedIsCached
<1>9. MinIsCached' /\ RingIsSound'
  <2> HIDE DEF b
  <2> QED BY <1>2, <1>3, <1>5 DEF MinIsCached, RingIsSound
<1>10. AllocatedIsLive'
  <2>1. Live' = Live
    BY <1>5 DEF Live
  <2> QED BY <1>1, <1>2, <2>1 DEF AllocatedIsLive
<1>11. TypeOK'
  <2>1. buf' \in [Buffers -> [live : BOOLEAN, temp : BOOLEAN, users : Nat]]
    <3> HIDE DEF b
    <3>1. buf' = [buf EXCEPT ![b].users = 1]
      BY <1>1, <1>4
    <3> QED BY <1>2, <1>4, <3>1, UsersWritten
  <2>2. pc' \in [Users -> {"out", "wait", "woken"}]
    BY <1>1, <1>2 DEF TypeOK
  <2> QED BY <1>1, <1>2, <1>3, <1>6, <2>1, <2>2 DEF TypeOK, Ring
<1>12. \A v \in Users : pc'[v] # "wait"
  <2>1. ~(\E v \in Users : pc[v] = "wait")
    BY <1>1, <1>2 DEF WaitsForReason, Available
  <2> QED BY <1>1, <1>2, <2>1 DEF TypeOK
<1>13. WaitsForReason' /\ OnlyHeldSurvive'
  BY <1>1, <1>12 DEF WaitsForReason, OnlyHeldSurvive
<1> QED BY <1>6, <1>8, <1>9, <1>10, <1>11, <1>13 DEF PoolInv

(* push() and pop() keep a ring a ring, full or empty.                      *)
LEMMA TempRing ==
  ASSUME TypeOK, NEW b \in Buffers
  PROVE  Pop(Push(tempQueue, b)) \in Ring(Room, Buffers \cup {NoBuffer})
<1> DEFINE R == Ring(Room, Buffers \cup {NoBuffer})
           p == Push(tempQueue, b)
<1>1. p \in R
  <2>1. CASE Full(tempQueue)
    BY <2>1, RingTypes DEF Push
  <2>2. CASE ~Full(tempQueue)
    BY <2>2, RingTypes, RingPushed, Sizes
  <2> QED BY <2>1, <2>2
<1>2. Pop(p) \in R
  <2> HIDE DEF p
  <2>1. CASE Empty(p)
    BY <1>1, <2>1 DEF Pop
  <2>2. CASE ~Empty(p)
    BY <1>1, <2>2, RingPopped, Sizes
  <2> QED BY <2>1, <2>2
<1> QED BY <1>2

(* popBuffer of a new temporary buffer.                                     *)
LEMMA TempStep ==
  ASSUME PoolInv, NEW u \in Users, PopTemp(u)
  PROVE  PoolInv'
<1> DEFINE b == NewBuffer
<1>1. /\ ~exited /\ Empty(bufferQueue) /\ NoAlloctCount > 0
      /\ buf' = [buf EXCEPT ![b] = BufferInfo(TRUE, 1)]
      /\ shares' = [shares EXCEPT ![u][b] = @ + 1]
      /\ tempQueue' = Pop(Push(tempQueue, b))
      /\ allocated' = allocated + 1
      /\ pc' = [pc EXCEPT ![u] = "out"]
      /\ UNCHANGED <<bufferQueue, exited>>
  BY DEF PopTemp, InPop
<1>2. /\ TypeOK /\ UsersCounted /\ AllocatedIsLive /\ WaitsForReason
      /\ MinIsCached /\ RingIsSound /\ UnusedIsCached
  BY <1>1 DEF PoolInv
<1>3. /\ allocated \in Nat /\ allocated < MaxQueue
      /\ b \in Buffers /\ ~buf[b].live /\ b > MinQueue
  BY <1>1, <1>2, FreshBuffer
<1> HIDE DEF b
<1>4. buf[b].users = 0
  <2>1. ~(b <= MinQueue) /\ buf[b].users \in Nat
    BY <1>2, <1>3, Sizes, HeldIsUsed
  <2> QED BY <1>2, <1>3, <2>1 DEF UnusedIsCached
<1>5. \A c \in Buffers :
        /\ buf'[c].live <=> (c = b \/ buf[c].live)
        /\ buf'[c].temp <=> (c = b \/ buf[c].temp)
        /\ buf'[c].users = IF c = b THEN buf[c].users + 1 ELSE buf[c].users
  <2>2. \A c \in Buffers : buf'[c] = IF c = b THEN BufferInfo(TRUE, 1) ELSE buf[c]
    BY <1>1, <1>2 DEF TypeOK
  <2>3. /\ buf'[b].live /\ buf'[b].temp
        /\ buf'[b].users = buf[b].users + 1
    <3>1. buf'[b] = BufferInfo(TRUE, 1)
      BY <1>3, <2>2
    <3> QED BY <1>4, <3>1 DEF BufferInfo
  <2>4. \A c \in Buffers : c # b => buf'[c] = buf[c]
    BY <2>2
  <2> QED BY <2>3, <2>4
<1>6. UsersCounted' /\ shares' \in [Users -> [Buffers -> Nat]]
  BY <1>1, <1>2, <1>3, <1>5, UsersUp
<1>7. UnusedIsCached' /\ MinIsCached' /\ RingIsSound'
  <2>1. InRing' = InRing
    BY <1>1 DEF InRing
  <2>2. ~(b <= MinQueue) /\ \A c \in Buffers : c <= MinQueue => c # b
    BY <1>3, Sizes
  <2>3. UnusedIsCached'
    <3>1. ASSUME NEW c \in Buffers, c = b PROVE buf'[c].live /\ buf'[c].users > 0
      BY <1>3, <1>4, <1>5, <3>1
    <3>2. ASSUME NEW c \in Buffers, c # b
          PROVE  IF c <= MinQueue THEN c \in InRing' <=> buf'[c].users = 0
                 ELSE buf'[c].live <=> buf'[c].users > 0
      BY <1>2, <1>5, <2>1, <3>2 DEF UnusedIsCached
    <3>3. ASSUME NEW c \in Buffers
          PROVE  IF c <= MinQueue THEN c \in InRing' <=> buf'[c].users = 0
                 ELSE buf'[c].live <=> buf'[c].users > 0
      BY <2>2, <3>1, <3>2
    <3> QED BY <3>3 DEF UnusedIsCached
  <2>4. MinIsCached'
    BY <1>2, <1>5, <2>2 DEF MinIsCached
  <2>5. RingIsSound'
    BY <1>1, <1>2 DEF RingIsSound
  <2> QED BY <2>3, <2>4, <2>5
<1>8. AllocatedIsLive'
  <2>1. Live' = Live \cup {b} /\ b \notin Live
    BY <1>3, <1>5 DEF Live
  <2>2. Cardinality(Live \cup {b}) = Cardinality(Live) + 1
    BY <2>1, LiveFinite, FS_AddElement
  <2> QED BY <1>1, <1>2, <2>1, <2>2 DEF AllocatedIsLive
<1>9. TypeOK'
  <2>1. buf' \in [Buffers -> [live : BOOLEAN, temp : BOOLEAN, users : Nat]]
    <3>1. BufferInfo(TRUE, 1) \in [live : BOOLEAN, temp : BOOLEAN, users : Nat]
      BY DEF BufferInfo
    <3> QED BY <1>1, <1>2, <1>3, <3>1 DEF TypeOK
  <2>2. pc' \in [Users -> {"out", "wait", "woken"}]
    BY <1>1, <1>2 DEF TypeOK
  <2>3. tempQueue' \in Ring(Room, Buffers \cup {NoBuffer})
    BY <1>1, <1>2, <1>3, TempRing
  <2>4. allocated' \in 0 .. MaxQueue
    BY <1>1, <1>3, Sizes
  <2> QED BY <1>1, <1>2, <1>6, <2>1, <2>2, <2>3, <2>4 DEF TypeOK, Ring, Room
<1>10. \A v \in Users : pc'[v] # "wait"
  <2>1. ~(\E v \in Users : pc[v] = "wait")
    BY <1>1, <1>2 DEF WaitsForReason, Available
  <2> QED BY <1>1, <1>2, <2>1 DEF TypeOK
<1>11. WaitsForReason' /\ OnlyHeldSurvive'
  BY <1>1, <1>10 DEF WaitsForReason, OnlyHeldSurvive
<1> QED BY <1>6, <1>7, <1>8, <1>9, <1>11 DEF PoolInv

(* pushBuffer of a share that is not the last one.                          *)
LEMMA ShareBackStep ==
  ASSUME PoolInv, NEW u \in Users, NEW b \in Buffers, PushBuffer(u, b), ~LastShare(b)
  PROVE  PoolInv'
<1>1. /\ ~exited /\ shares[u][b] > 0
      /\ shares' = [shares EXCEPT ![u][b] = @ - 1]
      /\ buf' = [buf EXCEPT ![b].users = @ - 1]
      /\ UNCHANGED <<bufferQueue, tempQueue, allocated, pc, exited>>
  BY DEF PushBuffer
<1>2. /\ TypeOK /\ UsersCounted /\ AllocatedIsLive /\ WaitsForReason
      /\ MinIsCached /\ RingIsSound /\ UnusedIsCached
  BY <1>1 DEF PoolInv
<1>3. buf[b].users \in Nat /\ buf[b].users > 1
  <2>1. buf[b].users \in Nat /\ buf[b].users > 0
    BY <1>1, <1>2, HeldIsUsed DEF Held
  <2> QED BY <2>1 DEF LastShare
<1>4. \A c \in Buffers :
        /\ buf'[c].live = buf[c].live /\ buf'[c].temp = buf[c].temp
        /\ buf'[c].users = IF c = b THEN buf[c].users - 1 ELSE buf[c].users
  BY <1>1, <1>2 DEF TypeOK
<1>5. UsersCounted' /\ shares' \in [Users -> [Buffers -> Nat]]
  BY <1>1, <1>2, <1>4, UsersDown
<1>6. InRing' = InRing
  BY <1>1 DEF InRing
<1>7. UnusedIsCached'
  <2>1. ASSUME NEW c \in Buffers
        PROVE  (buf'[c].users = 0 <=> buf[c].users = 0) /\ (buf'[c].users > 0 <=> buf[c].users > 0)
    BY <1>3, <1>4
  <2> QED BY <1>2, <1>4, <1>6, <2>1 DEF UnusedIsCached
<1>8. MinIsCached' /\ RingIsSound'
  BY <1>1, <1>2, <1>4 DEF MinIsCached, RingIsSound
<1>9. AllocatedIsLive'
  <2>1. Live' = Live
    BY <1>4 DEF Live
  <2> QED BY <1>1, <1>2, <2>1 DEF AllocatedIsLive
<1>10. TypeOK'
  <2>1. buf[b].users - 1 \in Nat
    BY <1>3
  <2>2. buf' \in [Buffers -> [live : BOOLEAN, temp : BOOLEAN, users : Nat]]
    BY <1>1, <1>2, <2>1, UsersWritten
  <2> QED BY <1>1, <1>2, <1>5, <2>2 DEF TypeOK
<1>11. WaitsForReason' /\ OnlyHeldSurvive'
  BY <1>1, <1>2 DEF WaitsForReason, OnlyHeldSurvive, Available, NoAlloctCount
<1> QED BY <1>5, <1>7, <1>8, <1>9, <1>10, <1>11 DEF PoolInv

(* pushBuffer of the last share of a temporary buffer: it is freed.         *)
LEMMA FreedStep ==
  ASSUME PoolInv, NEW u \in Users, NEW b \in Buffers, PushBuffer(u, b), LastShare(b), IsTemp(b)
  PROVE  PoolInv'
<1>1. /\ ~exited /\ shares[u][b] > 0
      /\ shares' = [shares EXCEPT ![u][b] = @ - 1]
      /\ buf' = [buf EXCEPT ![b].users = 0, ![b].live = FALSE]
      /\ allocated' = allocated - 1
      /\ tempQueue' = Pop(Push(tempQueue, b))
      /\ pc' = WakeAll
      /\ UNCHANGED <<bufferQueue, exited>>
  BY DEF PushBuffer
<1>2. /\ TypeOK /\ UsersCounted /\ AllocatedIsLive
      /\ MinIsCached /\ RingIsSound /\ UnusedIsCached
  BY <1>1 DEF PoolInv
<1>3. buf[b].users = 1 /\ buf[b].temp
  BY DEF LastShare, IsTemp
<1>4. ~(b <= MinQueue) /\ buf[b].live
  BY <1>2, <1>3 DEF MinIsCached, UnusedIsCached
<1>5. /\ \A c \in Buffers \ {b} : buf'[c] = buf[c]
      /\ ~buf'[b].live /\ buf'[b].temp /\ buf'[b].users = 0
      /\ buf' \in [Buffers -> [live : BOOLEAN, temp : BOOLEAN, users : Nat]]
  BY <1>1, <1>2, <1>3 DEF TypeOK
<1>6. UsersCounted' /\ shares' \in [Users -> [Buffers -> Nat]]
  <2>1. \A c \in Buffers : buf'[c].users = IF c = b THEN buf[c].users - 1 ELSE buf[c].users
    BY <1>3, <1>5
  <2> QED BY <1>1, <1>2, <2>1, UsersDown
<1>7. InRing' = InRing
  BY <1>1 DEF InRing
<1>8. UnusedIsCached'
  <2>1. ASSUME NEW c \in Buffers
        PROVE  IF c <= MinQueue THEN c \in InRing' <=> buf'[c].users = 0
               ELSE buf'[c].live <=> buf'[c].users > 0
    <3>1. CASE c = b
      BY <1>4, <1>5, <3>1
    <3>2. CASE c # b
      BY <1>2, <1>5, <1>7, <3>2 DEF UnusedIsCached
    <3> QED BY <3>1, <3>2
  <2> QED BY <2>1 DEF UnusedIsCached
<1>9. MinIsCached' /\ RingIsSound'
  <2>1. MinIsCached'
    BY <1>2, <1>4, <1>5 DEF MinIsCached
  <2>2. RingIsSound'
    BY <1>1, <1>2 DEF RingIsSound
  <2> QED BY <2>1, <2>2
<1>10. AllocatedIsLive' /\ allocated' \in 0 .. MaxQueue
  <2>1. Live' = Live \ {b} /\ b \in Live
    BY <1>4, <1>5 DEF Live
  <2>2. /\ IsFiniteSet(Live \ {b}) /\ Cardinality(Live \ {b}) = Cardinality(Live) - 1
    BY <2>1, LiveFinite, FS_RemoveElement
  <2>3. Cardinality(Live \ {b}) \in Nat
    BY <2>2, FS_CardinalityType
  <2>4. allocated \in 0 .. MaxQueue
    BY <1>2 DEF TypeOK
  <2> QED BY <1>1, <1>2, <2>1, <2>2, <2>3, <2>4, Sizes DEF AllocatedIsLive
<1>11. TypeOK'
  <2>1. pc' \in [Users -> {"out", "wait", "woken"}]
    BY <1>1, <1>2 DEF TypeOK, WakeAll
  <2>2. tempQueue' \in Ring(Room, Buffers \cup {NoBuffer})
    BY <1>1, <1>2, TempRing
  <2> QED BY <1>1, <1>2, <1>5, <1>6, <1>10, <2>1, <2>2 DEF TypeOK, Ring, Room
<1>12. WaitsForReason' /\ OnlyHeldSurvive'
  BY <1>1 DEF WaitsForReason, OnlyHeldSurvive, WakeAll
<1> QED BY <1>6, <1>8, <1>9, <1>10, <1>11, <1>12 DEF PoolInv

(* pushBuffer of the last share of one of the constructor's buffers: the    *)
(* ring has room for it.                                                    *)
LEMMA CachedAgainStep ==
  ASSUME PoolInv, NEW u \in Users, NEW b \in Buffers, PushBuffer(u, b), LastShare(b), ~IsTemp(b)
  PROVE  PoolInv'
<1> DEFINE q == bufferQueue
<1>1. /\ ~exited /\ shares[u][b] > 0
      /\ shares' = [shares EXCEPT ![u][b] = @ - 1]
      /\ buf' = [buf EXCEPT ![b].users = 0]
      /\ bufferQueue' = Push(q, b)
      /\ pc' = WakeAll
      /\ UNCHANGED <<tempQueue, allocated, exited>>
  BY DEF PushBuffer
<1>2. /\ TypeOK /\ UsersCounted /\ AllocatedIsLive
      /\ MinIsCached /\ RingIsSound /\ UnusedIsCached
  BY <1>1 DEF PoolInv
<1>3. buf[b].users = 1 /\ ~buf[b].temp
  BY DEF LastShare, IsTemp
<1>4. b <= MinQueue /\ b \in 1 .. MinQueue /\ b \notin InRing
  <2>1. b <= MinQueue
    BY <1>2, <1>3 DEF MinIsCached, UnusedIsCached
  <2>2. b \notin InRing
    BY <1>2, <1>3, <2>1 DEF UnusedIsCached
  <2> QED BY <2>1, <2>2, Sizes
<1>5. ~Full(q)
  BY <1>2, <1>4, RingHasRoom
<1>6. /\ bufferQueue' \in Ring(MinQueue, Buffers \cup {NoBuffer})
      /\ q.realIdx \in 0 .. MinQueue /\ q.realIdx \notin Occupied(q)
      /\ Occupied(bufferQueue') = Occupied(q) \cup {q.realIdx}
      /\ bufferQueue'.elements = [q.elements EXCEPT ![q.realIdx] = b]
  <2>1. q \in Ring(MinQueue, Buffers \cup {NoBuffer}) /\ b \in Buffers \cup {NoBuffer}
    BY <1>2, RingTypes
  <2>2. MinQueue \in Nat /\ bufferQueue' = Push(q, b)
    BY <1>1, Sizes
  <2> HIDE DEF q
  <2> QED BY <1>5, <2>1, <2>2, RingPushed
<1>7. \A i \in 0 .. MinQueue :
        bufferQueue'.elements[i] = IF i = q.realIdx THEN b ELSE q.elements[i]
  <2>1. q.elements \in [0 .. MinQueue -> Buffers \cup {NoBuffer}]
    BY <1>2 DEF TypeOK
  <2> QED BY <1>6, <2>1
<1>8. Occupied(q) \subseteq 0 .. MinQueue
  BY <1>2, RingTypes, RingIndices, Sizes
<1>9. InRing' = InRing \cup {b}
  BY <1>6, <1>7, <1>8 DEF InRing
<1>10. RingIsSound'
  <2>1. \A i \in 0 .. MinQueue : bufferQueue'.elements[i] \in 0 .. MinQueue
    BY <1>2, <1>4, <1>7, Sizes DEF RingIsSound
  <2>2. \A i \in Occupied(bufferQueue') : bufferQueue'.elements[i] # NoBuffer
    BY <1>2, <1>6, <1>7, <1>8, Sizes DEF RingIsSound
  <2>3. ASSUME NEW i \in Occupied(bufferQueue'), NEW j \in Occupied(bufferQueue'),
               bufferQueue'.elements[i] = bufferQueue'.elements[j]
        PROVE  i = j
    <3>1. \A k \in Occupied(q) : q.elements[k] # b
      BY <1>4 DEF InRing
    <3> QED BY <1>2, <1>6, <1>7, <1>8, <2>3, <3>1 DEF RingIsSound
  <2> QED BY <2>1, <2>2, <2>3 DEF RingIsSound
<1>11. \A c \in Buffers :
         /\ buf'[c].live = buf[c].live /\ buf'[c].temp = buf[c].temp
         /\ buf'[c].users = IF c = b THEN 0 ELSE buf[c].users
  BY <1>1, <1>2 DEF TypeOK
<1>12. UsersCounted' /\ shares' \in [Users -> [Buffers -> Nat]]
  <2>1. \A c \in Buffers : buf'[c].users = IF c = b THEN buf[c].users - 1 ELSE buf[c].users
    BY <1>3, <1>11
  <2> QED BY <1>1, <1>2, <2>1, UsersDown
<1>13. UnusedIsCached' /\ MinIsCached'
  <2>1. ASSUME NEW c \in Buffers
        PROVE  IF c <= MinQueue THEN c \in InRing' <=> buf'[c].users = 0
               ELSE buf'[c].live <=> buf'[c].users > 0
    <3>1. CASE c = b
      BY <1>4, <1>9, <1>11, <3>1
    <3>2. CASE c # b
      BY <1>2, <1>9, <1>11, <3>2 DEF UnusedIsCached
    <3> QED BY <3>1, <3>2
  <2>2. MinIsCached'
    BY <1>2, <1>11 DEF MinIsCached
  <2> QED BY <2>1, <2>2 DEF UnusedIsCached
<1>14. AllocatedIsLive'
  <2>1. Live' = Live
    BY <1>11 DEF Live
  <2> QED BY <1>1, <1>2, <2>1 DEF AllocatedIsLive
<1>15. TypeOK'
  <2>1. buf' \in [Buffers -> [live : BOOLEAN, temp : BOOLEAN, users : Nat]]
    BY <1>1, <1>2, UsersWritten
  <2>2. pc' \in [Users -> {"out", "wait", "woken"}]
    BY <1>1, <1>2 DEF TypeOK, WakeAll
  <2> QED BY <1>1, <1>2, <1>6, <1>12, <2>1, <2>2 DEF TypeOK, Ring
<1>16. WaitsForReason' /\ OnlyHeldSurvive'
  BY <1>1 DEF WaitsForReason, OnlyHeldSurvive, WakeAll
<1> QED BY <1>10, <1>12, <1>13, <1>14, <1>15, <1>16 DEF PoolInv

(* addUserOfBuffer: the buffer had users, and has one more.                 *)
LEMMA AddUserStep ==
  ASSUME PoolInv, NEW u \in Users, NEW v \in Users, NEW b \in Buffers, AddUserOfBuffer(u, v, b)
  PROVE  PoolInv'
<1>1. /\ ~exited /\ shares[u][b] > 0
      /\ buf' = [buf EXCEPT ![b].users = @ + 1]
      /\ shares' = [shares EXCEPT ![v][b] = @ + 1]
      /\ UNCHANGED <<bufferQueue, tempQueue, allocated, exited, pc>>
  BY DEF AddUserOfBuffer
<1>2. /\ TypeOK /\ UsersCounted /\ AllocatedIsLive /\ WaitsForReason
      /\ MinIsCached /\ RingIsSound /\ UnusedIsCached
  BY <1>1 DEF PoolInv
<1>3. buf[b].users \in Nat /\ buf[b].users > 0
  BY <1>1, <1>2, HeldIsUsed DEF Held
<1>4. \A c \in Buffers :
        /\ buf'[c].live = buf[c].live /\ buf'[c].temp = buf[c].temp
        /\ buf'[c].users = IF c = b THEN buf[c].users + 1 ELSE buf[c].users
  BY <1>1, <1>2 DEF TypeOK
<1>5. UsersCounted' /\ shares' \in [Users -> [Buffers -> Nat]]
  BY <1>1, <1>2, <1>4, UsersUp
<1>6. InRing' = InRing
  BY <1>1 DEF InRing
<1>7. UnusedIsCached'
  <2>1. ASSUME NEW c \in Buffers
        PROVE  (buf'[c].users = 0 <=> buf[c].users = 0) /\ (buf'[c].users > 0 <=> buf[c].users > 0)
    BY <1>3, <1>4
  <2> QED BY <1>2, <1>4, <1>6, <2>1 DEF UnusedIsCached
<1>8. MinIsCached' /\ RingIsSound'
  BY <1>1, <1>2, <1>4 DEF MinIsCached, RingIsSound
<1>9. AllocatedIsLive'
  <2>1. Live' = Live
    BY <1>4 DEF Live
  <2> QED BY <1>1, <1>2, <2>1 DEF AllocatedIsLive
<1>10. TypeOK'
  <2>1. buf[b].users + 1 \in Nat
    BY <1>3
  <2>2. buf' \in [Buffers -> [live : BOOLEAN, temp : BOOLEAN, users : Nat]]
    BY <1>1, <1>2, <2>1, UsersWritten
  <2> QED BY <1>1, <1>2, <1>5, <2>2 DEF TypeOK
<1>11. WaitsForReason' /\ OnlyHeldSurvive'
  BY <1>1, <1>2 DEF WaitsForReason, OnlyHeldSurvive, Available, NoAlloctCount
<1> QED BY <1>5, <1>7, <1>8, <1>9, <1>10, <1>11 DEF PoolInv

(* ~BufferManager: every slot is walked, so what is left has users.         *)
LEMMA DestroyStep ==
  ASSUME PoolInv, Destroy
  PROVE  PoolInv'
<1> DEFINE freed == {b \in SlotsWalked(bufferQueue) \cup SlotsWalked(tempQueue) :
                       b # NoBuffer /\ buf[b].live}
<1>1. /\ ~exited /\ exited' = TRUE
      /\ pc' = [u \in Users |-> IF pc[u] = "wait" THEN "woken" ELSE pc[u]]
      /\ buf' = [b \in Buffers |-> IF b \in freed THEN [buf[b] EXCEPT !.live = FALSE] ELSE buf[b]]
      /\ allocated' = allocated - Cardinality(freed)
      /\ UNCHANGED <<bufferQueue, tempQueue, shares>>
  BY DEF Destroy
<1>2. /\ TypeOK /\ UsersCounted /\ AllocatedIsLive
      /\ MinIsCached /\ RingIsSound /\ UnusedIsCached
  BY <1>1 DEF PoolInv
<1>3. freed \subseteq Live
  <2>1. SlotElements(bufferQueue) \subseteq Buffers \cup {NoBuffer}
    BY <1>2, RingTypes, RingIndices, Sizes DEF SlotElements, Ring
  <2>2. SlotElements(tempQueue) \subseteq Buffers \cup {NoBuffer}
    BY <1>2, RingTypes, RingIndices, Sizes DEF SlotElements, Ring
  <2> QED BY <2>1, <2>2 DEF SlotsWalked, Live
<1>4. InRing \subseteq SlotElements(bufferQueue)
  <2>1. Occupied(bufferQueue) \subseteq 0 .. MinQueue /\ bufferQueue.capcity = MinQueue
    BY <1>2, RingTypes, RingIndices, Sizes
  <2> QED BY <2>1 DEF InRing, SlotElements
<1>5. \A b \in Buffers : b \in InRing /\ buf[b].live => b \in freed
  BY <1>4, Sizes DEF SlotsWalked
<1> HIDE DEF freed
<1>6. \A c \in Buffers :
        /\ buf'[c].live <=> (buf[c].live /\ c \notin freed)
        /\ buf'[c].users = buf[c].users
  <2>1. ASSUME NEW c \in Buffers, c \in freed PROVE ~buf'[c].live /\ buf'[c].users = buf[c].users
    <3>1. buf'[c] = [buf[c] EXCEPT !.live = FALSE]
      BY <1>1, <2>1
    <3>2. buf[c] \in [live : BOOLEAN, temp : BOOLEAN, users : Nat]
      BY <1>2 DEF TypeOK
    <3> QED BY <3>1, <3>2
  <2>2. ASSUME NEW c \in Buffers, c \notin freed PROVE buf'[c] = buf[c]
    BY <1>1, <2>2
  <2> QED BY <2>1, <2>2
<1>7. Live' = Live \ freed
  BY <1>6 DEF Live
<1>8. UsersCounted'
  BY <1>1, <1>2, <1>6 DEF UsersCounted
<1>9. AllocatedIsLive' /\ allocated' \in 0 .. MaxQueue
  <2>1. IsFiniteSet(freed)
    BY <1>3, LiveFinite, FS_Subset
  <2>2. Live \cap freed = freed
    BY <1>3
  <2>3. Cardinality(Live \ freed) = Cardinality(Live) - Cardinality(freed)
    BY <2>1, <2>2, LiveFinite, FS_Difference
  <2>4. Cardinality(Live \ freed) \in Nat /\ Cardinality(freed) \in Nat
    <3>1. IsFiniteSet(Live \ freed)
      BY <2>1, LiveFinite, FS_Difference
    <3> QED BY <2>1, <3>1, FS_CardinalityType
  <2>5. allocated \in 0 .. MaxQueue
    BY <1>2 DEF TypeOK
  <2> QED BY <1>1, <1>2, <1>7, <2>3, <2>4, <2>5, Sizes DEF AllocatedIsLive
<1>10. TypeOK'
  <2>1. buf' \in [Buffers -> [live : BOOLEAN, temp : BOOLEAN, users : Nat]]
    <3>1. ASSUME NEW c \in Buffers
          PROVE  [buf[c] EXCEPT !.live = FALSE] \in [live : BOOLEAN, temp : BOOLEAN, users : Nat]
      BY <1>2 DEF TypeOK
    <3> QED BY <1>1, <1>2, <3>1 DEF TypeOK
  <2>2. pc' \in [Users -> {"out", "wait", "woken"}]
    BY <1>1, <1>2 DEF TypeOK
  <2> QED BY <1>1, <1>2, <1>9, <2>1, <2>2 DEF TypeOK
<1>11. OnlyHeldSurvive'
  <2>1. ASSUME NEW b \in Live' PROVE Held(b)
    <3>1. b \in Buffers /\ buf[b].live /\ b \notin freed
      BY <1>6, <2>1 DEF Live
    <3>2. b \notin InRing
      BY <1>5, <3>1
    <3>3. b \in 1 .. MinQueue + Room + Room + 1 /\ MinQueue \in Nat
      BY <3>1, Sizes
    <3>4. buf[b].users \in Nat /\ buf[b].users # 0
      <4>1. buf[b].users \in Nat
        BY <1>2, <3>1, HeldIsUsed
      <4>2. CASE b <= MinQueue
        BY <1>2, <3>1, <3>2, <4>1, <4>2 DEF UnusedIsCached
      <4>3. CASE ~(b <= MinQueue)
        BY <1>2, <3>1, <4>1, <4>3 DEF UnusedIsCached
      <4> QED BY <4>1, <4>2, <4>3
    <3> QED BY <1>2, <3>1, <3>4, HeldIsUsed
  <2>2. \A b : Held(b) => Held(b)'
    BY <1>1 DEF Held
  <2> QED BY <2>1, <2>2 DEF OnlyHeldSurvive, Held
<1>12. WaitsForReason'
  BY <1>1 DEF WaitsForReason
<1> QED BY <1>1, <1>8, <1>9, <1>10, <1>11, <1>12 DEF PoolInv

(* A step that only moves a popBuffer from one point of its wait to another.*)
LEMMA OnlyPcMoves ==
  ASSUME PoolInv, UNCHANGED <<bufferQueue, tempQueue, allocated, buf, exited, shares>>,
         pc' \in [Users -> {"out", "wait", "woken"}],
         ~exited /\ (\E u \in Users : pc'[u] = "wait") => ~Available
  PROVE  PoolInv'
<1>1. TypeOK'
  BY DEF PoolInv, TypeOK
<1>2. UsersCounted'
  BY DEF PoolInv, UsersCounted
<1>3. AllocatedIsLive' /\ OnlyHeldSurvive'
  BY DEF PoolInv, AllocatedIsLive, OnlyHeldSurvive, Live, Held
<1>4. WaitsForReason'
  <2>1. Available' <=> Available
    BY DEF Available, NoAlloctCount
  <2> QED BY <2>1 DEF WaitsForReason
<1>5. (~exited => MinIsCached /\ RingIsSound /\ UnusedIsCached)'
  BY DEF PoolInv, MinIsCached, RingIsSound, UnusedIsCached, InRing
<1> QED BY <1>1, <1>2, <1>3, <1>4, <1>5 DEF PoolInv

(* Every step keeps the invariant.                                          *)
LEMMA PoolStep ==
  ASSUME PoolInv, [Next]_vars
  PROVE  PoolInv'
<1>1. CASE Destroy
  BY <1>1, DestroyStep
<1>2. ASSUME NEW u \in Users, PopBuffer(u) PROVE PoolInv'
  <2>1. CASE PopCached(u)
    BY <2>1, CachedStep
  <2>2. CASE PopTemp(u)
    BY <2>2, TempStep
  <2>3. CASE PopWait(u)
    <3>1. pc' \in [Users -> {"out", "wait", "woken"}]
      BY <2>3 DEF PoolInv, TypeOK, PopWait
    <3>2. UNCHANGED <<bufferQueue, tempQueue, allocated, buf, exited, shares>> /\ ~Available
      BY <2>3 DEF PopWait
    <3> QED BY <3>1, <3>2, OnlyPcMoves
  <2>4. CASE PopExit(u)
    <3>1. pc' \in [Users -> {"out", "wait", "woken"}]
      BY <2>4 DEF PoolInv, TypeOK, PopExit
    <3>2. UNCHANGED <<bufferQueue, tempQueue, allocated, buf, exited, shares>> /\ exited
      BY <2>4 DEF PopExit
    <3> QED BY <3>1, <3>2, OnlyPcMoves
  <2> QED BY <1>2, <2>1, <2>2, <2>3, <2>4 DEF PopBuffer
<1>3. ASSUME NEW u \in Users, SpuriousWake(u) PROVE PoolInv'
  <2>1. pc' \in [Users -> {"out", "wait", "woken"}]
        /\ \A v \in Users : pc'[v] = "wait" => pc[v] = "wait"
    BY <1>3 DEF PoolInv, TypeOK, SpuriousWake
  <2>2. UNCHANGED <<bufferQueue, tempQueue, allocated, buf, exited, shares>>
    BY <1>3 DEF SpuriousWake
  <2>3. ~exited /\ (\E v \in Users : pc'[v] = "wait") => ~Available
    BY <2>1 DEF PoolInv, WaitsForReason
  <2> QED BY <2>1, <2>2, <2>3, OnlyPcMoves
<1>4. ASSUME NEW u \in Users, NEW b \in Buffers, PushBuffer(u, b) PROVE PoolInv'
  BY <1>4, ShareBackStep, FreedStep, CachedAgainStep
<1>5. ASSUME NEW u \in Users, NEW v \in Users, NEW b \in Buffers, AddUserOfBuffer(u, v, b)
      PROVE  PoolInv'
  BY <1>5, AddUserStep
<1>6. CASE UNCHANGED vars
  <2>1. UNCHANGED <<bufferQueue, tempQueue, allocated, buf, exited, shares>> /\ pc' = pc
    BY <1>6 DEF vars
  <2>2. /\ pc' \in [Users -> {"out", "wait", "woken"}]
        /\ ~exited /\ (\E u \in Users : pc'[u] = "wait") => ~Available
    BY <2>1 DEF PoolInv, TypeOK, WaitsForReason
  <2> QED BY <2>1, <2>2, OnlyPcMoves
<1> QED BY <1>1, <1>2, <1>3, <1>4, <1>5, <1>6 DEF Next

(* The constructor's state.                                                 *)
LEMMA PoolInit ==
  ASSUME Init
  PROVE  PoolInv
<1> DEFINE M == 1 .. MinQueue
<1>1. /\ \A i \in 0 .. MinQueue - 1 : bufferQueue.elements[i] = i + 1
      /\ bufferQueue.elements[MinQueue] = 0
      /\ bufferQueue.capcity = MinQueue /\ bufferQueue.realIdx = MinQueue
      /\ bufferQueue.frontIdx = 0
  BY Sizes DEF Init, Filled, NoBuffer
<1>2. Occupied(bufferQueue) = 0 .. MinQueue - 1
  BY <1>1, Sizes DEF Occupied
<1>3. InRing = M
  <2>1. ASSUME NEW b \in M PROVE b \in InRing
    <3>1. b - 1 \in 0 .. MinQueue - 1 /\ b = (b - 1) + 1
      BY Sizes
    <3>2. bufferQueue.elements[b - 1] = b
      BY <1>1, <3>1
    <3> QED BY <1>2, <3>1, <3>2 DEF InRing
  <2>2. ASSUME NEW b \in InRing PROVE b \in M
    <3>1. PICK i \in 0 .. MinQueue - 1 : b = bufferQueue.elements[i]
      BY <1>2, <2>2 DEF InRing
    <3> QED BY <1>1, <3>1, Sizes
  <2> QED BY <2>1, <2>2
<1>4. \A b \in Buffers :
        buf[b] = IF b <= MinQueue THEN BufferInfo(FALSE, 0) ELSE Unallocated
  BY DEF Init
<1>5. \A b \in Buffers :
        /\ buf[b].live <=> b <= MinQueue
        /\ ~buf[b].temp /\ buf[b].users = 0
  BY <1>4 DEF BufferInfo, Unallocated
<1>6. TypeOK
  <2>1. buf \in [Buffers -> [live : BOOLEAN, temp : BOOLEAN, users : Nat]]
    BY DEF Init, BufferInfo, Unallocated
  <2>2. bufferQueue \in Ring(MinQueue, Buffers \cup {NoBuffer})
    <3>1. \A i \in 0 .. MinQueue : (IF i < MinQueue THEN i + 1 ELSE NoBuffer) \in Buffers \cup {NoBuffer}
      BY Sizes
    <3> QED BY <3>1, Sizes DEF Init, Filled, Ring
  <2>3. tempQueue \in Ring(Room, Buffers \cup {NoBuffer})
    BY Sizes DEF Init, NewRing, Ring, Room
  <2>4. allocated \in 0 .. MaxQueue /\ exited \in BOOLEAN
    <3>1. allocated = MinQueue /\ exited = FALSE
      BY DEF Init
    <3>2. MinQueue \in 0 .. MaxQueue
      BY Sizes
    <3> QED BY <3>1, <3>2
  <2>5. pc \in [Users -> {"out", "wait", "woken"}] /\ shares \in [Users -> [Buffers -> Nat]]
    BY DEF Init
  <2> QED BY <2>1, <2>2, <2>3, <2>4, <2>5 DEF TypeOK, Ring, Room
<1>7. UsersCounted
  <2>1. ASSUME NEW b \in Buffers PROVE Out(shares, b) = {}
    BY DEF Init, Out
  <2> QED BY <1>5, <2>1, FS_EmptySet DEF UsersCounted
<1>8. AllocatedIsLive
  <2>1. Live = M
    BY <1>5, Sizes DEF Live
  <2>2. Cardinality(M) = MinQueue
    <3>1. 1 \in Int /\ MinQueue \in Int /\ MinQueue >= 1
      BY Sizes
    <3> QED BY <3>1, FS_Interval
  <2> QED BY <2>1, <2>2 DEF AllocatedIsLive, Init
<1>9. OnlyHeldSurvive /\ WaitsForReason
  BY DEF Init, OnlyHeldSurvive, WaitsForReason
<1>10. MinIsCached
  BY <1>5 DEF MinIsCached
<1>11. RingIsSound
  <2>1. \A i \in 0 .. MinQueue : bufferQueue.elements[i] \in 0 .. MinQueue
    <3>1. ASSUME NEW i \in 0 .. MinQueue PROVE bufferQueue.elements[i] \in 0 .. MinQueue
      <4>1. i \in 0 .. MinQueue - 1 \/ i = MinQueue
        BY Sizes
      <4> QED BY <1>1, <4>1, Sizes
    <3> QED BY <3>1
  <2>2. \A i \in Occupied(bufferQueue) : bufferQueue.elements[i] # NoBuffer
    BY <1>1, <1>2, Sizes DEF NoBuffer
  <2>3. \A i, j \in Occupied(bufferQueue) :
          bufferQueue.elements[i] = bufferQueue.elements[j] => i = j
    BY <1>1, <1>2, Sizes
  <2> QED BY <2>1, <2>2, <2>3 DEF RingIsSound
<1>12. UnusedIsCached
  BY <1>3, <1>5, Sizes DEF UnusedIsCached
<1> QED BY <1>6, <1>7, <1>8, <1>9, <1>10, <1>11, <1>12 DEF PoolInv

(* The inductive invariant holds throughout.                                *)
LEMMA Pooled == Spec => []PoolInv
  BY PoolInit, PoolStep, PTL DEF Spec

----------------------------------------------------------------------------
(* What follows for the buffers. *)

(* The queued elements are what the occupied slots hold, each one once.     *)
LEMMA CachedInRing ==
  ASSUME TypeOK, RingIsSound
  PROVE  /\ \A b \in Buffers : Cached(b) <=> b \in InRing
         /\ \A i, j \in 1 .. Size(bufferQueue) :
              Contents(bufferQueue)[i] = Contents(bufferQueue)[j] => i = j
<1> DEFINE q == bufferQueue
<1>1. q \in Ring(MinQueue, Buffers \cup {NoBuffer}) /\ MinQueue \in Nat
  BY RingTypes, Sizes
<1>2. /\ \A i \in 1 .. Size(q) : Contents(q)[i] = q.elements[SlotOf(q, i)] /\ SlotOf(q, i) \in Occupied(q)
      /\ \A i, j \in 1 .. Size(q) : SlotOf(q, i) = SlotOf(q, j) => i = j
      /\ \A k \in Occupied(q) : \E i \in 1 .. Size(q) : SlotOf(q, i) = k
  <2> HIDE DEF q
  <2> QED BY <1>1, RingContents
<1>3. \A i, j \in Occupied(q) : q.elements[i] = q.elements[j] => i = j
  BY DEF RingIsSound
<1>4. ASSUME NEW b \in Buffers PROVE Cached(b) <=> b \in InRing
  BY <1>2 DEF Cached, InRing
<1>5. ASSUME NEW i \in 1 .. Size(q), NEW j \in 1 .. Size(q), Contents(q)[i] = Contents(q)[j]
      PROVE  i = j
  <2> HIDE DEF q
  <2>1. SlotOf(q, i) = SlotOf(q, j)
    BY <1>2, <1>3, <1>5
  <2> QED BY <1>2, <2>1
<1> QED BY <1>4, <1>5

(* Before the manager goes, a buffer is held, or cached, or has no memory.  *)
LEMMA InvHeldOrCached ==
  ASSUME PoolInv
  PROVE  HeldOrCached
<1> SUFFICES ASSUME ~exited PROVE HeldOrCached
  BY DEF HeldOrCached
<1>1. TypeOK /\ UsersCounted /\ MinIsCached /\ RingIsSound /\ UnusedIsCached
  BY DEF PoolInv
<1>2. ASSUME NEW b \in Buffers
      PROVE  /\ b \in InRing => buf[b].live /\ ~Held(b)
             /\ Held(b) => buf[b].live
             /\ buf[b].live => b \in InRing \/ Held(b)
  <2>1. buf[b].users \in Nat /\ (Held(b) <=> buf[b].users > 0)
    BY <1>1, HeldIsUsed
  <2>2. CASE b <= MinQueue
    BY <1>1, <2>1, <2>2 DEF MinIsCached, UnusedIsCached
  <2>3. CASE ~(b <= MinQueue)
    <3>1. b \notin InRing
      <4>1. ASSUME NEW i \in Occupied(bufferQueue) PROVE bufferQueue.elements[i] <= MinQueue
        BY <1>1, InRingUnused
      <4> QED BY <2>3, <4>1 DEF InRing
    <3> QED BY <1>1, <2>1, <2>3, <3>1 DEF UnusedIsCached
  <2> QED BY <2>2, <2>3
<1> QED BY <1>1, <1>2, CachedInRing DEF HeldOrCached

(* With nobody holding a buffer, memory and ring are the constructor's.     *)
LEMMA InvBackToMin ==
  ASSUME PoolInv
  PROVE  BackToMin
<1> SUFFICES ASSUME ~exited, \A b \in Buffers : ~Held(b)
             PROVE  allocated = MinQueue /\ Size(bufferQueue) = MinQueue
  BY DEF BackToMin
<1> DEFINE M == 1 .. MinQueue
           O == Occupied(bufferQueue)
           f == [i \in O |-> bufferQueue.elements[i]]
<1>1. /\ TypeOK /\ UsersCounted /\ AllocatedIsLive
      /\ MinIsCached /\ RingIsSound /\ UnusedIsCached
  BY DEF PoolInv
<1>2. \A b \in Buffers : buf[b].users = 0
  BY <1>1, HeldIsUsed
<1>3. Live = M
  BY <1>1, <1>2, Sizes DEF Live, MinIsCached, UnusedIsCached
<1>4. IsFiniteSet(M) /\ Cardinality(M) = MinQueue
  <2>1. 1 \in Int /\ MinQueue \in Int /\ MinQueue >= 1
    BY Sizes
  <2> QED BY <2>1, FS_Interval
<1>5. InRing = M
  <2>1. M \subseteq InRing
    BY <1>1, <1>2, Sizes DEF UnusedIsCached
  <2>2. ASSUME NEW i \in O PROVE bufferQueue.elements[i] \in M
    <3>1. bufferQueue.elements[i] \in Buffers /\ bufferQueue.elements[i] <= MinQueue
      BY <1>1, InRingUnused
    <3> QED BY <3>1, Sizes
  <2> QED BY <2>1, <2>2 DEF InRing
<1>6. IsFiniteSet(O) /\ Cardinality(O) = Size(bufferQueue)
  BY <1>1, RingTypes, RingSize, Sizes
<1>7. f \in Bijection(O, M)
  <2>1. f \in [O -> M]
    BY <1>5 DEF InRing
  <2>2. \A b \in M : \E i \in O : f[i] = b
    BY <1>5 DEF InRing
  <2>3. \A i, j \in O : f[i] = f[j] => i = j
    BY <1>1 DEF RingIsSound
  <2> HIDE DEF f, O, M
  <2> QED BY <2>1, <2>2, <2>3 DEF Bijection, Injection, Surjection, IsInjective
<1>8. Cardinality(O) = Cardinality(M)
  <2> HIDE DEF f, O, M
  <2> QED BY <1>6, <1>7, FS_Bijection DEF ExistsBijection
<1> QED BY <1>1, <1>3, <1>4, <1>6, <1>8 DEF AllocatedIsLive

(* The rings keep their shape and the count stays within maxQueueSize.      *)
THEOREM PoolTypes == Spec => []TypeOK
<1>1. PoolInv => TypeOK
  BY DEF PoolInv
<1> QED BY <1>1, Pooled, PTL

(* m_alloctBufferCount counts the buffers that have memory, so that         *)
(* noAlloctCount never underflows.                                          *)
THEOREM CountIsRight == Spec => []AllocatedIsLive
<1>1. PoolInv => AllocatedIsLive
  BY DEF PoolInv
<1> QED BY <1>1, Pooled, PTL

(* No buffer is lost, given twice, or freed while it is held.               *)
THEOREM NoneLost == Spec => []HeldOrCached
  BY InvHeldOrCached, Pooled, PTL

(* Nobody holds a buffer: the manager has those it was constructed with.    *)
THEOREM Shrinks == Spec => []BackToMin
  BY InvBackToMin, Pooled, PTL

(* No wake-up is lost.                                                      *)
THEOREM NoLostWakeup == Spec => []WaitsForReason
<1>1. PoolInv => WaitsForReason
  BY DEF PoolInv
<1> QED BY <1>1, Pooled, PTL

(* The destructor leaves only what is in use.                               *)
THEOREM RestIsHeld == Spec => []OnlyHeldSurvive
<1>1. PoolInv => OnlyHeldSurvive
  BY DEF PoolInv
<1> QED BY <1>1, Pooled, PTL

----------------------------------------------------------------------------
(* The pool its users count on. *)

(* A set of buffers that have memory is no larger than what is allocated.   *)
LEMMA UseIsBounded ==
  ASSUME PoolInv, ~exited
  PROVE  /\ {c \in Buffers : Held(c)} \subseteq Live
         /\ \A S \in SUBSET Live : IsFiniteSet(S) /\ Cardinality(S) \in Nat /\ Cardinality(S) <= allocated
<1>1. {c \in Buffers : Held(c)} \subseteq Live
  BY InvHeldOrCached DEF HeldOrCached, Live
<1>2. allocated = Cardinality(Live)
  BY DEF PoolInv, AllocatedIsLive
<1> QED BY <1>1, <1>2, LiveFinite, FS_Subset, FS_CardinalityType

(* The pool counts as the manager does.                                     *)
LEMMA SameCardinality == \A S : Pool!Cardinality(S) = Cardinality(S)
  BY DEF Pool!Cardinality, Cardinality

(* A step of the manager is a step of the pool, or changes nothing in it.   *)
LEMMA PoolRefined ==
  ASSUME PoolInv, [Next]_vars
  PROVE  [Pool!Next]_(Pool!vars)
<1> DEFINE Used == {c \in Buffers : Held(c)}
<1>0. /\ TypeOK /\ UsersCounted /\ AllocatedIsLive
      /\ ~exited => MinIsCached /\ RingIsSound /\ UnusedIsCached
      /\ \A b \in Buffers : Pool!InUse(b) <=> Held(b)
  BY DEF PoolInv, Pool!InUse, Held
<1>1. ASSUME NEW u \in Users, NEW b \in Buffers, ~exited, UNCHANGED exited,
             ~Held(b), Cardinality(Used) < MaxQueue, shares' = [shares EXCEPT ![u][b] = @ + 1]
      PROVE  Pool!Pop(u, b)
  <2>1. shares[u][b] = 0
    BY <1>0, <1>1 DEF TypeOK, Held
  <2>2. shares' = [shares EXCEPT ![u][b] = 1]
    BY <1>0, <1>1, <2>1 DEF TypeOK
  <2>3. {c \in Buffers : Pool!InUse(c)} = Used
    BY <1>0
  <2>4. Cardinality({c \in Buffers : Pool!InUse(c)}) < MaxQueue
    <3> HIDE DEF Used
    <3> QED BY <1>1, <2>3
  <2>5. ~Pool!InUse(b)
    BY <1>0, <1>1
  <2> QED BY <1>1, <2>2, <2>4, <2>5, SameCardinality DEF Pool!Pop
<1>2. CASE Destroy
  <2>1. Pool!Close
    BY <1>2 DEF Destroy, Pool!Close
  <2> QED BY <2>1 DEF Pool!Next
<1>3. ASSUME NEW u \in Users, PopCached(u) PROVE Pool!Next
  <2> DEFINE b == Front(bufferQueue)
  <2>1. ~exited /\ ~Empty(bufferQueue) /\ UNCHANGED exited
        /\ shares' = [shares EXCEPT ![u][b] = @ + 1]
    BY <1>3 DEF PopCached, InPop
  <2>2. b \in Buffers /\ b <= MinQueue /\ buf[b].users = 0
    <3>1. bufferQueue.frontIdx \in Occupied(bufferQueue)
      BY <1>0, <2>1, RingTypes, RingPopped, Sizes
    <3> QED BY <1>0, <2>1, <3>1, InRingUnused DEF Front
  <2> HIDE DEF b
  <2>3. ~Held(b) /\ b \in Live
    <3>1. ~Held(b)
      BY <1>0, <2>2, HeldIsUsed
    <3> QED BY <1>0, <2>1, <2>2, <3>1 DEF MinIsCached, Live
  <2>4. Cardinality(Used) < MaxQueue
    <3>1. Used \subseteq Live \ {b}
      BY <2>1, <2>3, UseIsBounded
    <3>2. IsFiniteSet(Live \ {b}) /\ Cardinality(Live \ {b}) = Cardinality(Live) - 1
      BY <2>3, LiveFinite, FS_RemoveElement
    <3>3. Cardinality(Used) <= Cardinality(Live \ {b}) /\ Cardinality(Used) \in Nat
      <4> HIDE DEF Used
      <4>1. IsFiniteSet(Used) /\ Cardinality(Used) <= Cardinality(Live \ {b})
        BY <3>1, <3>2, FS_Subset
      <4> QED BY <4>1, FS_CardinalityType
    <3>4. Cardinality(Live) \in 0 .. MaxQueue
      BY <1>0 DEF AllocatedIsLive, TypeOK
    <3> QED BY <3>2, <3>3, <3>4, Sizes
  <2>5. Pool!Pop(u, b)
    BY <1>1, <2>1, <2>2, <2>3, <2>4
  <2> QED BY <2>2, <2>5 DEF Pool!Next
<1>4. ASSUME NEW u \in Users, PopTemp(u) PROVE Pool!Next
  <2> DEFINE b == NewBuffer
  <2>1. ~exited /\ NoAlloctCount > 0 /\ UNCHANGED exited
        /\ shares' = [shares EXCEPT ![u][b] = @ + 1]
    BY <1>4 DEF PopTemp, InPop
  <2>2. allocated \in Nat /\ allocated < MaxQueue /\ b \in Buffers /\ ~buf[b].live
    BY <1>0, <2>1, FreshBuffer
  <2> HIDE DEF b
  <2>3. Used \subseteq Live
    BY <2>1, UseIsBounded
  <2>4. ~Held(b)
    BY <2>2, <2>3 DEF Live
  <2>5. Cardinality(Used) < MaxQueue
    <3>1. Cardinality(Used) \in Nat /\ Cardinality(Used) <= allocated
      <4> HIDE DEF Used
      <4> QED BY <2>1, <2>3, UseIsBounded
    <3> QED BY <2>2, <3>1, Sizes
  <2>6. Pool!Pop(u, b)
    BY <1>1, <2>1, <2>2, <2>4, <2>5
  <2> QED BY <2>2, <2>6 DEF Pool!Next
<1>5. ASSUME NEW u \in Users, NEW b \in Buffers, PushBuffer(u, b) PROVE Pool!Next
  <2>1. Pool!Push(u, b)
    BY <1>5 DEF PushBuffer, Pool!Push
  <2> QED BY <2>1 DEF Pool!Next
<1>6. ASSUME NEW u \in Users, NEW v \in Users, NEW b \in Buffers, AddUserOfBuffer(u, v, b)
      PROVE  Pool!Next
  <2>1. Pool!Share(u, v, b)
    BY <1>6 DEF AddUserOfBuffer, Pool!Share
  <2> QED BY <2>1 DEF Pool!Next
<1>7. ASSUME NEW u \in Users, PopWait(u) \/ PopExit(u) \/ SpuriousWake(u) PROVE UNCHANGED Pool!vars
  BY <1>7 DEF PopWait, PopExit, SpuriousWake, Pool!vars
<1>8. CASE UNCHANGED vars
  BY <1>8 DEF vars, Pool!vars
<1> QED BY <1>2, <1>3, <1>4, <1>5, <1>6, <1>7, <1>8 DEF Next, PopBuffer

(* The manager implements BufferPool, whatever its sizes and users.         *)
THEOREM PoolImplemented == Spec => IsPool
<1>1. Init => Pool!Init
  BY DEF Init, Pool!Init
<1> QED BY <1>1, PoolRefined, Pooled, PTL DEF Spec, IsPool, Pool!Spec

=============================================================================
