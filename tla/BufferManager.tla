---------------------------- MODULE BufferManager ----------------------------
(***************************************************************************)
(* BufferManager: minQueueSize buffers allocated by the constructor and    *)
(* kept in a ring, temporary ones allocated while fewer than maxQueueSize  *)
(* exist and freed by the last pushBuffer.  popBuffer waits on a condition *)
(* variable when there is neither.  Every member function holds            *)
(* m_bufferLock from its first line to its last, except while it waits,    *)
(* so each is one step, and a popBuffer that has to wait is three.         *)
(*                                                                         *)
(* A buffer stands for one allocation: its number is used again only when  *)
(* it was freed and no ring slot still points to it.  A user is a thread   *)
(* that holds shares of buffers, as numOfUser counts them, and returns     *)
(* each share once.                                                        *)
(***************************************************************************)
EXTENDS RingQueue, FiniteSets, Functions

CONSTANTS
  Users,      \* threads that pop and push buffers
  MinQueue,   \* minQueueSize
  MaxQueue,   \* maxQueueSize
  MaxHold     \* bound: shares a user holds, the one it waits for included

\* With minQueueSize 0 the ring is full and empty at once, and alloctBuffer
\* refuses to allocate: popBuffer then returns invalid buffers only.
ASSUME SizeAssumption ==
  /\ MinQueue \in Nat \ {0} /\ MaxQueue \in Nat /\ MinQueue <= MaxQueue
  /\ MaxHold \in Nat

\* Enough numbers for maxQueueSize buffers and the freed ones in slots.
Buffers == 1 .. 2 * MaxQueue - MinQueue + 1
NoBuffer == 0

VARIABLES
  bufferQueue,  \* m_bufferQueue
  tempQueue,    \* m_tempBufferQueue: every temporary buffer passes through it
  allocated,    \* m_alloctBufferCount
  buf,          \* per buffer: ptr set, isTempAlloctBuffer, numOfUser
  exited,       \* m_exit
  pc,           \* per user: not in popBuffer, waiting, or woken
  shares        \* per user and buffer: shares it has to return

vars == <<bufferQueue, tempQueue, allocated, buf, exited, pc, shares>>

----------------------------------------------------------------------------
Unallocated == [live |-> FALSE, temp |-> FALSE, users |-> 0]

BufferInfo(temp, users) == [live |-> TRUE, temp |-> temp, users |-> users]

\* The ring after the constructor's loop.
Filled ==
  [capcity |-> MinQueue,
   elements |-> [i \in 0 .. MinQueue |-> IF i < MinQueue THEN i + 1 ELSE NoBuffer],
   realIdx |-> MinQueue, frontIdx |-> 0]

Init ==
  /\ bufferQueue = Filled
  /\ tempQueue = NewRing(MaxQueue - MinQueue, NoBuffer)
  /\ allocated = MinQueue
  /\ buf = [b \in Buffers |-> IF b <= MinQueue THEN BufferInfo(FALSE, 0) ELSE Unallocated]
  /\ exited = FALSE
  /\ pc = [u \in Users |-> "out"]
  /\ shares = [u \in Users |-> [b \in Buffers |-> 0]]

----------------------------------------------------------------------------
\* The shares a user holds or is waiting for.
Load(u) ==
  (IF pc[u] = "out" THEN 0 ELSE 1) + FoldFunction(LAMBDA n, m : n + m, 0, shares[u])

\* An allocation no ring slot points to.
NewBuffer ==
  CHOOSE b \in Buffers :
    ~buf[b].live /\ b \notin SlotElements(bufferQueue) \cup SlotElements(tempQueue)

\* mutant: every slot counts, the free one included
SlotsNotAlloct == Slots(bufferQueue) + tempQueue.capcity - allocated

\* What the two rings together have room for, less what is allocated.
NoAlloctCount == bufferQueue.capcity + tempQueue.capcity - allocated

\* The predicate popBuffer waits for.
Available == ~Empty(bufferQueue) \/ NoAlloctCount > 0

\* mutant: pushBuffer wakes nobody
WakeNone == pc

\* notify_all: whoever waits tests the predicate again.
WakeAll == [u \in Users |-> IF pc[u] = "wait" THEN "woken" ELSE pc[u]]

\* mutant: the front is read and not popped
FrontStays == bufferQueue

FrontTaken == Pop(bufferQueue)

\* popBuffer is called, or goes on after a wait.
InPop(u) == ~exited /\ (pc[u] = "woken" \/ (pc[u] = "out" /\ Load(u) < MaxHold))

\* popBuffer, with a cached buffer.
PopCached(u) ==
  /\ InPop(u)
  /\ ~Empty(bufferQueue)
  /\ LET b == Front(bufferQueue) IN
       /\ buf' = [buf EXCEPT ![b].users = @ + 1]
       /\ shares' = [shares EXCEPT ![u][b] = @ + 1]
  /\ bufferQueue' = FrontTaken
  /\ pc' = [pc EXCEPT ![u] = "out"]
  /\ UNCHANGED <<tempQueue, allocated, exited>>

\* popBuffer, with a new temporary buffer; it is pushed to and popped from the
\* temporary ring, whose slot keeps it for the destructor.
PopTemp(u) ==
  /\ InPop(u)
  /\ Empty(bufferQueue) /\ NoAlloctCount > 0
  /\ LET b == NewBuffer IN
       /\ buf' = [buf EXCEPT ![b] = BufferInfo(TRUE, 1)]
       /\ shares' = [shares EXCEPT ![u][b] = @ + 1]
       /\ tempQueue' = Pop(Push(tempQueue, b))
  /\ allocated' = allocated + 1
  /\ pc' = [pc EXCEPT ![u] = "out"]
  /\ UNCHANGED <<bufferQueue, exited>>

PopWait(u) ==
  /\ InPop(u)
  /\ ~Available
  /\ pc' = [pc EXCEPT ![u] = "wait"]
  /\ UNCHANGED <<bufferQueue, tempQueue, allocated, buf, exited, shares>>

SpuriousWake(u) ==
  /\ pc[u] = "wait"
  /\ pc' = [pc EXCEPT ![u] = "woken"]
  /\ UNCHANGED <<bufferQueue, tempQueue, allocated, buf, exited, shares>>

\* A popBuffer woken by the destructor returns an invalid buffer.
PopExit(u) ==
  /\ exited /\ pc[u] = "woken"
  /\ pc' = [pc EXCEPT ![u] = "out"]
  /\ UNCHANGED <<bufferQueue, tempQueue, allocated, buf, exited, shares>>

----------------------------------------------------------------------------
\* mutant: a share is enough
AnyShare(b) == buf[b].users >= 1

LastShare(b) == buf[b].users = 1

\* mutant: the flag of temporary buffers is not looked at
NeverTemp(b) == FALSE

IsTemp(b) == buf[b].temp

\* pushBuffer: the last share puts the buffer back into the ring, or frees it.
PushBuffer(u, b) ==
  /\ ~exited /\ pc[u] = "out" /\ shares[u][b] > 0
  /\ shares' = [shares EXCEPT ![u][b] = @ - 1]
  /\ IF ~LastShare(b)
     THEN /\ buf' = [buf EXCEPT ![b].users = @ - 1]
          /\ UNCHANGED <<bufferQueue, tempQueue, allocated, pc>>
     ELSE /\ IF IsTemp(b)
             THEN /\ buf' = [buf EXCEPT ![b].users = 0, ![b].live = FALSE]
                  /\ allocated' = allocated - 1
                  /\ tempQueue' = Pop(Push(tempQueue, b))
                  /\ UNCHANGED bufferQueue
             ELSE /\ buf' = [buf EXCEPT ![b].users = 0]
                  /\ bufferQueue' = Push(bufferQueue, b)
                  /\ UNCHANGED <<tempQueue, allocated>>
          /\ pc' = WakeAll
  /\ UNCHANGED exited

\* addUserOfBuffer, by a user that hands the buffer to another one.
AddUserOfBuffer(u, v, b) ==
  /\ ~exited /\ pc[u] = "out" /\ shares[u][b] > 0 /\ Load(v) < MaxHold
  /\ buf' = [buf EXCEPT ![b].users = @ + 1]
  /\ shares' = [shares EXCEPT ![v][b] = @ + 1]
  /\ UNCHANGED <<bufferQueue, tempQueue, allocated, exited, pc>>

\* mutant: the loop starts one slot late
SlotsButFirst(q) == {q.elements[i] : i \in 1 .. q.capcity}

\* What freeBufferQueue walks: all capcity + 1 slots.
SlotsWalked(q) == SlotElements(q)

\* ~BufferManager: freeBuffer leaves alone what is freed already.
Destroy ==
  /\ ~exited
  /\ exited' = TRUE
  /\ pc' = [u \in Users |-> IF pc[u] = "wait" THEN "woken" ELSE pc[u]]
  /\ LET freed == {b \in SlotsWalked(bufferQueue) \cup SlotsWalked(tempQueue) :
                     b # NoBuffer /\ buf[b].live}
     IN /\ buf' = [b \in Buffers |-> IF b \in freed THEN [buf[b] EXCEPT !.live = FALSE]
                                     ELSE buf[b]]
        /\ allocated' = allocated - Cardinality(freed)
  /\ UNCHANGED <<bufferQueue, tempQueue, shares>>

----------------------------------------------------------------------------
PopBuffer(u) == PopCached(u) \/ PopTemp(u) \/ PopWait(u) \/ PopExit(u)

Next ==
  \/ Destroy
  \/ \E u \in Users :
       \/ PopBuffer(u) \/ SpuriousWake(u)
       \/ \E b \in Buffers : PushBuffer(u, b) \/ (\E v \in Users : AddUserOfBuffer(u, v, b))

Spec == Init /\ [][Next]_vars

\* Users return what they hold; a woken popBuffer gets the lock and a buffer
\* if there is one again and again.  Nobody is obliged to pop, to share or to
\* destroy the manager.
Fairness ==
  \A u \in Users : /\ WF_vars(\E b \in Buffers : PushBuffer(u, b))
                   /\ WF_vars(pc[u] = "woken" /\ PopBuffer(u))
                   /\ SF_vars(pc[u] = "woken" /\ (PopCached(u) \/ PopTemp(u)))

FairSpec == Spec /\ Fairness

----------------------------------------------------------------------------
(* Properties. *)

(* Both rings keep their shape, and m_alloctBufferCount stays between 0 and  *)
(* maxQueueSize.                                                            *)
TypeOK ==
  /\ bufferQueue \in [capcity : {MinQueue}, elements : [0 .. MinQueue -> Buffers \cup {NoBuffer}],
                      realIdx : 0 .. MinQueue, frontIdx : 0 .. MinQueue]
  /\ tempQueue \in [capcity : {MaxQueue - MinQueue},
                    elements : [0 .. MaxQueue - MinQueue -> Buffers \cup {NoBuffer}],
                    realIdx : 0 .. MaxQueue - MinQueue, frontIdx : 0 .. MaxQueue - MinQueue]
  /\ allocated \in 0 .. MaxQueue
  /\ buf \in [Buffers -> [live : BOOLEAN, temp : BOOLEAN, users : Nat]]
  /\ exited \in BOOLEAN
  /\ pc \in [Users -> {"out", "wait", "woken"}]
  /\ shares \in [Users -> [Buffers -> Nat]]

Live == {b \in Buffers : buf[b].live}

Held(b) == \E u \in Users : shares[u][b] > 0

Cached(b) == \E i \in 1 .. Size(bufferQueue) : Contents(bufferQueue)[i] = b

(* m_alloctBufferCount is the number of buffers that have memory, so that   *)
(* noAlloctCount neither underflows nor aborts.                             *)
AllocatedIsLive == allocated = Cardinality(Live)

(* Until the manager is destroyed every buffer that has memory is either in *)
(* the ring, once and without users, or held by a user: none is lost, none  *)
(* is given to a second user before the last one has returned it, and one   *)
(* whose memory was freed is held by nobody.                                *)
HeldOrCached ==
  ~exited =>
    /\ \A i, j \in 1 .. Size(bufferQueue) :
         Contents(bufferQueue)[i] = Contents(bufferQueue)[j] => i = j
    /\ \A b \in Buffers :
         /\ Cached(b) => buf[b].live /\ ~Held(b)
         /\ Held(b) => buf[b].live
         /\ buf[b].live => Cached(b) \/ Held(b)

(* Buffers over minQueueSize go as soon as they are returned: when nobody   *)
(* holds a buffer, the manager has the buffers it was constructed with.     *)
BackToMin ==
  ~exited /\ (\A b \in Buffers : ~Held(b)) =>
    allocated = MinQueue /\ Size(bufferQueue) = MinQueue

(* Nobody waits while there is something to take: no wake-up is lost.       *)
WaitsForReason == ~exited /\ (\E u \in Users : pc[u] = "wait") => ~Available

(* What the destructor leaves allocated is in use by somebody.              *)
OnlyHeldSurvive == exited => \A b \in Live : Held(b)

(* A user that waits for a buffer gets one, or learns that the manager is   *)
(* gone, if users that hold one while they wait leave one for another:      *)
(* users times (MaxHold - 1) is less than maxQueueSize.                     *)
PopReturns == \A u \in Users : (pc[u] = "wait") ~> (pc[u] = "out")

Pool == INSTANCE BufferPool WITH held <- shares, closed <- exited

(* The manager implements the pool its users count on: a buffer that is     *)
(* popped is in nobody's use, whatever shares came and went before, and no  *)
(* more than maxQueueSize are ever out.                                     *)
IsPool == Pool!Spec
=============================================================================
