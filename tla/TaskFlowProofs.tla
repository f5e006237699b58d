---------------------------- MODULE TaskFlowProofs ----------------------------
(* Proofs about TaskFlow: no task's function runs twice, however often the   *)
(* task was queued, and the destructor leaves none of the queued tasks       *)
(* undone.                                                                   *)
EXTENDS TaskFlow, DagProofs, SequenceTheorems

States == {"pending", "running", "ok", "error"}

\* The part of the types the argument needs.
FlowTypes ==
  /\ ctl \in {"idle", "place", "get", "join", "destroyed"}
  /\ queue \in Seq(Tasks)
  /\ layers \in [Tasks -> Seq(States)]
  /\ work \in [Workers -> [st : {"idle", "call", "run", "exited", "crashed"},
                           t : Tasks \cup {NoTask}]]
  /\ ran \in [Tasks -> Nat]

Queued(t) == \E i \in DOMAIN queue : queue[i] = t

InHand(t) == \E w \in Workers : work[w].st \in {"call", "run"} /\ work[w].t = t

\* What the pool has is a task that was wrapped; one that runs has begun.
WrappedFirst ==
  /\ \A i \in DOMAIN queue : layers[queue[i]] # <<>>
  /\ \A w \in Workers : work[w].st \in {"call", "run"} =>
       /\ work[w].t \in Tasks /\ layers[work[w].t] # <<>>
       /\ work[w].st = "run" => layers[work[w].t][1] # "pending"

\* The outer layers of a task are called only when the inner ones are: one
\* that is settled wraps a function that has ended.
InnerFirst ==
  \A t \in Tasks : \A i \in DOMAIN layers[t] :
    layers[t][i] \in {"ok", "error"} => layers[t][1] \in {"ok", "error"}

\* A task's function is called once: then its innermost layer is not pending.
CalledOnce ==
  \A t \in Tasks : ran[t] # 0 => ran[t] = 1 /\ layers[t] # <<>> /\ layers[t][1] # "pending"

\* A task that was wrapped has ended, or the pool still has it.
NoneDropped == \A t \in Tasks : layers[t] # <<>> => Done(t) \/ Queued(t) \/ InHand(t)

\* A thread that has left the pool left it stopped and without tasks.
ExitOrder ==
  /\ poolStop <=> ctl \in {"join", "destroyed"}
  /\ \A w \in Workers : work[w].st = "exited" => poolStop /\ queue = <<>>
  /\ ctl = "destroyed" => \A w \in Workers : work[w].st = "exited"

FlowInv == FlowTypes /\ WrappedFirst /\ InnerFirst /\ CalledOnce /\ NoneDropped /\ ExitOrder

----------------------------------------------------------------------------
(* The constructor's state: no task, no thread at work.                      *)
LEMMA FlowInit ==
  ASSUME Init
  PROVE  FlowInv
<1>1. FlowTypes
  BY DEF Init, FlowTypes, Idle
<1>2. WrappedFirst
  BY DEF Init, WrappedFirst, Idle
<1>3. InnerFirst /\ CalledOnce /\ NoneDropped
  BY DEF Init, InnerFirst, CalledOnce, NoneDropped
<1>4. ExitOrder
  BY DEF Init, ExitOrder, Idle
<1> QED BY <1>1, <1>2, <1>3, <1>4 DEF FlowInv

(* Steps of the controlling thread that queue nothing.                       *)
LEMMA QuietStep ==
  ASSUME FlowInv, UNCHANGED <<queue, layers, work, ran>>,
         ctl' \in {"idle", "place", "get", "join", "destroyed"},
         poolStop' <=> ctl' \in {"join", "destroyed"},
         poolStop => poolStop',
         ctl' = "destroyed" => \A w \in Workers : work[w].st = "exited"
  PROVE  FlowInv'
<1>1. FlowTypes'
  BY DEF FlowInv, FlowTypes
<1>2. WrappedFirst' /\ InnerFirst' /\ CalledOnce'
  BY DEF FlowInv, WrappedFirst, InnerFirst, CalledOnce
<1>3. NoneDropped'
  BY DEF FlowInv, NoneDropped, Done, Queued, InHand
<1>4. ExitOrder'
  BY DEF FlowInv, ExitOrder
<1> QED BY <1>1, <1>2, <1>3, <1>4 DEF FlowInv

(* The layers of a task may get settled, but never pending again.            *)
LEMMA LayersKept ==
  ASSUME NEW s \in Seq(States), NEW x \in States
  PROVE  /\ Append(s, x) \in Seq(States) /\ Append(s, x) # <<>>
         /\ \A i \in DOMAIN s : Append(s, x)[i] = s[i]
         /\ DOMAIN Append(s, x) = DOMAIN s \cup {Len(s) + 1}
         /\ Append(s, x)[Len(s) + 1] = x
         /\ s # <<>> => 1 \in DOMAIN s
         /\ 1 \in DOMAIN Append(s, x)
  OBVIOUS

(* emplaceTask wraps the task once more and queues it.                       *)
LEMMA PlaceStep ==
  ASSUME FlowInv, NEW t \in Tasks, Place(t)
  PROVE  FlowInv'
<1>1. /\ ctl = "place" /\ ctl' \in {"place", "get"}
      /\ layers' = [layers EXCEPT ![t] = Append(@, "pending")]
      /\ queue' = Append(queue, t)
      /\ UNCHANGED <<work, ran, poolStop>>
  BY DEF Place
<1>2. FlowTypes /\ WrappedFirst /\ InnerFirst /\ CalledOnce /\ NoneDropped /\ ExitOrder
  BY DEF FlowInv
<1>3. /\ layers[t] \in Seq(States) /\ "pending" \in States
      /\ layers'[t] = Append(layers[t], "pending")
      /\ \A s \in Tasks : s # t => layers'[s] = layers[s]
  BY <1>1, <1>2 DEF FlowTypes, States
<1>4. /\ layers'[t] # <<>> /\ layers'[t] \in Seq(States)
      /\ layers[t] # <<>> => layers'[t][1] = layers[t][1]
      /\ \A i \in DOMAIN layers'[t] : layers'[t][i] # "pending" =>
           i \in DOMAIN layers[t] /\ layers'[t][i] = layers[t][i]
  BY <1>3, LayersKept
<1>5. /\ DOMAIN queue' = DOMAIN queue \cup {Len(queue) + 1}
      /\ queue'[Len(queue) + 1] = t /\ \A i \in DOMAIN queue : queue'[i] = queue[i]
  BY <1>1, <1>2 DEF FlowTypes
<1>6. \A s \in Tasks : layers[s] # <<>> => layers'[s] # <<>> /\ layers'[s][1] = layers[s][1]
  BY <1>3, <1>4
<1>7. FlowTypes'
  BY <1>1, <1>2, <1>4 DEF FlowTypes
<1>8. WrappedFirst'
  <2>1. \A i \in DOMAIN queue' : layers'[queue'[i]] # <<>>
    BY <1>2, <1>4, <1>5, <1>6 DEF WrappedFirst, FlowTypes
  <2> QED BY <1>1, <1>2, <1>6, <2>1 DEF WrappedFirst
<1>9. InnerFirst'
  <2>1. ASSUME NEW i \in DOMAIN layers'[t], layers'[t][i] \in {"ok", "error"}
        PROVE  layers'[t][1] \in {"ok", "error"}
    <3>1. i \in DOMAIN layers[t] /\ layers[t][i] \in {"ok", "error"}
      BY <1>4, <2>1
    <3>2. layers[t] # <<>> /\ layers[t][1] \in {"ok", "error"}
      BY <1>2, <3>1 DEF InnerFirst
    <3> QED BY <1>6, <3>2
  <2> QED BY <1>2, <1>3, <2>1 DEF InnerFirst
<1>10. CalledOnce'
  BY <1>1, <1>2, <1>6 DEF CalledOnce
<1>11. NoneDropped'
  <2>1. Queued(t)'
    BY <1>5 DEF Queued
  <2>2. ASSUME NEW s \in Tasks, s # t, layers'[s] # <<>> PROVE (Done(s) \/ Queued(s) \/ InHand(s))'
    <3>1. layers'[s] = layers[s] /\ (Done(s) \/ Queued(s) \/ InHand(s))
      BY <1>2, <1>3, <2>2 DEF NoneDropped
    <3>2. Queued(s) => Queued(s)'
      BY <1>5 DEF Queued
    <3> QED BY <1>1, <3>1, <3>2 DEF Done, InHand
  <2> QED BY <2>1, <2>2 DEF NoneDropped
<1>12. ExitOrder'
  BY <1>1, <1>2 DEF ExitOrder
<1> QED BY <1>7, <1>8, <1>9, <1>10, <1>11, <1>12 DEF FlowInv

(* A task that is taken from the queue is the only one that leaves it.       *)
LEMMA TakenOut ==
  ASSUME queue \in Seq(Tasks), NEW i \in DOMAIN queue
  PROVE  /\ RemovedAt(i) \in Seq(Tasks)
         /\ \A j \in DOMAIN RemovedAt(i) : \E k \in DOMAIN queue : RemovedAt(i)[j] = queue[k]
         /\ \A k \in DOMAIN queue : k # i => \E j \in DOMAIN RemovedAt(i) : RemovedAt(i)[j] = queue[k]
<1> DEFINE a == SubSeq(queue, 1, i - 1)
           b == SubSeq(queue, i + 1, Len(queue))
           n == Len(queue)
<1>1. n \in Nat /\ DOMAIN queue = 1 .. n /\ i \in 1 .. n /\ \A k \in 1 .. n : queue[k] \in Tasks
  OBVIOUS
<1>2. a \in Seq(Tasks) /\ Len(a) = i - 1 /\ \A k \in 1 .. i - 1 : a[k] = queue[k]
  <2>1. 1 \in Int /\ i - 1 \in Int /\ \A k \in 1 .. i - 1 : queue[k] \in Tasks
    BY <1>1
  <2>2. /\ a \in Seq(Tasks) /\ Len(a) = IF 1 <= i - 1 THEN (i - 1) - 1 + 1 ELSE 0
        /\ \A k \in 1 .. (i - 1) - 1 + 1 : a[k] = queue[1 + k - 1]
    BY <2>1, SubSeqProperties
  <2> HIDE DEF a
  <2> QED BY <1>1, <2>2
<1>3. b \in Seq(Tasks) /\ Len(b) = n - i /\ \A k \in 1 .. n - i : b[k] = queue[i + k]
  <2>1. i + 1 \in Int /\ n \in Int /\ \A k \in i + 1 .. n : queue[k] \in Tasks
    BY <1>1
  <2>2. /\ b \in Seq(Tasks) /\ Len(b) = IF i + 1 <= n THEN n - (i + 1) + 1 ELSE 0
        /\ \A k \in 1 .. n - (i + 1) + 1 : b[k] = queue[(i + 1) + k - 1]
    BY <2>1, SubSeqProperties
  <2> HIDE DEF b, n
  <2>3. Len(b) = n - i
    BY <1>1, <2>2
  <2>4. ASSUME NEW k \in 1 .. n - i PROVE b[k] = queue[i + k]
    <3>1. k \in 1 .. n - (i + 1) + 1 /\ (i + 1) + k - 1 = i + k
      BY <1>1
    <3> QED BY <2>2, <3>1
  <2> QED BY <2>2, <2>3, <2>4
<1>4. RemovedAt(i) = a \o b
  BY DEF RemovedAt
<1> HIDE DEF a, b, n
<1>5. /\ a \o b \in Seq(Tasks) /\ Len(a \o b) = n - 1
      /\ \A k \in 1 .. n - 1 : (a \o b)[k] = IF k <= i - 1 THEN a[k] ELSE b[k - (i - 1)]
  <2>1. /\ a \o b \in Seq(Tasks) /\ Len(a \o b) = Len(a) + Len(b)
        /\ \A k \in 1 .. Len(a) + Len(b) : (a \o b)[k] = IF k <= Len(a) THEN a[k] ELSE b[k - Len(a)]
    BY <1>2, <1>3, ConcatProperties
  <2>2. Len(a) + Len(b) = n - 1
    BY <1>1, <1>2, <1>3
  <2> QED BY <1>2, <2>1, <2>2
<1>6. \A k \in 1 .. n - 1 : (a \o b)[k] = IF k <= i - 1 THEN queue[k] ELSE queue[k + 1]
  <2>1. ASSUME NEW k \in 1 .. n - 1 PROVE (a \o b)[k] = IF k <= i - 1 THEN queue[k] ELSE queue[k + 1]
    <3>1. CASE k <= i - 1
      <4>1. k \in 1 .. i - 1
        BY <1>1, <3>1
      <4> QED BY <1>2, <1>5, <3>1, <4>1
    <3>2. CASE ~(k <= i - 1)
      <4>1. k - (i - 1) \in 1 .. n - i /\ i + (k - (i - 1)) = k + 1
        BY <1>1, <3>2
      <4> QED BY <1>3, <1>5, <3>2, <4>1
    <3> QED BY <3>1, <3>2
  <2> QED BY <2>1
<1>7. ASSUME NEW k \in 1 .. n, k # i PROVE \E j \in 1 .. n - 1 : (a \o b)[j] = queue[k]
  <2>1. CASE k < i
    <3>1. k \in 1 .. n - 1 /\ k <= i - 1
      BY <1>1, <2>1
    <3> QED BY <1>6, <3>1
  <2>2. CASE k > i
    <3>1. k - 1 \in 1 .. n - 1 /\ ~(k - 1 <= i - 1) /\ (k - 1) + 1 = k
      BY <1>1, <2>2
    <3> QED BY <1>6, <3>1
  <2>3. k < i \/ k > i
    BY <1>1, <1>7
  <2> QED BY <2>1, <2>2, <2>3
<1>8. ASSUME NEW j \in 1 .. n - 1 PROVE \E k \in 1 .. n : (a \o b)[j] = queue[k]
  <2>1. j \in 1 .. n /\ j + 1 \in 1 .. n
    BY <1>1
  <2> QED BY <1>6, <2>1
<1>9. DOMAIN (a \o b) = 1 .. n - 1
  BY <1>5
<1> QED BY <1>1, <1>4, <1>5, <1>7, <1>8, <1>9

(* A pool thread takes a task: it is in hand instead of queued.              *)
LEMMA TakeStep ==
  ASSUME FlowInv, NEW w \in Workers, Take(w)
  PROVE  FlowInv'
<1>1. PICK i \in DOMAIN queue :
        /\ work[w].st = "idle"
        /\ work' = [work EXCEPT ![w] = [st |-> "call", t |-> queue[i]]]
        /\ queue' = RemovedAt(i)
        /\ UNCHANGED <<ctl, layers, poolStop, ran>>
  BY DEF Take, ctlVars, histVars
<1>2. FlowTypes /\ WrappedFirst /\ InnerFirst /\ CalledOnce /\ NoneDropped /\ ExitOrder
  BY DEF FlowInv
<1>3. /\ queue' \in Seq(Tasks) /\ queue[i] \in Tasks
      /\ \A j \in DOMAIN queue' : \E k \in DOMAIN queue : queue'[j] = queue[k]
      /\ \A k \in DOMAIN queue : k # i => \E j \in DOMAIN queue' : queue'[j] = queue[k]
  BY <1>1, <1>2, TakenOut DEF FlowTypes
<1>4. work'[w] = [st |-> "call", t |-> queue[i]] /\ \A v \in Workers : v # w => work'[v] = work[v]
  BY <1>1, <1>2 DEF FlowTypes
<1>5. FlowTypes'
  <2>1. work' \in [Workers -> [st : {"idle", "call", "run", "exited", "crashed"},
                               t : Tasks \cup {NoTask}]]
    BY <1>1, <1>2, <1>3 DEF FlowTypes
  <2> QED BY <1>1, <1>2, <1>3, <2>1 DEF FlowTypes
<1>6. WrappedFirst'
  <2>1. \A j \in DOMAIN queue' : layers'[queue'[j]] # <<>>
    BY <1>1, <1>2, <1>3 DEF WrappedFirst
  <2>2. layers'[queue[i]] # <<>>
    BY <1>1, <1>2 DEF WrappedFirst
  <2>3. ASSUME NEW v \in Workers, work'[v].st \in {"call", "run"}
        PROVE  /\ work'[v].t \in Tasks /\ layers'[work'[v].t] # <<>>
               /\ work'[v].st = "run" => layers'[work'[v].t][1] # "pending"
    <3>1. CASE v = w
      BY <1>3, <1>4, <2>2, <3>1
    <3>2. CASE v # w
      BY <1>1, <1>2, <1>4, <2>3, <3>2 DEF WrappedFirst
    <3> QED BY <3>1, <3>2
  <2> QED BY <2>1, <2>3 DEF WrappedFirst
<1>7. InnerFirst' /\ CalledOnce'
  BY <1>1, <1>2 DEF InnerFirst, CalledOnce
<1>8. NoneDropped'
  <2>1. ASSUME NEW s \in Tasks, layers'[s] # <<>> PROVE (Done(s) \/ Queued(s) \/ InHand(s))'
    <3>1. Done(s) \/ Queued(s) \/ InHand(s)
      BY <1>1, <1>2, <2>1 DEF NoneDropped
    <3>2. CASE Queued(s)
      <4>1. PICK k \in DOMAIN queue : queue[k] = s
        BY <3>2 DEF Queued
      <4>2. CASE k = i
        BY <1>4, <4>1, <4>2 DEF InHand
      <4>3. CASE k # i
        BY <1>3, <4>1, <4>3 DEF Queued
      <4> QED BY <4>2, <4>3
    <3>3. CASE InHand(s)
      <4>1. PICK v \in Workers : work[v].st \in {"call", "run"} /\ work[v].t = s
        BY <3>3 DEF InHand
      <4>2. v # w
        BY <1>1, <4>1
      <4> QED BY <1>4, <4>1, <4>2 DEF InHand
    <3> QED BY <1>1, <3>1, <3>2, <3>3 DEF Done
  <2> QED BY <2>1 DEF NoneDropped
<1>9. ExitOrder'
  <2>1. queue # <<>>
    BY <1>1
  <2>2. \A v \in Workers : work'[v].st # "exited"
    BY <1>2, <1>4, <2>1 DEF ExitOrder
  <2>3. ctl # "destroyed"
    BY <1>1, <1>2 DEF ExitOrder
  <2> QED BY <1>1, <1>2, <2>2, <2>3 DEF ExitOrder
<1> QED BY <1>5, <1>6, <1>7, <1>8, <1>9 DEF FlowInv

(* A pool thread that is done with a task, or begins it: the others keep     *)
(* theirs, and what is lost from hand has ended.                             *)
LEMMA HandStep ==
  ASSUME FlowInv, NEW w \in Workers, work[w].st \in {"call", "run"},
         NEW t \in Tasks, t = work[w].t,
         NEW st \in {"idle", "run", "crashed"}, NEW k \in Tasks \cup {NoTask},
         work' = [work EXCEPT ![w] = [st |-> st, t |-> k]],
         IF st = "run" THEN k = t /\ layers'[t][1] # "pending" ELSE Done(t)',
         UNCHANGED <<ctl, queue, poolStop>>,
         layers' \in [Tasks -> Seq(States)], layers'[t] # <<>>,
         \A s \in Tasks : s # t => layers'[s] = layers[s],
         layers[t][1] # "pending" => layers'[t][1] # "pending"
  PROVE  /\ WrappedFirst' /\ NoneDropped' /\ ExitOrder'
         /\ work' \in [Workers -> [st : {"idle", "call", "run", "exited", "crashed"},
                                   t : Tasks \cup {NoTask}]]
<1>1. FlowTypes /\ WrappedFirst /\ NoneDropped /\ ExitOrder
  BY DEF FlowInv
<1>2. work'[w] = [st |-> st, t |-> k] /\ \A v \in Workers : v # w => work'[v] = work[v]
  BY <1>1 DEF FlowTypes
<1>3. \A s \in Tasks : layers[s] # <<>> =>
        layers'[s] # <<>> /\ (layers[s][1] # "pending" => layers'[s][1] # "pending")
  OBVIOUS
<1>4. WrappedFirst'
  <2>1. \A j \in DOMAIN queue' : layers'[queue'[j]] # <<>>
    BY <1>1, <1>3 DEF WrappedFirst, FlowTypes
  <2>2. ASSUME NEW v \in Workers, work'[v].st \in {"call", "run"}
        PROVE  /\ work'[v].t \in Tasks /\ layers'[work'[v].t] # <<>>
               /\ work'[v].st = "run" => layers'[work'[v].t][1] # "pending"
    <3>1. CASE v = w
      BY <1>2, <2>2, <3>1
    <3>2. CASE v # w
      BY <1>1, <1>2, <1>3, <2>2, <3>2 DEF WrappedFirst
    <3> QED BY <3>1, <3>2
  <2> QED BY <2>1, <2>2 DEF WrappedFirst
<1>5. NoneDropped'
  <2>1. (Done(t) \/ Queued(t) \/ InHand(t))'
    <3>1. CASE st = "run"
      BY <1>2, <3>1 DEF InHand
    <3>2. CASE st # "run"
      BY <3>2
    <3> QED BY <3>1, <3>2
  <2>2. ASSUME NEW s \in Tasks, s # t, layers'[s] # <<>> PROVE (Done(s) \/ Queued(s) \/ InHand(s))'
    <3>1. layers'[s] = layers[s] /\ (Done(s) \/ Queued(s) \/ InHand(s))
      BY <1>1, <2>2 DEF NoneDropped
    <3>2. InHand(s) => InHand(s)'
      BY <1>2, <2>2 DEF InHand
    <3>3. Done(s) => Done(s)'
      BY <3>1 DEF Done
    <3>4. Queued(s) => Queued(s)'
      BY DEF Queued
    <3> QED BY <3>1, <3>2, <3>3, <3>4
  <2> QED BY <2>1, <2>2 DEF NoneDropped
<1>6. ExitOrder'
  <2>1. st # "exited" /\ ctl # "destroyed"
    BY <1>1 DEF ExitOrder
  <2> QED BY <1>1, <1>2, <2>1 DEF ExitOrder
<1>7. work' \in [Workers -> [st : {"idle", "call", "run", "exited", "crashed"},
                             t : Tasks \cup {NoTask}]]
  BY <1>1 DEF FlowTypes
<1> QED BY <1>4, <1>5, <1>6, <1>7

(* A thread that goes on with its task keeps it.                             *)
LEMMA StateWritten ==
  ASSUME FlowTypes, NEW w \in Workers, NEW st
  PROVE  [work EXCEPT ![w].st = st] = [work EXCEPT ![w] = [st |-> st, t |-> work[w].t]]
<1>1. work[w] \in [st : {"idle", "call", "run", "exited", "crashed"}, t : Tasks \cup {NoTask}]
  BY DEF FlowTypes
<1>2. [work[w] EXCEPT !.st = st] = [st |-> st, t |-> work[w].t]
  BY <1>1
<1> QED BY <1>2

(* A call of a task that was called before adds no layer, and leaves what    *)
(* is settled.                                                               *)
LEMMA AgainIs ==
  ASSUME NEW s \in Seq(States), s # <<>>
  PROVE  /\ CalledAgain(s) \in Seq(States) /\ CalledAgain(s) # <<>>
         /\ Len(CalledAgain(s)) = Len(s) /\ DOMAIN CalledAgain(s) = DOMAIN s
         /\ \A i \in DOMAIN s : s[i] # "pending" => CalledAgain(s)[i] = s[i]
<1> DEFINE n == Len(s)
<1>1. n \in Nat \ {0} /\ DOMAIN s = 1 .. n /\ \A i \in 1 .. n : s[i] \in States
  OBVIOUS
<1>2. CalledAgain(s) = [i \in 1 .. n |-> IF s[i] # "pending" THEN s[i]
                          ELSE IF i > 1 /\ s[i - 1] = "pending" THEN "ok" ELSE "error"]
  BY <1>1 DEF CalledAgain
<1> HIDE DEF n
<1>3. CalledAgain(s) \in [1 .. n -> States]
  BY <1>1, <1>2 DEF States
<1>4. CalledAgain(s) \in Seq(States) /\ Len(CalledAgain(s)) = n
  BY <1>1, <1>3
<1>5. CalledAgain(s) # <<>>
  BY <1>1, <1>4
<1> QED BY <1>1, <1>2, <1>4, <1>5 DEF n

(* The task's function is called, or one of its wrappers was called before.  *)
LEMMA CallStep ==
  ASSUME FlowInv, NEW w \in Workers, Call(w)
  PROVE  FlowInv'
<1>1. /\ FlowTypes /\ WrappedFirst /\ InnerFirst /\ CalledOnce /\ work[w].st = "call"
      /\ UNCHANGED <<ctl, queue, poolStop>>
  BY DEF FlowInv, Call, ctlVars
<1>2. PICK t \in Tasks : t = work[w].t
  BY <1>1 DEF WrappedFirst
<1> DEFINE n == Len(layers[t])
<1>3. /\ layers[t] # <<>> /\ layers[t] \in Seq(States) /\ work[w] = [st |-> "call", t |-> t]
  BY <1>1, <1>2 DEF WrappedFirst, FlowTypes
<1>4. n \in Nat /\ n >= 1 /\ DOMAIN layers[t] = 1 .. n /\ 1 \in 1 .. n /\ n \in 1 .. n
  BY <1>3
<1>5. CASE Settled(t) /\ work' = [work EXCEPT ![w].st = "crashed"] /\ UNCHANGED <<layers, ran>>
  <2>1. layers[t][1] \in {"ok", "error"}
    BY <1>1, <1>4, <1>5 DEF Settled, Outermost, InnerFirst
  <2>2. Done(t)'
    BY <1>3, <1>5, <2>1 DEF Done
  <2>3. work' = [work EXCEPT ![w] = [st |-> "crashed", t |-> t]]
    BY <1>1, <1>2, <1>5, StateWritten
  <2>4. layers' \in [Tasks -> Seq(States)] /\ ran' \in [Tasks -> Nat]
    BY <1>1, <1>5 DEF FlowTypes
  <2>5. /\ WrappedFirst' /\ NoneDropped' /\ ExitOrder'
        /\ work' \in [Workers -> [st : {"idle", "call", "run", "exited", "crashed"},
                                  t : Tasks \cup {NoTask}]]
    BY <1>1, <1>2, <1>3, <1>5, <2>1, <2>2, <2>3, <2>4, HandStep
  <2>6. InnerFirst' /\ CalledOnce' /\ FlowTypes'
    BY <1>1, <1>5, <2>4, <2>5 DEF InnerFirst, CalledOnce, FlowTypes
  <2> QED BY <2>5, <2>6 DEF FlowInv
<1>6. CASE /\ Outermost(t) = "pending" /\ InnerSettled(t)
           /\ layers' = [layers EXCEPT ![t] = CalledAgain(@)]
           /\ work' = [work EXCEPT ![w] = Idle] /\ UNCHANGED ran
  <2>1. layers[t][1] \in {"ok", "error"} /\ n > 1
    BY <1>6 DEF InnerSettled
  <2>2. /\ layers'[t] = CalledAgain(layers[t])
        /\ \A s \in Tasks : s # t => layers'[s] = layers[s]
    BY <1>1, <1>6 DEF FlowTypes
  <2>3. layers'[t] \in Seq(States) /\ layers'[t] # <<>>
    BY <1>3, <1>4, <2>2, AgainIs
  <2>4. DOMAIN layers'[t] = 1 .. n /\ layers'[t][1] = layers[t][1]
    BY <1>3, <1>4, <2>1, <2>2, AgainIs
  <2>5. layers' \in [Tasks -> Seq(States)] /\ ran' \in [Tasks -> Nat]
    BY <1>1, <1>6, <2>2, <2>3 DEF FlowTypes
  <2>6. Done(t)'
    BY <2>1, <2>3, <2>4 DEF Done
  <2>7. /\ WrappedFirst' /\ NoneDropped' /\ ExitOrder'
        /\ work' \in [Workers -> [st : {"idle", "call", "run", "exited", "crashed"},
                                  t : Tasks \cup {NoTask}]]
    <3>1. work' = [work EXCEPT ![w] = [st |-> "idle", t |-> NoTask]]
      BY <1>6 DEF Idle
    <3>2. /\ work[w].st \in {"call", "run"} /\ "idle" \in {"idle", "run", "crashed"}
          /\ NoTask \in Tasks \cup {NoTask} /\ layers'[t][1] # "pending"
          /\ UNCHANGED <<ctl, queue, poolStop>>
      BY <1>1, <2>1, <2>4
    <3>3. \A s \in Tasks : s # t => layers'[s] = layers[s]
      BY <2>2
    <3>4. layers' \in [Tasks -> Seq(States)] /\ layers'[t] # <<>>
      BY <2>3, <2>5
    <3> QED BY <1>2, <2>6, <3>1, <3>2, <3>3, <3>4, HandStep
  <2>8. InnerFirst'
    BY <1>1, <2>1, <2>2, <2>4 DEF InnerFirst
  <2>9. CalledOnce'
    BY <1>1, <1>6, <2>2, <2>3, <2>4 DEF CalledOnce
  <2>10. FlowTypes'
    BY <1>1, <2>5, <2>7 DEF FlowTypes
  <2> QED BY <2>7, <2>8, <2>9, <2>10 DEF FlowInv
<1>7. CASE /\ NothingCalled(t)
           /\ layers' = [layers EXCEPT ![t] = [i \in DOMAIN @ |-> "running"]]
           /\ ran' = [ran EXCEPT ![t] = @ + 1]
           /\ work' = [work EXCEPT ![w].st = "run"]
  <2>1. /\ layers'[t] = [i \in 1 .. n |-> "running"]
        /\ \A s \in Tasks : s # t => layers'[s] = layers[s]
    BY <1>1, <1>4, <1>7 DEF FlowTypes
  <2>2. layers'[t] \in Seq(States) /\ layers'[t] # <<>> /\ layers'[t][1] = "running"
    BY <1>4, <2>1 DEF States
  <2>3. layers[t][1] = "pending" /\ ran[t] = 0
    BY <1>1, <1>4, <1>7 DEF NothingCalled, CalledOnce
  <2>4. ran'[t] = 1 /\ \A s \in Tasks : s # t => ran'[s] = ran[s]
    BY <1>1, <1>7, <2>3 DEF FlowTypes
  <2>5. layers' \in [Tasks -> Seq(States)] /\ ran' \in [Tasks -> Nat]
    BY <1>1, <1>7, <2>1, <2>2, <2>3 DEF FlowTypes
  <2>6. /\ WrappedFirst' /\ NoneDropped' /\ ExitOrder'
        /\ work' \in [Workers -> [st : {"idle", "call", "run", "exited", "crashed"},
                                  t : Tasks \cup {NoTask}]]
    <3>1. work' = [work EXCEPT ![w] = [st |-> "run", t |-> t]]
      BY <1>1, <1>2, <1>7, StateWritten
    <3>2. /\ work[w].st \in {"call", "run"} /\ "run" \in {"idle", "run", "crashed"}
          /\ t \in Tasks \cup {NoTask} /\ layers'[t][1] # "pending"
          /\ UNCHANGED <<ctl, queue, poolStop>>
      BY <1>1, <2>2
    <3>3. \A s \in Tasks : s # t => layers'[s] = layers[s]
      BY <2>1
    <3>4. layers' \in [Tasks -> Seq(States)] /\ layers'[t] # <<>>
      BY <2>2, <2>5
    <3> QED BY <1>2, <3>1, <3>2, <3>3, <3>4, HandStep
  <2>7. InnerFirst'
    BY <1>1, <2>1 DEF InnerFirst
  <2>8. CalledOnce'
    BY <1>1, <2>1, <2>2, <2>4 DEF CalledOnce
  <2>9. FlowTypes'
    BY <1>1, <2>5, <2>6 DEF FlowTypes
  <2> QED BY <2>6, <2>7, <2>8, <2>9 DEF FlowInv
<1> QED BY <1>2, <1>5, <1>6, <1>7 DEF Call

(* The task's function ends, and every layer that was running with it.       *)
LEMMA FinishStep ==
  ASSUME FlowInv, NEW w \in Workers, Finish(w)
  PROVE  FlowInv'
<1>1. /\ FlowTypes /\ WrappedFirst /\ InnerFirst /\ CalledOnce /\ work[w].st = "run"
      /\ UNCHANGED <<ctl, queue, poolStop, ran>>
      /\ work' = [work EXCEPT ![w] = Idle]
  BY DEF FlowInv, Finish, ctlVars, histVars
<1>2. PICK t \in Tasks : t = work[w].t
  BY <1>1 DEF WrappedFirst
<1> DEFINE n == Len(layers[t])
<1>3. PICK ok \in Results :
        layers' = [layers EXCEPT ![t] =
                     [i \in DOMAIN @ |-> IF @[i] # "running" THEN @[i]
                                         ELSE IF i = 1 /\ ~ok THEN "error" ELSE "ok"]]
  BY <1>2 DEF Finish
<1>4. layers[t] # <<>> /\ layers[t] \in Seq(States) /\ layers[t][1] # "pending"
  BY <1>1, <1>2 DEF WrappedFirst, FlowTypes
<1>5. n \in Nat /\ n >= 1 /\ DOMAIN layers[t] = 1 .. n /\ 1 \in 1 .. n
      /\ \A i \in 1 .. n : layers[t][i] \in States
  BY <1>4
<1>6. /\ layers'[t] = [i \in 1 .. n |-> IF layers[t][i] # "running" THEN layers[t][i]
                                        ELSE IF i = 1 /\ ~ok THEN "error" ELSE "ok"]
      /\ \A s \in Tasks : s # t => layers'[s] = layers[s]
  BY <1>1, <1>3, <1>5 DEF FlowTypes
<1>7. layers'[t] \in Seq(States) /\ layers'[t] # <<>>
  BY <1>5, <1>6 DEF States
<1>8. layers'[t][1] \in {"ok", "error"}
  BY <1>4, <1>5, <1>6 DEF States
<1>9. layers' \in [Tasks -> Seq(States)]
  <2>1. DOMAIN layers' = Tasks /\ layers' = [s \in Tasks |-> layers'[s]]
    BY <1>1, <1>3 DEF FlowTypes
  <2>2. \A s \in Tasks : layers'[s] \in Seq(States)
    BY <1>1, <1>6, <1>7 DEF FlowTypes
  <2> QED BY <2>1, <2>2
<1>10. /\ WrappedFirst' /\ NoneDropped' /\ ExitOrder'
       /\ work' \in [Workers -> [st : {"idle", "call", "run", "exited", "crashed"},
                                 t : Tasks \cup {NoTask}]]
  <2>1. work' = [work EXCEPT ![w] = [st |-> "idle", t |-> NoTask]]
    BY <1>1 DEF Idle
  <2>2. Done(t)'
    BY <1>7, <1>8 DEF Done
  <2>3. /\ work[w].st \in {"call", "run"} /\ "idle" \in {"idle", "run", "crashed"}
        /\ NoTask \in Tasks \cup {NoTask} /\ layers'[t][1] # "pending"
        /\ UNCHANGED <<ctl, queue, poolStop>>
    BY <1>1, <1>8
  <2>4. \A s \in Tasks : s # t => layers'[s] = layers[s]
    BY <1>6
  <2> QED BY <1>2, <1>7, <1>9, <2>1, <2>2, <2>3, <2>4, HandStep
<1>11. InnerFirst'
  BY <1>1, <1>6, <1>8 DEF InnerFirst
<1>12. CalledOnce'
  BY <1>1, <1>6, <1>7, <1>8 DEF CalledOnce
<1>13. FlowTypes'
  BY <1>1, <1>9, <1>10 DEF FlowTypes
<1> QED BY <1>10, <1>11, <1>12, <1>13 DEF FlowInv

(* A pool thread leaves a stopped pool that has no tasks.                    *)
LEMMA ExitStep ==
  ASSUME FlowInv, NEW w \in Workers, Exit(w)
  PROVE  FlowInv'
<1>1. /\ FlowTypes /\ WrappedFirst /\ InnerFirst /\ CalledOnce /\ NoneDropped /\ ExitOrder
      /\ work[w].st = "idle" /\ poolStop /\ queue = <<>>
      /\ work' = [work EXCEPT ![w].st = "exited"]
      /\ UNCHANGED <<ctl, layers, queue, poolStop, ran>>
  BY DEF FlowInv, Exit, MayExit, ctlVars, histVars
<1>2. work'[w].st = "exited" /\ \A v \in Workers : v # w => work'[v] = work[v]
  BY <1>1 DEF FlowTypes
<1>3. FlowTypes'
  BY <1>1 DEF FlowTypes
<1>4. WrappedFirst' /\ InnerFirst' /\ CalledOnce'
  BY <1>1, <1>2 DEF WrappedFirst, InnerFirst, CalledOnce
<1>5. NoneDropped'
  <2>1. ASSUME NEW s \in Tasks, layers'[s] # <<>> PROVE (Done(s) \/ Queued(s) \/ InHand(s))'
    <3>1. Done(s) \/ InHand(s)
      BY <1>1, <2>1 DEF NoneDropped, Queued
    <3>2. Done(s) => Done(s)'
      BY <1>1 DEF Done
    <3>3. InHand(s) => InHand(s)'
      BY <1>1, <1>2 DEF InHand
    <3> QED BY <3>1, <3>2, <3>3
  <2> QED BY <2>1 DEF NoneDropped
<1>6. ExitOrder'
  BY <1>1, <1>2 DEF ExitOrder
<1> QED BY <1>3, <1>4, <1>5, <1>6 DEF FlowInv

(* Every step keeps the invariant.                                           *)
LEMMA FlowStep ==
  ASSUME FlowInv, [Next]_vars
  PROVE  FlowInv'
<1>1. FlowTypes /\ ExitOrder
  BY DEF FlowInv
<1>2. ASSUME NEW t \in Tasks, AddTask(t) PROVE FlowInv'
  BY <1>1, <1>2, QuietStep DEF AddTask, ctlVars, poolVars, histVars, FlowTypes, ExitOrder
<1>3. ASSUME NEW s \in Tasks, NEW t \in Tasks, Connect(s, t) PROVE FlowInv'
  BY <1>1, <1>3, QuietStep DEF Connect, ctlVars, poolVars, histVars, FlowTypes, ExitOrder
<1>4. CASE Start
  <2>1. UNCHANGED <<queue, layers, work, ran, poolStop>> /\ ~poolStop /\ ctl' \in {"place", "idle"}
    BY <1>4 DEF Start, Enter, poolVars, histVars
  <2> QED BY <1>1, <2>1, QuietStep
<1>5. ASSUME NEW t \in Tasks, Place(t) PROVE FlowInv'
  BY <1>5, PlaceStep
<1>6. CASE Get
  <2>1. UNCHANGED <<queue, layers, work, ran, poolStop>> /\ ctl = "get"
        /\ ctl' \in {"get", "place", "idle"}
    BY <1>6 DEF Get, Enter, poolVars, histVars
  <2> QED BY <1>1, <2>1, QuietStep DEF ExitOrder
<1>7. CASE Destroy
  BY <1>7, QuietStep DEF Destroy, histVars
<1>8. CASE Joined
  BY <1>1, <1>8, QuietStep DEF Joined, poolVars, histVars, ExitOrder
<1>9. ASSUME NEW w \in Workers, PoolThread(w) PROVE FlowInv'
  BY <1>9, TakeStep, CallStep, FinishStep, ExitStep DEF PoolThread
<1>10. CASE UNCHANGED vars
  BY <1>1, <1>10, QuietStep DEF vars, dagVars, ctlVars, poolVars, histVars, FlowTypes, ExitOrder
<1> QED BY <1>2, <1>3, <1>4, <1>5, <1>6, <1>7, <1>8, <1>9, <1>10 DEF Next, Controller

(* The inductive invariant holds throughout.                                 *)
LEMMA Flowing == Spec => []FlowInv
  BY FlowInit, FlowStep, PTL DEF Spec

(* No task's function is called twice, although start() that ended with an   *)
(* exception leaves tasks in the pool that the next start() queues again.    *)
THEOREM CalledAtMostOnce == Spec => []RunsOnce
<1>1. FlowInv => RunsOnce
  BY DEF FlowInv, CalledOnce, RunsOnce
<1> QED BY <1>1, Flowing, PTL

(* The pool's threads leave nothing behind: when the destructor returns,     *)
(* every task that was queued has ended.                                     *)
THEOREM NothingLeftUndone == Spec => []DestroyedMeansDone
<1>1. FlowInv => DestroyedMeansDone
  <2> SUFFICES ASSUME FlowInv, ctl = "destroyed", NEW t \in Tasks, layers[t] # <<>> PROVE Done(t)
    BY DEF DestroyedMeansDone
  <2>1. Done(t) \/ Queued(t) \/ InHand(t)
    BY DEF FlowInv, NoneDropped
  <2>2. \A w \in Workers : work[w].st = "exited"
    BY DEF FlowInv, ExitOrder
  <2>3. queue = <<>>
    BY <2>2, FlowAssumption DEF FlowInv, ExitOrder
  <2> QED BY <2>1, <2>2, <2>3 DEF Queued, InHand
<1> QED BY <1>1, Flowing, PTL

----------------------------------------------------------------------------
(* Levels. *)

\* The types of the graph: levels have tasks of this flow.
DagTypes ==
  /\ added \subseteq Tasks /\ edges \subseteq added \X added /\ sorted \subseteq edges
  /\ modified \in BOOLEAN /\ order \in Seq(SUBSET added)

\* A level's futures are not all got before the next level.
CtlTypes ==
  /\ ctl = "get" => futures # <<>>
  /\ starts \in 0 .. MaxStarts /\ outcome \in {"none", "returned", "threw"}
  /\ level \in 0 .. Len(order) /\ unplaced \subseteq added /\ futures \in Seq(added)

PoolTypes ==
  /\ queue \in Seq(added) /\ poolStop \in BOOLEAN /\ awaits \in [Tasks -> SUBSET added]
  /\ work \in [Workers -> [st : {"idle", "call", "run", "exited", "crashed"},
                           t : added \cup {NoTask}]]

GraphTypes == DagTypes /\ CtlTypes /\ PoolTypes

(* A task that was wrapped stays wrapped, and one that passed stays passed:  *)
(* queueing it again only adds a layer.                                      *)
LEMMA LayersGrow ==
  ASSUME FlowInv, [Next]_vars, NEW s \in Tasks
  PROVE  (layers[s] # <<>> => layers'[s] # <<>>) /\ (Passed(s) => Passed(s)')
<1>1. FlowTypes /\ WrappedFirst /\ layers[s] \in Seq(States)
  BY DEF FlowInv, FlowTypes
<1>2. CASE UNCHANGED layers
  BY <1>2 DEF Passed, Done
<1>3. ASSUME NEW t \in Tasks, Place(t)
      PROVE  (layers[s] # <<>> => layers'[s] # <<>>) /\ (Passed(s) => Passed(s)')
  <2>1. layers'[s] = layers[s] \/ layers'[s] = Append(layers[s], "pending")
    BY <1>1, <1>3 DEF Place, FlowTypes
  <2>2. CASE layers'[s] = Append(layers[s], "pending")
    <3>1. Append(layers[s], "pending") # <<>>
      BY <1>1, AppendProperties DEF States
    <3>2. layers[s] # <<>> => /\ Append(layers[s], "pending")[1] = layers[s][1]
                              /\ Len(Append(layers[s], "pending")) > 1
      BY <1>1
    <3> QED BY <2>2, <3>1, <3>2 DEF Passed, Done
  <2> QED BY <2>1, <2>2 DEF Passed, Done
<1>4. ASSUME NEW w \in Workers, Call(w)
      PROVE  (layers[s] # <<>> => layers'[s] # <<>>) /\ (Passed(s) => Passed(s)')
  <2>1. PICK t \in Tasks : t = work[w].t /\ layers[t] # <<>> /\ layers[t] \in Seq(States)
    BY <1>1, <1>4 DEF Call, WrappedFirst, FlowTypes
  <2>2. Len(layers[t]) \in Nat \ {0} /\ DOMAIN layers[t] = 1 .. Len(layers[t])
    BY <2>1
  <2>3. CASE s # t
    BY <1>1, <1>4, <2>1, <2>3 DEF Call, FlowTypes, Passed, Done
  <2>4. CASE s = t /\ InnerSettled(t) /\ layers' = [layers EXCEPT ![t] = CalledAgain(@)]
    <3>1. layers'[t] = CalledAgain(layers[t]) /\ layers[t][1] # "pending"
      BY <1>1, <2>4 DEF FlowTypes, InnerSettled
    <3>2. /\ layers'[t] # <<>> /\ layers'[t][1] = layers[t][1]
          /\ Len(layers'[t]) = Len(layers[t])
      BY <2>1, <2>2, <3>1, AgainIs
    <3> QED BY <2>4, <3>2 DEF Passed, Done
  <2>5. CASE s = t /\ NothingCalled(t) /\ layers' = [layers EXCEPT ![t] = [i \in DOMAIN @ |-> "running"]]
    <3>1. layers[t][1] = "pending"
      BY <2>2, <2>5 DEF NothingCalled
    <3>2. layers'[t] = [i \in DOMAIN layers[t] |-> "running"]
      BY <1>1, <2>5 DEF FlowTypes
    <3>3. DOMAIN layers'[t] # {}
      BY <2>2, <3>2
    <3> QED BY <2>5, <3>1, <3>3 DEF Passed, Done
  <2> QED BY <1>2, <1>4, <2>1, <2>3, <2>4, <2>5 DEF Call
<1>5. ASSUME NEW w \in Workers, Finish(w)
      PROVE  (layers[s] # <<>> => layers'[s] # <<>>) /\ (Passed(s) => Passed(s)')
  <2>1. PICK t \in Tasks : t = work[w].t /\ layers[t] # <<>> /\ layers[t] \in Seq(States)
    BY <1>1, <1>5 DEF Finish, WrappedFirst, FlowTypes
  <2>2. Len(layers[t]) \in Nat \ {0} /\ DOMAIN layers[t] = 1 .. Len(layers[t])
    BY <2>1
  <2>3. PICK ok \in Results :
          layers' = [layers EXCEPT ![t] =
                       [i \in DOMAIN @ |-> IF @[i] # "running" THEN @[i]
                                           ELSE IF i = 1 /\ ~ok THEN "error" ELSE "ok"]]
    BY <1>5, <2>1 DEF Finish
  <2>4. CASE s # t
    BY <1>1, <2>3, <2>4 DEF FlowTypes, Passed, Done
  <2>5. CASE s = t
    <3>1. layers'[t] = [i \in 1 .. Len(layers[t]) |->
                          IF layers[t][i] # "running" THEN layers[t][i]
                          ELSE IF i = 1 /\ ~ok THEN "error" ELSE "ok"]
      BY <1>1, <2>2, <2>3 DEF FlowTypes
    <3>2. DOMAIN layers'[t] # {} /\ Len(layers'[t]) = Len(layers[t])
      BY <2>2, <3>1
    <3>3. layers[t][1] # "running" => layers'[t][1] = layers[t][1]
      BY <2>2, <3>1
    <3> QED BY <2>5, <3>2, <3>3 DEF Passed, Done
  <2> QED BY <2>4, <2>5
<1> QED BY <1>2, <1>3, <1>4, <1>5 DEF Next, Controller, PoolThread, AddTask, Connect, Start, Get,
           Destroy, Joined, Take, Exit, vars

(* More tasks: what held the fewer ones has the right type still.            *)
LEMMA SeqOfMore ==
  ASSUME NEW A, NEW B, A \subseteq B
  PROVE  Seq(A) \subseteq Seq(B) /\ Seq(SUBSET A) \subseteq Seq(SUBSET B)
<1>1. Seq(A) \subseteq Seq(B)
  OBVIOUS
<1>2. (SUBSET A) \subseteq (SUBSET B)
  OBVIOUS
<1>3. \A x \in Seq(SUBSET A) : x \in Seq(SUBSET B)
  BY <1>2
<1> QED BY <1>1, <1>3

(* What is left when the first is taken away.                                *)
LEMMA SeqWithout ==
  ASSUME NEW A, NEW q \in Seq(A), NEW i \in 1 .. Len(q)
  PROVE  SubSeq(q, 1, i - 1) \o SubSeq(q, i + 1, Len(q)) \in Seq(A)
<1>1. SubSeq(q, 1, i - 1) \in Seq(A)
  OBVIOUS
<1>2. SubSeq(q, i + 1, Len(q)) \in Seq(A)
  OBVIOUS
<1> QED BY <1>1, <1>2

(* The levels of a sorted graph.                                             *)
LEMMA SortedTasks ==
  ASSUME DagTypes
  PROVE  /\ IsFiniteSet(edges) /\ NodesOf(edges) \subseteq added
         /\ TopologicalSort(edges) \in Seq(SUBSET added)
<1>1. edges \in SUBSET (Tasks \X Tasks) /\ edges \in SUBSET (added \X added)
  BY DEF DagTypes
<1>2. IsFiniteSet(Tasks \X Tasks)
  BY FlowAssumption, FS_Product
<1>3. IsFiniteSet(edges)
  BY <1>1, <1>2, FS_Subset
<1>4. NodesOf(edges) \subseteq added
  BY <1>1 DEF NodesOf
<1>5. TopologicalSort(edges) \in Seq(SUBSET NodesOf(edges))
  BY <1>3, SortLength
<1>6. TopologicalSort(edges) \in Seq(SUBSET added)
  BY <1>4, <1>5, SeqOfMore
<1> QED BY <1>3, <1>4, <1>6

(* The step to the next level keeps the types.                               *)
LEMMA EnterTypes ==
  ASSUME NEW L \in Seq(SUBSET added), NEW i \in Nat \ {0}, Enter(L, i)
  PROVE  /\ level' \in 0 .. Len(L) /\ unplaced' \subseteq added
         /\ ctl' \in {"place", "idle"} /\ outcome' \in {outcome, "returned"}
<1>1. CASE i <= Len(L)
  <2>1. Len(L) \in Nat /\ L[i] \in SUBSET added
    BY <1>1
  <2> QED BY <1>1, <2>1 DEF Enter
<1>2. CASE ~(i <= Len(L))
  BY <1>2 DEF Enter
<1> QED BY <1>1, <1>2

(* The types that FlowInv leaves out, and those it has, are all of TypeOK.   *)
LEMMA AllTypes ==
  ASSUME FlowInv, GraphTypes
  PROVE  TypeOK
<1>1. order \in Seq(SUBSET Tasks)
  BY SeqOfMore DEF GraphTypes, DagTypes
<1> QED BY <1>1 DEF GraphTypes, DagTypes, CtlTypes, PoolTypes, FlowInv, FlowTypes, States, TypeOK

(* Every step of the controlling thread keeps the types.                     *)
LEMMA ControllerTypes ==
  ASSUME GraphTypes, Controller
  PROVE  GraphTypes'
<1>1. DagTypes /\ CtlTypes /\ PoolTypes
  BY DEF GraphTypes
<1>2. ASSUME NEW t \in Tasks, AddTask(t) PROVE GraphTypes'
  <2>1. /\ added' = added \cup {t} /\ added \subseteq added' /\ modified' = TRUE
        /\ UNCHANGED <<edges, sorted, order, ctl, starts, outcome, level, unplaced, futures,
                       queue, work, poolStop, awaits>>
    BY <1>2 DEF AddTask, ctlVars, poolVars, histVars
  <2>2. DagTypes'
    <3>1. added \X added \subseteq added' \X added'
      BY <2>1
    <3>2. edges' \subseteq added' \X added'
      BY <1>1, <2>1, <3>1 DEF DagTypes
    <3>3. order' \in Seq(SUBSET added')
      BY <1>1, <2>1, SeqOfMore DEF DagTypes
    <3> QED BY <1>1, <2>1, <3>2, <3>3 DEF DagTypes
  <2>3. CtlTypes'
    BY <1>1, <2>1, SeqOfMore DEF CtlTypes
  <2>4. PoolTypes'
    <3>1. queue' \in Seq(added')
      BY <1>1, <2>1, SeqOfMore DEF PoolTypes
    <3>2. added \cup {NoTask} \subseteq added' \cup {NoTask}
      BY <2>1
    <3> QED BY <1>1, <2>1, <3>1, <3>2 DEF PoolTypes
  <2> QED BY <2>2, <2>3, <2>4 DEF GraphTypes
<1>3. ASSUME NEW s \in Tasks, NEW t \in Tasks, Connect(s, t) PROVE GraphTypes'
  <2>1. DagTypes'
    BY <1>1, <1>3 DEF Connect, DagTypes
  <2>2. CtlTypes' /\ PoolTypes'
    BY <1>1, <1>3 DEF Connect, ctlVars, poolVars, histVars, CtlTypes, PoolTypes
  <2> QED BY <2>1, <2>2 DEF GraphTypes
<1>4. CASE Start
  <2>1. DagTypes'
    <3>1. CASE modified
      BY <1>1, <1>4, <3>1, SortedTasks DEF Start, DagTypes
    <3>2. CASE ~modified
      BY <1>1, <1>4, <3>2 DEF Start, DagTypes
    <3> QED BY <3>1, <3>2
  <2>2. order' \in Seq(SUBSET added) /\ Enter(order', 1) /\ starts' \in 0 .. MaxStarts
    BY <1>1, <1>4, <2>1, FlowAssumption DEF Start, DagTypes, CtlTypes
  <2>3. /\ level' \in 0 .. Len(order') /\ unplaced' \subseteq added
        /\ ctl' \in {"place", "idle"} /\ outcome' \in {outcome, "returned"}
    BY <2>2, EnterTypes
  <2>4. CtlTypes'
    BY <1>1, <1>4, <2>2, <2>3 DEF Start, CtlTypes
  <2>5. PoolTypes'
    BY <1>1, <1>4 DEF Start, PoolTypes, poolVars, histVars
  <2> QED BY <2>1, <2>4, <2>5 DEF GraphTypes
<1>5. ASSUME NEW t \in Tasks, Place(t) PROVE GraphTypes'
  <2>1. t \in added
    BY <1>1, <1>5 DEF Place, CtlTypes
  <2>2. DagTypes'
    BY <1>1, <1>5 DEF Place, dagVars, DagTypes
  <2>3. CtlTypes'
    BY <1>1, <1>5, <2>1 DEF Place, dagVars, CtlTypes
  <2>4. PoolTypes'
    <3>1. Predecessors(sorted, t) \subseteq added
      BY <1>1 DEF DagTypes, Predecessors
    <3>2. awaits' \in [Tasks -> SUBSET added]
      BY <1>1, <1>5, <3>1 DEF Place, PoolTypes
    <3>3. queue' \in Seq(added)
      BY <1>1, <1>5, <2>1 DEF Place, PoolTypes
    <3> QED BY <1>1, <1>5, <3>2, <3>3 DEF Place, dagVars, PoolTypes
  <2> QED BY <2>2, <2>3, <2>4 DEF GraphTypes
<1>6. CASE Get
  <2>1. DagTypes' /\ PoolTypes'
    BY <1>1, <1>6 DEF Get, dagVars, poolVars, histVars, DagTypes, PoolTypes
  <2>2. order' = order /\ added' = added /\ starts' = starts
    BY <1>6 DEF Get, dagVars
  <2>3. CASE Failed(Head(futures))
    <3>1. /\ ctl' = "idle" /\ outcome' = "threw" /\ futures' = <<>> /\ level' = 0
          /\ unplaced' = {}
      BY <1>6, <2>3 DEF Get
    <3>2. <<>> \in Seq(added) /\ Len(order) \in Nat
      BY <1>1 DEF DagTypes
    <3>3. CtlTypes'
      BY <1>1, <2>2, <3>1, <3>2 DEF CtlTypes
    <3> QED BY <2>1, <3>3 DEF GraphTypes
  <2>4. CASE ~Failed(Head(futures)) /\ Len(futures) > 1
    <3>1. futures' \in Seq(added) /\ futures' # <<>>
      BY <1>1, <1>6, <2>4 DEF Get, CtlTypes
    <3> QED BY <1>1, <1>6, <2>1, <2>2, <2>4, <3>1 DEF Get, CtlTypes, GraphTypes
  <2>5. CASE ~Failed(Head(futures)) /\ ~(Len(futures) > 1)
    <3>1. futures' = Tail(futures) /\ Enter(order, level + 1)
      BY <1>6, <2>5 DEF Get
    <3>2. futures' \in Seq(added)
      BY <1>1, <1>6, <3>1 DEF Get, CtlTypes
    <3>3. order \in Seq(SUBSET added) /\ level + 1 \in Nat \ {0}
      BY <1>1 DEF DagTypes, CtlTypes
    <3>4. /\ level' \in 0 .. Len(order) /\ unplaced' \subseteq added
          /\ ctl' \in {"place", "idle"} /\ outcome' \in {outcome, "returned"}
      BY <3>1, <3>3, EnterTypes
    <3>5. CtlTypes'
      BY <1>1, <2>2, <3>2, <3>4 DEF CtlTypes
    <3> QED BY <2>1, <3>5 DEF GraphTypes
  <2> QED BY <2>1, <2>3, <2>4, <2>5 DEF GraphTypes
<1>7. CASE Destroy
  BY <1>1, <1>7 DEF Destroy, dagVars, histVars, GraphTypes, DagTypes, CtlTypes, PoolTypes
<1>8. CASE Joined
  BY <1>1, <1>8 DEF Joined, dagVars, poolVars, histVars, GraphTypes, DagTypes, CtlTypes, PoolTypes
<1> QED BY <1>2, <1>3, <1>4, <1>5, <1>6, <1>7, <1>8 DEF Controller

(* So does every step of a pool thread.                                      *)
LEMMA PoolThreadTypes ==
  ASSUME GraphTypes, NEW w \in Workers, PoolThread(w)
  PROVE  GraphTypes'
<1>1. DagTypes /\ CtlTypes /\ PoolTypes
  BY DEF GraphTypes
<1>2. UNCHANGED <<added, edges, modified, sorted, order, ctl, starts, outcome, level, unplaced, futures,
                  poolStop, awaits>>
  BY DEF PoolThread, Take, Call, Finish, Exit, dagVars, ctlVars, histVars
<1>3. DagTypes' /\ CtlTypes'
  BY <1>1, <1>2 DEF DagTypes, CtlTypes
<1>4. ASSUME NEW i \in DOMAIN queue, queue' = RemovedAt(i) PROVE queue' \in Seq(added)
  BY <1>1, <1>4, SeqWithout DEF RemovedAt, PoolTypes
<1>5. queue' \in Seq(added)
  <2>1. CASE Take(w)
    BY <1>4, <2>1 DEF Take
  <2>2. CASE queue' = queue
    BY <1>1, <2>2 DEF PoolTypes
  <2> QED BY <2>1, <2>2 DEF PoolThread, Call, Finish, Exit
<1>6. work' \in [Workers -> [st : {"idle", "call", "run", "exited", "crashed"},
                             t : added \cup {NoTask}]]
  <2>1. CASE Take(w)
    <3>1. PICK i \in DOMAIN queue : work' = [work EXCEPT ![w] = [st |-> "call", t |-> queue[i]]]
      BY <2>1 DEF Take
    <3>2. queue[i] \in added
      BY <1>1 DEF PoolTypes
    <3> QED BY <1>1, <3>1, <3>2 DEF PoolTypes
  <2>2. CASE Call(w) \/ Finish(w) \/ Exit(w)
    BY <1>1, <2>2 DEF Call, Finish, Exit, Idle, PoolTypes
  <2> QED BY <2>1, <2>2 DEF PoolThread
<1>7. PoolTypes'
  BY <1>1, <1>2, <1>5, <1>6 DEF PoolTypes
<1> QED BY <1>3, <1>7 DEF GraphTypes

(* Every step keeps the types.                                               *)
LEMMA GraphStep ==
  ASSUME GraphTypes, [Next]_vars
  PROVE  GraphTypes'
<1>1. CASE UNCHANGED vars
  BY <1>1 DEF vars, dagVars, ctlVars, poolVars, histVars, GraphTypes, DagTypes, CtlTypes, PoolTypes
<1> QED BY <1>1, ControllerTypes, PoolThreadTypes DEF Next

----------------------------------------------------------------------------
(* How far start() is. *)

Awaited(s) == \E i \in DOMAIN futures : futures[i] = s

\* The levels before the current one have passed; of the current one, what is
\* neither to be queued nor awaited has; after start() returned, all have.
LevelsPassed ==
  /\ ctl \notin {"place", "get"} => futures = <<>>
  /\ \A i \in DOMAIN futures : layers[futures[i]] # <<>>
  /\ ctl \in {"place", "get"} =>
       /\ level \in DOMAIN order /\ unplaced \subseteq order[level]
       /\ \A s \in order[level] : s \in unplaced \/ Passed(s) \/ Awaited(s)
       /\ \A j \in 1 .. level - 1 : \A s \in order[j] : Passed(s)
  /\ ctl = "get" => unplaced = {}
  /\ Returned => \A i \in DOMAIN order : \A s \in order[i] : Passed(s)

\* What a queued task depended on has passed.
AwaitsPassed == \A t \in Tasks : \A s \in awaits[t] : Passed(s)

\* The inductive invariant of start().
StartInv == FlowInv /\ GraphTypes /\ OrderIsLayering /\ LevelsPassed /\ AwaitsPassed

(* A sort makes a layering, and nothing else changes the order.              *)
LEMMA OrderStep ==
  ASSUME GraphTypes, OrderIsLayering, [Next]_vars
  PROVE  OrderIsLayering'
<1>1. CASE UNCHANGED <<sorted, order>>
  BY <1>1 DEF OrderIsLayering
<1>2. CASE sorted' = edges /\ order' = TopologicalSort(edges)
  <2>1. IsFiniteSet(edges)
    BY SortedTasks DEF GraphTypes
  <2> QED BY <1>2, <2>1, SortIsLayering DEF OrderIsLayering
<1> QED BY <1>1, <1>2 DEF Next, Controller, PoolThread, AddTask, Connect, Start, Place, Get, Destroy,
           Joined, Take, Call, Finish, Exit, vars, dagVars

(* Steps that leave the controlling thread where it is.                      *)
LEMMA StayOnLevel ==
  ASSUME StartInv, [Next]_vars, UNCHANGED <<order, ctlVars, awaits>>
  PROVE  LevelsPassed' /\ AwaitsPassed'
<1>1. DagTypes /\ CtlTypes /\ PoolTypes /\ LevelsPassed /\ AwaitsPassed /\ FlowInv
  BY DEF StartInv, GraphTypes
<1>2. UNCHANGED <<ctl, outcome, level, unplaced, futures>>
  BY DEF ctlVars
<1>3. \A s \in Tasks : (layers[s] # <<>> => layers'[s] # <<>>) /\ (Passed(s) => Passed(s)')
  BY <1>1, LayersGrow
<1>4. /\ \A i \in DOMAIN order : order[i] \subseteq Tasks
      /\ \A i \in DOMAIN futures : futures[i] \in Tasks
      /\ \A t \in Tasks : awaits[t] \subseteq Tasks
  BY <1>1 DEF DagTypes, CtlTypes, PoolTypes
<1>5. AwaitsPassed'
  BY <1>1, <1>3, <1>4 DEF AwaitsPassed
<1>6. \A i \in DOMAIN futures' : layers'[futures'[i]] # <<>>
  BY <1>1, <1>2, <1>3, <1>4 DEF LevelsPassed
<1>7. ASSUME ctl' \in {"place", "get"}
      PROVE  /\ level' \in DOMAIN order' /\ unplaced' \subseteq order'[level']
             /\ \A s \in order'[level'] : s \in unplaced' \/ Passed(s)' \/ Awaited(s)'
             /\ \A j \in 1 .. level' - 1 : \A s \in order'[j] : Passed(s)'
  <2>1. /\ level \in DOMAIN order /\ unplaced \subseteq order[level]
        /\ \A s \in order[level] : s \in unplaced \/ Passed(s) \/ Awaited(s)
        /\ \A j \in 1 .. level - 1 : \A s \in order[j] : Passed(s)
    BY <1>1, <1>2, <1>7 DEF LevelsPassed
  <2>2. \A s : Awaited(s) => Awaited(s)'
    BY <1>2 DEF Awaited
  <2>3. \A j \in 1 .. level - 1 : j \in DOMAIN order
    BY <1>1, <2>1 DEF DagTypes
  <2> QED BY <1>2, <1>3, <1>4, <2>1, <2>2, <2>3
<1>8. Returned' => \A i \in DOMAIN order' : \A s \in order'[i] : Passed(s)'
  BY <1>1, <1>2, <1>3, <1>4 DEF LevelsPassed, Returned
<1> QED BY <1>1, <1>2, <1>5, <1>6, <1>7, <1>8 DEF LevelsPassed

(* A level begins when those before it have passed, or start() returns.      *)
LEMMA EnterLevel ==
  ASSUME NEW i \in Nat \ {0}, Enter(order', i), futures' = <<>>, DagTypes',
         \A j \in DOMAIN order' : j < i => \A s \in order'[j] : Passed(s)'
  PROVE  LevelsPassed'
<1>1. Len(order') \in Nat /\ DOMAIN order' = 1 .. Len(order')
  BY DEF DagTypes
<1>2. CASE i <= Len(order')
  <2>1. level' = i /\ unplaced' = order'[i] /\ ctl' = "place"
    BY <1>2 DEF Enter
  <2>2. ~Returned'
    BY <2>1 DEF Returned
  <2> QED BY <1>1, <1>2, <2>1, <2>2 DEF LevelsPassed
<1>3. CASE ~(i <= Len(order'))
  <2>1. ctl' = "idle"
    BY <1>3 DEF Enter
  <2>2. \A j \in DOMAIN order' : \A s \in order'[j] : Passed(s)'
    BY <1>1, <1>3
  <2> QED BY <2>1, <2>2 DEF LevelsPassed
<1> QED BY <1>2, <1>3

(* emplaceTask: the task's predecessors are in the levels before.            *)
LEMMA PlaceLevel ==
  ASSUME StartInv, [Next]_vars, NEW t \in Tasks, Place(t)
  PROVE  LevelsPassed' /\ AwaitsPassed'
<1>1. DagTypes /\ CtlTypes /\ PoolTypes /\ LevelsPassed /\ AwaitsPassed /\ FlowInv /\ FlowTypes
  BY DEF StartInv, GraphTypes, FlowInv
<1>2. /\ ctl = "place" /\ t \in unplaced /\ UNCHANGED <<sorted, order, outcome, level>>
      /\ layers' = [layers EXCEPT ![t] = Append(@, "pending")]
      /\ futures' = Append(futures, t) /\ unplaced' = unplaced \ {t}
      /\ ctl' = IF unplaced = {t} THEN "get" ELSE "place"
  BY DEF Place, dagVars
<1>3. \A s \in Tasks : (layers[s] # <<>> => layers'[s] # <<>>) /\ (Passed(s) => Passed(s)')
  BY <1>1, LayersGrow
<1>4. /\ \A i \in DOMAIN order : order[i] \subseteq Tasks
      /\ \A i \in DOMAIN futures : futures[i] \in Tasks
      /\ \A s \in Tasks : awaits[s] \subseteq Tasks
  BY <1>1 DEF DagTypes, CtlTypes, PoolTypes
<1>5. /\ level \in DOMAIN order /\ unplaced \subseteq order[level]
      /\ \A s \in order[level] : s \in unplaced \/ Passed(s) \/ Awaited(s)
      /\ \A j \in 1 .. level - 1 : j \in DOMAIN order /\ \A s \in order[j] : Passed(s)
  BY <1>1, <1>2 DEF LevelsPassed, DagTypes
<1>6. AwaitsPassed'
  <2>1. ASSUME NEW s \in Predecessors(sorted, t) PROVE s \in Tasks /\ Passed(s)
    <3>1. IsLayering(sorted, order)
      BY <1>5 DEF StartInv, OrderIsLayering
    <3>2. t \in order[level]
      BY <1>2, <1>5
    <3>3. s \in UNION {order[j] : j \in 1 .. level - 1}
      BY <1>5, <3>1, <3>2 DEF IsLayering
    <3> QED BY <1>4, <1>5, <3>3
  <2>2. \A u \in Tasks : awaits'[u] = awaits[u] \/ (u = t /\ awaits'[u] = Predecessors(sorted, t))
    BY <1>1 DEF Place, PoolTypes
  <2> QED BY <1>1, <1>3, <1>4, <2>1, <2>2 DEF AwaitsPassed
<1>7. /\ DOMAIN futures' = DOMAIN futures \cup {Len(futures) + 1}
      /\ futures'[Len(futures) + 1] = t /\ \A i \in DOMAIN futures : futures'[i] = futures[i]
  BY <1>1, <1>2 DEF CtlTypes
<1>8. \A i \in DOMAIN futures' : layers'[futures'[i]] # <<>>
  <2>1. layers'[t] # <<>>
    <3>1. layers[t] \in Seq(States) /\ layers'[t] = Append(layers[t], "pending")
      BY <1>1, <1>2 DEF FlowTypes
    <3> QED BY <3>1, LayersKept DEF States
  <2> QED BY <1>1, <1>3, <1>4, <1>7, <2>1 DEF LevelsPassed
<1>9. \A s \in order'[level'] : s \in unplaced' \/ Passed(s)' \/ Awaited(s)'
  <2>1. ASSUME NEW s \in order[level] PROVE s \in unplaced' \/ Passed(s)' \/ Awaited(s)'
    <3>1. s \in Tasks
      BY <1>4, <1>5
    <3>2. CASE s = t
      BY <1>7, <3>2 DEF Awaited
    <3>3. Awaited(s) => Awaited(s)'
      BY <1>7 DEF Awaited
    <3>4. CASE s # t
      BY <1>2, <1>3, <1>5, <3>1, <3>3, <3>4
    <3> QED BY <3>2, <3>4
  <2> QED BY <1>2, <2>1
<1>10. /\ level' \in DOMAIN order' /\ unplaced' \subseteq order'[level']
       /\ \A j \in 1 .. level' - 1 : \A s \in order'[j] : Passed(s)'
  BY <1>2, <1>3, <1>4, <1>5
<1>11. ctl' \in {"place", "get"} /\ (ctl' = "get" => unplaced' = {})
  BY <1>2
<1>12. ~Returned'
  BY <1>11 DEF Returned
<1> QED BY <1>6, <1>8, <1>9, <1>10, <1>11, <1>12 DEF LevelsPassed

(* future::get: the level is left when all of it has passed.                 *)
LEMMA GetLevel ==
  ASSUME StartInv, [Next]_vars, Get
  PROVE  LevelsPassed' /\ AwaitsPassed'
<1>1. DagTypes /\ CtlTypes /\ PoolTypes /\ LevelsPassed /\ AwaitsPassed /\ FlowInv /\ FlowTypes
      /\ InnerFirst /\ DagTypes'
  BY GraphStep DEF StartInv, GraphTypes, FlowInv
<1>2. ctl = "get" /\ Settled(Head(futures)) /\ UNCHANGED <<sorted, order, layers, awaits>>
  BY DEF Get, dagVars, histVars
<1>3. futures # <<>> /\ futures \in Seq(Tasks) /\ futures[1] = Head(futures)
  <2>1. futures # <<>> /\ futures \in Seq(added) /\ added \subseteq Tasks
    BY <1>1, <1>2 DEF CtlTypes, DagTypes
  <2>2. futures \in Seq(Tasks)
    BY <2>1, SeqOfMore
  <2> QED BY <2>1, <2>2
<1>4. Len(futures) \in Nat \ {0} /\ DOMAIN futures = 1 .. Len(futures)
      /\ DOMAIN Tail(futures) = 1 .. Len(futures) - 1
      /\ \A i \in 1 .. Len(futures) - 1 : Tail(futures)[i] = futures[i + 1]
  BY <1>3
<1>5. \A s \in Tasks : Passed(s) => Passed(s)'
  BY <1>2 DEF Passed, Done
<1>6. AwaitsPassed'
  <2>1. \A t \in Tasks : awaits[t] \subseteq Tasks
    BY <1>1 DEF PoolTypes, DagTypes
  <2> QED BY <1>1, <1>2, <1>5, <2>1 DEF AwaitsPassed
<1>7. /\ level \in DOMAIN order /\ unplaced = {} /\ unplaced \subseteq order[level]
      /\ \A s \in order[level] : Passed(s) \/ Awaited(s)
      /\ \A j \in 1 .. level - 1 : j \in DOMAIN order /\ \A s \in order[j] : Passed(s)
      /\ \A i \in DOMAIN order : order[i] \subseteq Tasks
      /\ \A i \in DOMAIN futures : layers[futures[i]] # <<>>
  BY <1>1, <1>2 DEF LevelsPassed, DagTypes
<1>8. CASE Failed(Head(futures))
  <2>1. ctl' = "idle" /\ outcome' = "threw" /\ futures' = <<>>
    BY <1>8 DEF Get
  <2> QED BY <1>6, <2>1 DEF LevelsPassed, Returned
<1>9. CASE ~Failed(Head(futures))
  <2> DEFINE h == futures[1]
             n == Len(layers[h])
  <2>1. h \in Tasks /\ layers[h] # <<>> /\ layers[h] \in Seq(States)
    BY <1>1, <1>3, <1>4, <1>7 DEF FlowTypes
  <2>2. n \in Nat \ {0} /\ DOMAIN layers[h] = 1 .. n /\ layers[h][n] = "ok"
    BY <1>2, <1>3, <1>9, <2>1 DEF Settled, Failed, Outermost
  <2>3. layers[h][1] \in {"ok", "error"}
    BY <1>1, <2>1, <2>2 DEF InnerFirst
  <2>4. Passed(h)
    <3>1. CASE n = 1
      BY <2>1, <2>2, <3>1 DEF Passed, Done
    <3>2. CASE n > 1
      BY <2>1, <2>3, <3>2 DEF Passed, Done
    <3> HIDE DEF n
    <3> QED BY <2>2, <3>1, <3>2
  <2>5. \A s : Awaited(s) => s = h \/ \E i \in DOMAIN Tail(futures) : Tail(futures)[i] = s
    <3>1. ASSUME NEW i \in DOMAIN futures, i # 1
          PROVE  i - 1 \in DOMAIN Tail(futures) /\ Tail(futures)[i - 1] = futures[i]
      BY <1>4, <3>1
    <3> QED BY <3>1 DEF Awaited
  <2>6. futures' = Tail(futures)
    BY <1>9 DEF Get
  <2>7. CASE Len(futures) > 1
    <3>1. UNCHANGED <<level, unplaced, ctl, outcome>>
      BY <1>9, <2>7 DEF Get
    <3>2. \A i \in DOMAIN futures' : layers'[futures'[i]] # <<>>
      BY <1>2, <1>4, <1>7, <2>6
    <3>3. \A s \in order'[level'] : s \in unplaced' \/ Passed(s)' \/ Awaited(s)'
      BY <1>2, <1>5, <1>7, <2>1, <2>4, <2>5, <2>6, <3>1 DEF Awaited
    <3>4. \A j \in 1 .. level' - 1 : \A s \in order'[j] : Passed(s)'
      BY <1>2, <1>5, <1>7, <3>1
    <3>5. ~Returned'
      BY <1>2, <3>1 DEF Returned
    <3> QED BY <1>2, <1>6, <1>7, <3>1, <3>2, <3>3, <3>4, <3>5 DEF LevelsPassed
  <2>8. CASE ~(Len(futures) > 1)
    <3>1. Enter(order, level + 1)
      BY <1>9, <2>8 DEF Get
    <3>2. futures' = <<>>
      BY <1>3, <1>4, <2>6, <2>8
    <3>3. \A s \in order[level] : Passed(s)
      BY <1>4, <1>7, <2>4, <2>5, <2>8
    <3>4. level \in Nat \ {0} /\ level + 1 \in Nat \ {0}
      BY <1>1, <1>7 DEF DagTypes
    <3>5. \A j \in DOMAIN order' : j < level + 1 => \A s \in order'[j] : Passed(s)'
      <4>1. ASSUME NEW j \in DOMAIN order, j < level + 1 PROVE j = level \/ j \in 1 .. level - 1
        BY <1>1, <3>4, <4>1 DEF DagTypes
      <4> QED BY <1>2, <1>5, <1>7, <3>3, <4>1
    <3>6. Enter(order', level + 1)
      BY <1>2, <3>1
    <3>7. LevelsPassed'
      <4> DEFINE i == level + 1
      <4> HIDE DEF i
      <4>1. i \in Nat \ {0} /\ Enter(order', i) /\ \A j \in DOMAIN order' : j < i => \A s \in order'[j] : Passed(s)'
        BY <3>4, <3>5, <3>6 DEF i
      <4> QED BY <1>1, <3>2, <4>1, EnterLevel
    <3> QED BY <1>6, <3>7
  <2> QED BY <2>7, <2>8
<1> QED BY <1>8, <1>9

(* Every step keeps the invariant of start().                                *)
LEMMA StartStep ==
  ASSUME StartInv, [Next]_vars
  PROVE  StartInv'
<1>1. FlowInv' /\ GraphTypes' /\ OrderIsLayering'
  BY FlowStep, GraphStep, OrderStep DEF StartInv
<1>2. DagTypes /\ LevelsPassed /\ AwaitsPassed /\ FlowInv /\ PoolTypes
  BY DEF StartInv, GraphTypes
<1>3. CASE Start
  <2>1. UNCHANGED <<futures, layers, awaits>> /\ Enter(order', 1) /\ ctl = "idle"
    BY <1>3 DEF Start, histVars
  <2>2. futures' = <<>>
    BY <1>2, <2>1 DEF LevelsPassed
  <2>3. \A j \in DOMAIN order' : j < 1 => \A s \in order'[j] : Passed(s)'
    BY <1>1 DEF GraphTypes, DagTypes
  <2>4. LevelsPassed'
    BY <1>1, <2>1, <2>2, <2>3, EnterLevel DEF GraphTypes
  <2>5. AwaitsPassed'
    BY <1>2, <2>1 DEF AwaitsPassed, Passed, Done
  <2> QED BY <1>1, <2>4, <2>5 DEF StartInv
<1>4. ASSUME NEW t \in Tasks, Place(t) PROVE StartInv'
  BY <1>1, <1>4, PlaceLevel DEF StartInv
<1>5. CASE Get
  BY <1>1, <1>5, GetLevel DEF StartInv
<1>6. CASE Destroy \/ Joined
  <2>1. /\ UNCHANGED <<order, futures, layers, awaits>> /\ ctl \notin {"place", "get"}
        /\ ctl' \in {"join", "destroyed"}
    BY <1>6 DEF Destroy, Joined, dagVars, histVars
  <2>2. LevelsPassed'
    BY <1>2, <2>1 DEF LevelsPassed, Returned
  <2>3. AwaitsPassed'
    BY <1>2, <2>1 DEF AwaitsPassed, Passed, Done
  <2> QED BY <1>1, <2>2, <2>3 DEF StartInv
<1>7. ASSUME UNCHANGED <<order, ctlVars, awaits>> PROVE StartInv'
  BY <1>1, <1>7, StayOnLevel DEF StartInv
<1>8. ASSUME NEW s \in Tasks, NEW t \in Tasks, AddTask(t) \/ Connect(s, t)
      PROVE  UNCHANGED <<order, ctlVars, awaits>>
  BY <1>8 DEF AddTask, Connect, histVars
<1>9. ASSUME NEW w \in Workers, PoolThread(w) PROVE UNCHANGED <<order, ctlVars, awaits>>
  BY <1>9 DEF PoolThread, Take, Call, Finish, Exit, dagVars, histVars
<1>10. UNCHANGED vars => UNCHANGED <<order, ctlVars, awaits>>
  BY DEF vars, dagVars, histVars
<1> QED BY <1>3, <1>4, <1>5, <1>6, <1>7, <1>8, <1>9, <1>10 DEF Next, Controller

(* Nothing is sorted yet, and nothing was started.                           *)
LEMMA StartInit ==
  ASSUME Init
  PROVE  StartInv
<1>0. \A S : <<>> \in Seq(S)
  OBVIOUS
<1>1. DagTypes
  <2>1. <<>> \in Seq(SUBSET added)
    BY <1>0
  <2> QED BY <2>1 DEF Init, DagTypes
<1>2. CtlTypes
  BY FlowAssumption DEF Init, CtlTypes
<1>3. PoolTypes
  <2>1. <<>> \in Seq(added)
    BY <1>0
  <2>2. work \in [Workers -> [st : {"idle", "call", "run", "exited", "crashed"}, t : added \cup {NoTask}]]
    BY DEF Init, Idle
  <2>3. awaits \in [Tasks -> SUBSET added]
    BY DEF Init
  <2> QED BY <2>1, <2>2, <2>3 DEF Init, PoolTypes
<1>4. OrderIsLayering
  <2>1. NodesOf({}) = {}
    BY DEF NodesOf
  <2>2. ~Cyclic({})
    BY <2>1 DEF Cyclic
  <2>3. IsLayering({}, <<>>)
    BY <2>1 DEF IsLayering
  <2> QED BY <2>2, <2>3 DEF Init, OrderIsLayering
<1>5. LevelsPassed
  BY DEF Init, LevelsPassed, Returned
<1>6. AwaitsPassed
  BY DEF Init, AwaitsPassed
<1> QED BY <1>1, <1>2, <1>3, <1>4, <1>5, <1>6, FlowInit DEF StartInv, GraphTypes

(* The invariant of start() holds throughout.                                *)
LEMMA Starting == Spec => []StartInv
  BY StartInit, StartStep, PTL DEF Spec

(* Levels, futures and the pool's queue hold tasks of this flow only.        *)
THEOREM FlowTypeCorrect == Spec => []TypeOK
<1>1. StartInv => TypeOK
  BY AllTypes DEF StartInv
<1> QED BY <1>1, Starting, PTL

(* The levels that start() follows are the layering of the tasks connected   *)
(* at the last sort, and none if they depend on each other in a circle.      *)
THEOREM OrderCorrect == Spec => []OrderIsLayering
<1>1. StartInv => OrderIsLayering
  BY DEF StartInv
<1> QED BY <1>1, Starting, PTL

(* When start() returns, the tasks that were connected at the last sort have *)
(* ended, unless they form a circle.                                         *)
THEOREM ReturnCorrect == Spec => []ReturnedMeansDone
<1>1. StartInv => ReturnedMeansDone
  <2> SUFFICES ASSUME StartInv, Returned, ~Cyclic(sorted), NEW t \in NodesOf(sorted) PROVE Done(t)
    BY DEF ReturnedMeansDone
  <2>1. t \in UNION {order[i] : i \in DOMAIN order}
    BY DEF StartInv, OrderIsLayering, IsLayering
  <2> QED BY <2>1 DEF StartInv, LevelsPassed, Passed
<1> QED BY <1>1, Starting, PTL

(* A task is started only when what it depended on when it was queued has    *)
(* ended, and without an exception if that was queued once.                  *)
THEOREM StartsInOrder == Spec => PredecessorsFirst
<1>1. StartInv => [\A t \in Tasks : Starts(t) => \A s \in awaits[t] : Passed(s)]_vars
  BY DEF StartInv, AwaitsPassed
<1> QED BY <1>1, Starting, PTL DEF PredecessorsFirst
==============================================================================
