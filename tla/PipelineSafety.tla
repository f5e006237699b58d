--------------------------- MODULE PipelineSafety ---------------------------
(***************************************************************************)
(* Proofs about Pipeline, continued: the FINAL callback sees the tasks in   *)
(* order and is told what happened to them; stop() leaves none unreported   *)
(* whose predecessors were submitted; m_processingTaskCount bounds the      *)
(* tasks in flight; all of this together implements TaskService.            *)
(***************************************************************************)
EXTENDS PipelineService, PipelineProofs, FiniteSetTheorems

----------------------------------------------------------------------------
(* The order of delivery. *)

(* Appending the next number to 1, 2, ..., n. *)
LEMMA AppendInOrder ==
  ASSUME NEW S, NEW s \in Seq(S), \A i \in DOMAIN s : s[i] = i, Len(s) + 1 \in S
  PROVE  /\ \A i \in DOMAIN Append(s, Len(s) + 1) : Append(s, Len(s) + 1)[i] = i
         /\ Len(Append(s, Len(s) + 1)) = Len(s) + 1
  OBVIOUS

(* What a sequence 1, 2, ..., n holds. *)
LEMMA InOrderMembers ==
  ASSUME NEW S, NEW s \in Seq(S), \A i \in DOMAIN s : s[i] = i
  PROVE  {s[i] : i \in DOMAIN s} = 1 .. Len(s)
<1>1. DOMAIN s = 1 .. Len(s) /\ Len(s) \in Nat
  OBVIOUS
<1> QED BY <1>1

(* Only the expected task is handed to the callback, and only stop() resets *)
(* what is expected.                                                        *)
LEMMA OrderStep ==
  ASSUME TypeOK, StopOrder, InOrderDelivery, Expecting, Next
  PROVE  InOrderDelivery' /\ Expecting'
<1>1. ASSUME UNCHANGED <<delivered, expect>>, ctl' # "stopped" => ctl # "stopped"
      PROVE  InOrderDelivery' /\ Expecting'
  BY <1>1 DEF InOrderDelivery, Expecting
<1>2. ASSUME NotTake \/ NotDrain PROVE InOrderDelivery' /\ Expecting'
  <2>1. ctl' = ctl /\ ctl # "stopped"
    BY <1>2 DEF NotTake, NotDrain, ctlVars, StopOrder
  <2>2. \/ UNCHANGED <<delivered, expect>>
        \/ expect \in Tasks /\ delivered' = Append(delivered, expect) /\ expect' = expect + 1
    BY <1>2 DEF NotTake, NotDrain, IsExpected, PendingReady, Deliver, endVars, TypeOK, NotTypes
  <2>3. expect = Len(delivered) + 1 /\ delivered \in Seq(Tasks)
    BY <2>1 DEF Expecting, TypeOK, HistoryTypes
  <2>4. CASE expect \in Tasks /\ delivered' = Append(delivered, expect) /\ expect' = expect + 1
    BY <2>3, <2>4, AppendInOrder DEF InOrderDelivery, Expecting
  <2> QED BY <1>1, <2>1, <2>2, <2>4
<1>3. ASSUME NEW c \in Clients, Client(c) PROVE InOrderDelivery' /\ Expecting'
  BY <1>1, <1>3, QuietClients DEF notVars, endVars
<1>4. ASSUME Dispatcher PROVE InOrderDelivery' /\ Expecting'
  BY <1>1, <1>4 DEF Dispatcher, DispTake, DispCheck, DispEmplace, DispExit, ctlVars, notVars, endVars
<1>5. ASSUME NEW w \in Workers, Worker(w) PROVE InOrderDelivery' /\ Expecting'
  BY <1>1, <1>5 DEF Worker, WorkTake, WorkExit, WorkRun, WorkQueue, WorkListen, ctlVars, notVars, endVars
<1>6. ASSUME NotDrained \/ NotExit PROVE InOrderDelivery' /\ Expecting'
  BY <1>1, <1>6 DEF NotDrained, NotExit, ctlVars, endVars
<1>7. ASSUME Controller PROVE InOrderDelivery' /\ Expecting'
  <2>1. /\ delivered' = delivered
        /\ (expect' = expect /\ ctl # "stopped") \/ ctl' = "stopped"
    BY <1>7 DEF Controller, Stopping, StartBuild, StartThread, StopBegin, StopNode, StopPool,
       StopDisp, StopNotif, StopEnd, notVars, endVars
  <2> QED BY <2>1 DEF InOrderDelivery, Expecting
<1> QED
  BY <1>2, <1>3, <1>4, <1>5, <1>6, <1>7 DEF Next, NotifierLoop

----------------------------------------------------------------------------
(* What threads that have ended left behind. *)

(* A drain that stops has no expected task left: the tasks before it were   *)
(* delivered, so none of them precedes it in the ordered map.               *)
LEMMA DrainedLeavesNone ==
  ASSUME TypeOK, OneOwner, InOrderDelivery, expect = Len(delivered) + 1,
         ~ \E t \in pending : PendingReady(t)
  PROVE  expect \notin pending
<1>1. SUFFICES ASSUME expect \in pending PROVE FALSE
  OBVIOUS
<1>2. PICK u \in pending : ~(expect <= u)
  BY <1>1 DEF PendingReady
<1>3. delivered \in Seq(Tasks) /\ u \in Tasks
  BY <1>2 DEF TypeOK, HistoryTypes, NotTypes
<1>4. u \in 1 .. Len(delivered)
  BY <1>2, <1>3 DEF Tasks
<1>5. Delivered(u) /\ InNotifier(u)
  BY <1>2, <1>3, <1>4, InOrderMembers DEF Delivered, DeliveredSet, InNotifier, InOrderDelivery
<1> QED BY <1>3, <1>5 DEF OneOwner

(* A thread that has ended stays ended, and nothing is queued for it.       *)
LEMMA DoneStep ==
  ASSUME TypeOK, OneOwner, StopOrder, InOrderDelivery, Expecting, ThreadsDone, Next
  PROVE  ThreadsDone'
<1>0. work \in [Workers -> WorkRecord]
  BY DEF TypeOK, PoolTypes
<1>1. ASSUME NEW c \in Clients, Client(c) PROVE ThreadsDone'
  <2>1. dispQ' = dispQ \/ ~dispStop
    BY <1>1, QuietClients DEF SubmitQueue, QueueInDispatcher
  <2>2. UNCHANGED <<disp, dispStop, poolQ, work, poolStop, notQ, notif, pending, expect, notStop>>
    BY <1>1, QuietClients DEF poolVars, notVars
  <2> QED BY <2>1, <2>2 DEF ThreadsDone
<1>2. ASSUME Dispatcher PROVE ThreadsDone'
  <2>1. /\ disp \notin {"off", "exited"}
        /\ UNCHANGED <<dispStop, poolStop, work, notif, pending, expect, notStop>>
        /\ disp' = "exited" => disp = "wait" /\ dispStop /\ dispQ' = {}
        /\ poolQ' = poolQ \/ ~poolStop
    BY <1>2 DEF Dispatcher, DispTake, DispCheck, DispEmplace, DispExit, dispVars, poolVars, notVars
  <2>2. ~notStop
    BY <2>1 DEF StopOrder
  <2> QED BY <2>1, <2>2 DEF ThreadsDone
<1>3. ASSUME NEW w \in Workers, Worker(w) PROVE ThreadsDone'
  <2>1. /\ work[w].st # "exited"
        /\ UNCHANGED <<disp, dispStop, poolStop, notVars>>
        /\ \A v \in Workers : work'[v].st = "exited" => work[v].st = "exited" \/ (poolStop /\ poolQ = <<>>)
        /\ poolQ' = poolQ \/ poolQ # <<>>
        /\ poolQ' = <<>> \/ poolQ # <<>>
    BY <1>0, <1>3 DEF Worker, WorkTake, WorkExit, WorkRun, WorkQueue, WorkListen, MayExit, NoWork,
       dispVars, WorkRecord
  <2>2. ~dispStop
    BY <2>1 DEF StopOrder, WorkersJoined
  <2> QED BY <2>1, <2>2 DEF ThreadsDone, notVars
<1>4. ASSUME NotTake \/ NotDrain PROVE ThreadsDone'
  <2>1. /\ UNCHANGED <<disp, dispStop, dispQ, poolStop, poolQ, work>> /\ notif # "exited"
        /\ notif' # "exited"
        /\ notif' = "drainLast" => notif = "drainLast" \/ FALSE \in NotifyResults
        /\ notif' = "wait" => expect' = expect /\ \E t : t # expect /\ pending' = pending \cup {t} /\ notif = "wait"
    <3>1. CASE NotDrain
      BY <3>1 DEF NotDrain, dispVars, poolVars
    <3>2. CASE NotTake
      <4>1. PICK t \in notQ :
              \/ IsExpected(t) /\ (\E ok \in NotifyResults : notif' = IF ok THEN "drain" ELSE "drainLast")
              \/ ~IsExpected(t) /\ pending' = pending \cup {t} /\ UNCHANGED <<notif, expect>>
        BY <3>2 DEF NotTake
      <4> QED BY <3>2, <4>1, ResultsAssumption DEF NotTake, IsExpected, dispVars, poolVars
    <3> QED BY <1>4, <3>1, <3>2
  <2> QED BY <2>1 DEF ThreadsDone
<1>5. ASSUME NotDrained \/ NotExit PROVE ThreadsDone'
  <2>1. /\ UNCHANGED <<disp, dispStop, dispQ, poolStop, poolQ, work, pending, expect, notQ, notStop>>
        /\ notif # "exited" /\ notif' \in {"wait", "exited"}
        /\ notif' = "exited" => notif = "drainLast" \/ (notStop /\ notQ = {})
        /\ notif = "wait" \/ ~ \E t \in pending : PendingReady(t)
    BY <1>5 DEF NotDrained, NotExit, dispVars, poolVars
  <2>2. expect = Len(delivered) + 1
    BY <2>1 DEF StopOrder, Expecting
  <2>3. expect \notin pending
    BY <2>1, <2>2, DrainedLeavesNone DEF ThreadsDone
  <2> QED BY <2>1, <2>3 DEF ThreadsDone
<1>6. ASSUME Controller PROVE ThreadsDone'
  <2>1. /\ UNCHANGED <<dispQ, poolQ, work, notQ, notif>>
        /\ poolStop => poolStop'
        /\ dispStop => dispStop'
        /\ notStop => notStop'
        /\ disp' = disp \/ disp' = "wait"
        /\ pending' = {} \/ (pending' = pending /\ expect' = expect)
    BY <1>6 DEF Controller, Stopping, StartBuild, StartThread, StopBegin, StopNode, StopPool,
       StopDisp, StopNotif, StopEnd, dispVars, poolVars, notVars
  <2> QED BY <2>1 DEF ThreadsDone
<1> QED
  BY <1>1, <1>2, <1>3, <1>4, <1>5, <1>6 DEF Next, NotifierLoop

----------------------------------------------------------------------------
(* No task is lost.  A loop that has been stopped drops what is queued for  *)
(* it, but by then the threads that queue for it have been joined.          *)

Placed(t) == InDispatcher(t) \/ InPool(t) \/ AtWork(t) \/ InNotifier(t) \/ Delivered(t)

(* The dispatcher keeps every task somewhere.                               *)
LEMMA LossDispatcher ==
  ASSUME TypeOK, HandsHold, StopOrder, Dispatcher, NEW t \in Tasks, Placed(t)
  PROVE  Placed(t)'
<1>1. disp \notin {"off", "exited"} /\ ~notStop
  BY DEF StopOrder, Dispatcher, DispTake, DispCheck, DispEmplace, DispExit
<1>2. /\ UNCHANGED <<work, pending, delivered>>
      /\ AtWork(t)' <=> AtWork(t)
      /\ Delivered(t)' <=> Delivered(t)
  <2>1. UNCHANGED <<work, pending, delivered>>
    BY DEF Dispatcher, DispTake, DispCheck, DispEmplace, DispExit, poolVars, notVars, endVars
  <2> QED BY <2>1 DEF AtWork, AtWorker, Delivered, DeliveredSet
<1>3. CASE DispTake
  <2>1. PICK x \in dispQ :
          /\ dispQ' = dispQ \ {x} /\ UNCHANGED <<poolQ>>
          /\ \/ notQ' = notQ \cup {x} /\ UNCHANGED <<disp, dispTask>>
             \/ disp' = "check" /\ dispTask' = x /\ notQ' = notQ
          /\ disp = "wait"
    BY <1>1, <1>3 DEF DispTake, NotifyFinal, poolVars
  <2> QED BY <1>2, <2>1 DEF Placed, InDispatcher, InHand, InPool, InNotifier
<1>4. CASE DispCheck
  BY <1>1, <1>2, <1>4 DEF DispCheck, NotifyFinal, Placed, InDispatcher, InHand, InPool, InNotifier, poolVars
<1>5. CASE DispEmplace
  <2>1. /\ disp = "emplace" /\ UNCHANGED <<dispQ, notQ>>
        /\ \/ disp' = "crashed" /\ UNCHANGED <<dispTask, poolQ>>
           \/ disp' = "wait" /\ poolQ' = Append(poolQ, dispTask)
    BY <1>5 DEF DispEmplace, notVars
  <2>2. dispTask \in Tasks /\ poolQ \in Seq(Tasks)
    BY <2>1 DEF HandsHold, TypeOK, PoolTypes
  <2>3. poolQ' = Append(poolQ, dispTask) => (InPool(t)' <=> InPool(t) \/ t = dispTask)
    BY <2>2, AppendDistinct DEF InPool, Among
  <2> QED BY <1>2, <2>1, <2>3 DEF Placed, InDispatcher, InHand, InNotifier, InPool
<1>6. CASE DispExit
  BY <1>2, <1>6 DEF DispExit, Placed, InDispatcher, InHand, InPool, InNotifier, poolVars, notVars
<1> QED BY <1>3, <1>4, <1>5, <1>6 DEF Dispatcher

(* A worker keeps every task somewhere.                                     *)
LEMMA LossWorker ==
  ASSUME TypeOK, HandsHold, OneOwner, StopOrder, NEW u \in Workers, Worker(u), NEW t \in Tasks, Placed(t)
  PROVE  Placed(t)'
<1>0. work \in [Workers -> WorkRecord] /\ poolQ \in Seq(Tasks)
  BY DEF TypeOK, PoolTypes
<1>1. work[u].st # "exited" /\ ~dispStop
  BY DEF StopOrder, WorkersJoined, Worker, WorkTake, WorkExit, WorkRun, WorkQueue, WorkListen
<1>2. /\ InNotifier(t)' <=> InNotifier(t)
      /\ Delivered(t)' <=> Delivered(t)
      /\ InHand(t)' <=> InHand(t)
  BY DEF Worker, WorkTake, WorkExit, WorkRun, WorkQueue, WorkListen, dispVars, notVars, endVars,
         InNotifier, Delivered, DeliveredSet, InHand
<1>3. CASE WorkTake(u)
  <2>1. /\ poolQ # <<>> /\ poolQ' = Tail(poolQ) /\ dispQ' = dispQ /\ work[u].st = "idle"
        /\ work'[u].st = "run" /\ work'[u].t = Head(poolQ)
        /\ \A w \in Workers \ {u} : work'[w] = work[w]
    BY <1>0, <1>3 DEF WorkTake, FrontPopped, dispVars
  <2>2. InPool(t) => InPool(t)' \/ t = Head(poolQ)
    BY <1>0, <2>1, TailDistinct DEF InPool, Among, OneOwner, Distinct
  <2>3. AtWork(t) \/ t = Head(poolQ) => AtWork(t)'
    BY <2>1 DEF AtWork, AtWorker
  <2> QED BY <1>2, <2>1, <2>2, <2>3 DEF Placed, InDispatcher
<1>4. CASE WorkExit(u) \/ WorkRun(u) \/ WorkListen(u)
  <2>1. /\ UNCHANGED <<poolQ, dispQ>>
        /\ \A w \in Workers : AtWorker(w, t) => AtWorker(w, t)'
    BY <1>0, <1>4 DEF WorkExit, WorkRun, WorkListen, AtWorker, dispVars, WorkRecord
  <2>2. AtWork(t) => AtWork(t)'
    BY <2>1 DEF AtWork
  <2> QED BY <1>2, <2>1, <2>2 DEF Placed, InDispatcher, InPool
<1>5. CASE WorkQueue(u)
  <2>1. /\ poolQ' = poolQ /\ dispQ' = dispQ \cup {work[u].t}
        /\ \A w \in Workers : AtWorker(w, t) => AtWorker(w, t)' \/ t = work[u].t
    BY <1>0, <1>1, <1>5 DEF WorkQueue, QueueInDispatcher, AtWorker, WorkRecord
  <2>2. AtWork(t) => AtWork(t)' \/ t = work[u].t
    BY <2>1 DEF AtWork
  <2> QED BY <1>2, <2>1, <2>2 DEF Placed, InDispatcher, InPool
<1> QED BY <1>3, <1>4, <1>5 DEF Worker

(* The notifier keeps every task somewhere, or delivers it.                 *)
LEMMA LossNotifier ==
  ASSUME TypeOK, NotifierLoop, NEW t \in Tasks, Placed(t)
  PROVE  Placed(t)'
<1>1. /\ InDispatcher(t)' <=> InDispatcher(t)
      /\ InPool(t)' <=> InPool(t)
      /\ AtWork(t)' <=> AtWork(t)
  BY DEF NotifierLoop, NotTake, NotDrain, NotDrained, NotExit, dispVars, poolVars,
         InDispatcher, InHand, InPool, AtWork, AtWorker
<1>2. CASE NotTake \/ NotDrain
  <2>1. PICK x \in Tasks :
          \/ notQ' = notQ \ {x} /\ pending' = pending /\ delivered' = Append(delivered, x)
          \/ notQ' = notQ \ {x} /\ pending' = pending \cup {x} /\ delivered' = delivered
          \/ notQ' = notQ /\ pending' = pending \ {x} /\ delivered' = Append(delivered, x)
    <3>1. \E x \in Tasks :
          \/ notQ' = notQ \ {x} /\ pending' = pending /\ delivered' = Append(delivered, x)
          \/ notQ' = notQ \ {x} /\ pending' = pending \cup {x} /\ delivered' = delivered
          \/ notQ' = notQ /\ pending' = pending \ {x} /\ delivered' = Append(delivered, x)
      BY <1>2 DEF NotTake, NotDrain, Deliver, endVars, TypeOK, NotTypes
    <3> QED BY <3>1
  <2>2. delivered \in Seq(Tasks)
    BY DEF TypeOK, HistoryTypes
  <2>3. delivered' = Append(delivered, x) => (Delivered(t)' <=> Delivered(t) \/ t = x)
    BY <2>2, AppendDistinct DEF Delivered, DeliveredSet, Among
  <2>4. delivered' = delivered => (Delivered(t)' <=> Delivered(t))
    BY DEF Delivered, DeliveredSet
  <2> QED BY <1>1, <2>1, <2>3, <2>4 DEF Placed, InNotifier
<1>3. CASE NotDrained \/ NotExit
  BY <1>1, <1>3 DEF NotDrained, NotExit, Placed, InNotifier, Delivered, DeliveredSet, endVars
<1> QED BY <1>2, <1>3 DEF NotifierLoop

(* All steps together.                                                      *)
LEMMA LossStep ==
  ASSUME TypeOK, ClientsHold, HandsHold, OneOwner, StopOrder, NoLoss, Next
  PROVE  NoLoss'
<1>1. ASSUME NEW c \in Clients, Client(c) PROVE NoLoss'
  <2>1. UNCHANGED <<ctl, disp, dispTask, poolQ, work, notQ, pending, delivered>>
    BY <1>1, QuietClients DEF poolVars, notVars, endVars
  <2>2. \A t : /\ (InHand(t))' <=> InHand(t)
               /\ InPool(t)' <=> InPool(t)
               /\ AtWork(t)' <=> AtWork(t)
               /\ InNotifier(t)' <=> InNotifier(t)
               /\ Delivered(t)' <=> Delivered(t)
    BY <2>1 DEF InHand, InPool, AtWork, AtWorker, InNotifier, Delivered, DeliveredSet
  <2>3. CASE SubmitQueue(c)
    <3>1. dispQ' = dispQ \cup {cur[c]} /\ submitted' = submitted \cup {cur[c]}
      BY <2>3 DEF SubmitQueue, QueueInDispatcher, StopOrder
    <3> QED BY <2>1, <2>2, <3>1 DEF NoLoss, InDispatcher
  <2>4. CASE UNCHANGED <<dispQ, submitted>>
    BY <2>1, <2>2, <2>4 DEF NoLoss, InDispatcher
  <2> QED BY <1>1, <2>3, <2>4, QuietClients
<1>2. ASSUME submitted' = submitted, ctl' # "stopped" => ctl # "stopped",
             ctl' # "stopped" => \A t \in Tasks : Placed(t) => Placed(t)'
      PROVE  NoLoss'
  BY <1>2 DEF NoLoss, Placed, TypeOK, HistoryTypes
<1>3. ASSUME Dispatcher PROVE NoLoss'
  <2>1. submitted' = submitted /\ ctl' = ctl
    BY <1>3 DEF Dispatcher, DispTake, DispCheck, DispEmplace, DispExit, ctlVars, subVars
  <2> QED BY <1>2, <1>3, <2>1, LossDispatcher
<1>4. ASSUME NEW w \in Workers, Worker(w) PROVE NoLoss'
  <2>1. submitted' = submitted /\ ctl' = ctl
    BY <1>4 DEF Worker, WorkTake, WorkExit, WorkRun, WorkQueue, WorkListen, ctlVars, subVars
  <2> QED BY <1>2, <1>4, <2>1, LossWorker
<1>5. ASSUME NotifierLoop PROVE NoLoss'
  <2>1. submitted' = submitted /\ ctl' = ctl
    BY <1>5 DEF NotifierLoop, NotTake, NotDrain, NotDrained, NotExit, ctlVars, subVars
  <2> QED BY <1>2, <1>5, <2>1, LossNotifier
<1>6. ASSUME Controller PROVE NoLoss'
  <2>1. /\ UNCHANGED <<submitted, dispQ, dispTask, poolQ, work, notQ, delivered>>
        /\ ctl # "stopped"
        /\ ctl' = "stopped" \/ pending' = pending
        /\ disp' = disp \/ disp = "off"
    BY <1>6 DEF Controller, Stopping, StartBuild, StartThread, StopBegin, StopNode, StopPool,
       StopDisp, StopNotif, StopEnd, dispVars, poolVars, notVars, subVars, endVars, StopOrder
  <2>2. ctl' # "stopped" => \A t \in Tasks : Placed(t) => Placed(t)'
    BY <2>1 DEF Placed, InDispatcher, InHand, InPool, AtWork, AtWorker, InNotifier, Delivered, DeliveredSet
  <2> QED BY <1>2, <2>1, <2>2
<1> QED
  BY <1>1, <1>3, <1>4, <1>5, <1>6 DEF Next

----------------------------------------------------------------------------
(* When stop() returns. *)

(* The last step of stop() finds nothing left but tasks behind a gap in the *)
(* identifiers, and nothing comes after it.                                 *)
LEMMA ReportsStep ==
  ASSUME TypeOK, OneOwner, StopOrder, InOrderDelivery, Expecting, ThreadsDone, NoLoss, StopReports, Next
  PROVE  StopReports'
<1>1. ASSUME StopEnd PROVE StopReports'
  <2>1. /\ ctl = "notif" /\ notif = "exited" /\ UNCHANGED <<disp, dispQ, poolQ, submitted, delivered>>
    BY <1>1 DEF StopEnd, dispVars, poolVars, subVars, endVars
  <2>2. SUFFICES ASSUME disp # "off" PROVE StopReports'
    BY <2>1 DEF StopReports, Started
  <2>3. disp = "exited" /\ dispQ = {} /\ poolQ = <<>> /\ WorkersJoined
    BY <2>1, <2>2, WorkersAssumption DEF StopOrder, ThreadsDone, WorkersJoined
  <2>4. SUFFICES ASSUME NotifyResults = {TRUE}, NEW t \in submitted, 1 .. t \subseteq submitted
                 PROVE  t \in DeliveredSet
    BY <2>1, <2>3 DEF StopReports, DeliveredSet
  <2>5. \A u \in submitted : u \in pending \/ u \in DeliveredSet
    BY <2>1, <2>3, <2>4 DEF NoLoss, ThreadsDone, InDispatcher, InHand, InPool, AtWork, AtWorker,
       WorkersJoined, InNotifier, Delivered
  <2>6. DeliveredSet = 1 .. Len(delivered) /\ Len(delivered) \in Nat
    <3>1. delivered \in Seq(Tasks) /\ \A i \in DOMAIN delivered : delivered[i] = i
      BY DEF TypeOK, HistoryTypes, InOrderDelivery
    <3> QED BY <3>1, InOrderMembers DEF DeliveredSet
  <2>7. expect = Len(delivered) + 1 /\ expect \notin pending /\ t \in Nat \ {0}
    BY <2>1 DEF Expecting, ThreadsDone, TypeOK, HistoryTypes, Tasks
  <2> QED BY <2>4, <2>5, <2>6, <2>7
<1>2. ASSUME NEW c \in Clients, Client(c) PROVE StopReports'
  <2>1. /\ UNCHANGED <<ctl, disp, poolQ, delivered>>
        /\ isStop => UNCHANGED <<dispQ, submitted>>
    BY <1>2, QuietClients DEF poolVars, endVars, SubmitQueue
  <2> QED BY <2>1 DEF StopReports, Started, DeliveredSet, StopOrder
<1>3. ASSUME Dispatcher PROVE StopReports'
  <2>1. ctl' = ctl /\ disp \notin {"off", "exited"}
    BY <1>3 DEF Dispatcher, DispTake, DispCheck, DispEmplace, DispExit, ctlVars
  <2> QED BY <2>1 DEF StopReports, StopOrder
<1>4. ASSUME NEW w \in Workers, Worker(w) PROVE StopReports'
  <2>1. ctl' = ctl /\ work[w].st # "exited"
    BY <1>4 DEF Worker, WorkTake, WorkExit, WorkRun, WorkQueue, WorkListen, ctlVars
  <2> QED BY <2>1 DEF StopReports, StopOrder, WorkersJoined
<1>5. ASSUME NotifierLoop PROVE StopReports'
  <2>1. ctl' = ctl /\ notif # "exited"
    BY <1>5 DEF NotifierLoop, NotTake, NotDrain, NotDrained, NotExit, ctlVars
  <2> QED BY <2>1 DEF StopReports, StopOrder
<1>6. ASSUME Controller, ~StopEnd PROVE StopReports'
  <2>1. ctl' # "stopped"
    BY <1>6 DEF Controller, Stopping, StartBuild, StartThread, StopBegin, StopNode, StopPool,
       StopDisp, StopNotif
  <2> QED BY <2>1 DEF StopReports
<1> QED
  BY <1>1, <1>2, <1>3, <1>4, <1>5, <1>6 DEF Next

----------------------------------------------------------------------------
(* The theorems. *)

(* One owner, with the order of start and stop, of delivery and of the      *)
(* threads' ends.                                                           *)
DeliveryInv ==
  /\ OwnInv /\ InOrderDelivery /\ Expecting /\ ThreadsDone /\ NoLoss /\ StopReports

(* It holds before anything has run. *)
LEMMA DeliveryInit == ASSUME Init PROVE DeliveryInv
<1>1. InOrderDelivery /\ Expecting /\ ThreadsDone
  BY DEF Init, InOrderDelivery, Expecting, ThreadsDone, NoWork
<1>2. NoLoss /\ StopReports
  BY DEF Init, NoLoss, StopReports
<1> QED BY <1>1, <1>2, OwnInit DEF DeliveryInv

(* Every step keeps it. *)
LEMMA DeliveryNext == ASSUME DeliveryInv, [Next]_vars PROVE DeliveryInv'
<1>1. OwnInv'
  BY OwnNext DEF DeliveryInv
<1>2. CASE Next
  BY <1>1, <1>2, OrderStep, DoneStep, LossStep, ReportsStep DEF DeliveryInv, OwnInv
<1>3. CASE UNCHANGED vars
  <2>1. UNCHANGED <<ctl, disp, dispQ, dispTask, dispStop, poolQ, work, poolStop, notQ, notif, pending,
                    expect, notStop, submitted, delivered>>
    BY <1>3 DEF vars, ctlVars, dispVars, poolVars, notVars, subVars, endVars
  <2>2. InOrderDelivery' /\ Expecting' /\ ThreadsDone' /\ StopReports'
    BY <2>1 DEF DeliveryInv, InOrderDelivery, Expecting, ThreadsDone, StopReports, Started, DeliveredSet
  <2>3. \A t : /\ InDispatcher(t)' <=> InDispatcher(t)
               /\ InPool(t)' <=> InPool(t)
               /\ AtWork(t)' <=> AtWork(t)
               /\ InNotifier(t)' <=> InNotifier(t)
               /\ Delivered(t)' <=> Delivered(t)
    BY <2>1 DEF InDispatcher, InHand, InPool, AtWork, AtWorker, InNotifier, Delivered, DeliveredSet
  <2>4. NoLoss'
    BY <2>1, <2>3 DEF DeliveryInv, NoLoss
  <2> QED BY <1>1, <2>2, <2>4 DEF DeliveryInv
<1> QED BY <1>2, <1>3

(* Every behaviour keeps it. *)
LEMMA DeliveryAlways == Spec => []DeliveryInv
<1>1. Init => DeliveryInv
  BY DeliveryInit
<1>2. DeliveryInv /\ [Next]_vars => DeliveryInv'
  BY DeliveryNext
<1> QED BY <1>1, <1>2, PTL DEF Spec

(* The FINAL callback sees the tasks in the order of their identifiers,     *)
(* none skipped and none twice, however many clients, workers and nodes     *)
(* there are and whatever the pool finishes first.                          *)
THEOREM DeliveredInOrder == Spec => []InOrderDelivery
<1>1. DeliveryInv => InOrderDelivery
  BY DEF DeliveryInv
<1> QED BY <1>1, DeliveryAlways, PTL

(* Until stop() ends, a task submit() has queued is in the dispatcher, the  *)
(* pool, a worker or the notifier, or it was reported.                      *)
THEOREM NothingLost == Spec => []NoLoss
<1>1. DeliveryInv => NoLoss
  BY DEF DeliveryInv
<1> QED BY <1>1, DeliveryAlways, PTL

(* When stop() has returned, no queue holds a task, and every task whose    *)
(* predecessors were all submitted has been reported.                       *)
THEOREM StopLeavesNone == Spec => []StopReports
<1>1. DeliveryInv => StopReports
  BY DEF DeliveryInv
<1> QED BY <1>1, DeliveryAlways, PTL

----------------------------------------------------------------------------
(* Nodes done and nodes left. *)

(* Moving the first node left to the end of the nodes done changes nothing  *)
(* of the two together.                                                     *)
LEMMA MoveFirst ==
  ASSUME NEW S, NEW r \in Seq(S), NEW s \in Seq(S), s # <<>>
  PROVE  Append(r, Head(s)) \o Tail(s) = r \o s
<1>1. /\ Len(r) \in Nat /\ Len(s) \in Nat /\ Len(s) > 0
      /\ Head(s) \in S /\ Tail(s) \in Seq(S) /\ Len(Tail(s)) = Len(s) - 1
      /\ \A i \in 1 .. Len(s) - 1 : Tail(s)[i] = s[i + 1]
      /\ Head(s) = s[1]
  OBVIOUS
<1> DEFINE a == Append(r, Head(s))
           l == a \o Tail(s)
           k == r \o s
<1>2. /\ a \in Seq(S) /\ Len(a) = Len(r) + 1 /\ a[Len(r) + 1] = Head(s)
      /\ \A i \in 1 .. Len(r) : a[i] = r[i]
  BY <1>1
<1>3. /\ l \in Seq(S) /\ Len(l) = Len(r) + Len(s)
      /\ \A i \in 1 .. Len(r) + Len(s) :
           l[i] = IF i <= Len(r) + 1 THEN a[i] ELSE Tail(s)[i - (Len(r) + 1)]
  <2> HIDE DEF a
  <2> QED BY <1>1, <1>2
<1>4. /\ k \in Seq(S) /\ Len(k) = Len(r) + Len(s)
      /\ \A i \in 1 .. Len(r) + Len(s) : k[i] = IF i <= Len(r) THEN r[i] ELSE s[i - Len(r)]
  BY <1>1
<1>5. ASSUME NEW i \in 1 .. Len(r) + Len(s) PROVE l[i] = k[i]
  <2> HIDE DEF a, l, k
  <2>1. CASE i <= Len(r)
    BY <1>1, <1>2, <1>3, <1>4, <2>1
  <2>2. CASE i = Len(r) + 1
    BY <1>1, <1>2, <1>3, <1>4, <2>2
  <2>3. CASE i > Len(r) + 1
    <3>1. /\ i - (Len(r) + 1) \in 1 .. Len(s) - 1
          /\ (i - (Len(r) + 1)) + 1 = i - Len(r)
      BY <1>1, <2>3
    <3>2. Tail(s)[i - (Len(r) + 1)] = s[i - Len(r)]
      BY <1>1, <3>1
    <3>3. l[i] = Tail(s)[i - (Len(r) + 1)] /\ k[i] = s[i - Len(r)]
      BY <1>1, <1>3, <1>4, <2>3
    <3> QED BY <3>2, <3>3
  <2> QED BY <1>1, <2>1, <2>2, <2>3
<1> HIDE DEF a, l, k
<1>6. l = k
  BY <1>1, <1>3, <1>4, <1>5
<1> QED BY <1>6 DEF a, l, k

(* The nodes done are fewer than all when one is left. *)
LEMMA LeftMeansShort ==
  ASSUME NEW S, NEW r \in Seq(S), NEW s \in Seq(S)
  PROVE  /\ s # <<>> => Len(r) < Len(r \o s)
         /\ r \o <<>> = r /\ <<>> \o s = s
  OBVIOUS

----------------------------------------------------------------------------
(* What is known of one task. *)

TaskProgress(t) ==
  /\ task[t].status = "OK" => ran[t] \o task[t].todo = path[t]
  /\ task[t].status = "ERROR" => task[t].todo = <<>> /\ Len(ran[t]) < Len(path[t])
  /\ task[t].note = "ERROR" => task[t].status = "ERROR" \/ isStop
  /\ t \notin submitted => task[t].status = "OK" /\ ran[t] = <<>>
  /\ InNotifier(t) /\ task[t].note = "OK" => task[t].status = "OK" /\ task[t].todo = <<>>

TaskReported(t) ==
  /\ verdict[t] # "none" => Delivered(t)
  /\ verdict[t] = "OK" => task[t].status = "OK" /\ task[t].todo = <<>>
  /\ verdict[t] = "ERROR" => task[t].status = "ERROR" \/ isStop

TaskGood(t) == TaskProgress(t) /\ TaskReported(t)

Goods == \A t \in Tasks : TaskGood(t)

(* The two parts of the inductive invariant, task by task. *)
LEMMA GoodsAre == Goods <=> Progress /\ Reported
  BY DEF Goods, TaskGood, TaskProgress, TaskReported, Progress, Reported, Delivered

(* A step that leaves a task's nodes and status alone keeps what is known   *)
(* of it, if it writes ERROR into the notify status for a reason, or OK     *)
(* for a finished task.                                                     *)
LEMMA GoodKept ==
  ASSUME NEW t \in Tasks, TaskGood(t),
         task'[t].todo = task[t].todo, task'[t].status = task[t].status,
         task[t].note \in {"OK", "ERROR"},
         UNCHANGED <<ran, path, verdict>>,
         isStop => isStop', t \notin submitted' => t \notin submitted,
         Delivered(t) => Delivered(t)',
         \/ task'[t].note = task[t].note /\ (InNotifier(t)' => InNotifier(t))
         \/ task'[t].note = "ERROR" /\ (task[t].status = "ERROR" \/ isStop)
         \/ task'[t].note = "OK" /\ task[t].status = "OK" /\ task[t].todo = <<>>
  PROVE  TaskGood(t)'
  BY DEF TaskGood, TaskProgress, TaskReported

(* A step that writes no task and no verdict, and moves none to the         *)
(* notifier.                                                                *)
LEMMA GoodQuiet ==
  ASSUME TypeOK, Goods, UNCHANGED <<task, ran, path, verdict, delivered, submitted>>,
         isStop => isStop', \A t \in Tasks : InNotifier(t)' => InNotifier(t)
  PROVE  Goods'
<1> SUFFICES ASSUME NEW t \in Tasks PROVE TaskGood(t)'
  BY DEF Goods
<1>1. task[t].note \in {"OK", "ERROR"} /\ TaskGood(t)
  BY DEF TypeOK, TaskRecord, Goods
<1> QED BY <1>1, GoodKept DEF Delivered, DeliveredSet

(* submit() gives a task its path before any node of it has run.            *)
LEMMA GoodSubmit ==
  ASSUME TypeOK, ClientsHold, OwnedAreSubmitted, Goods, NEW c \in Clients, SubmitQueue(c)
  PROVE  Goods'
<1>1. PICK p \in PathsNow : /\ task' = [task EXCEPT ![cur[c]].todo = p]
                            /\ path' = [path EXCEPT ![cur[c]] = p]
  BY DEF SubmitQueue
<1>2. /\ cur[c] \in Tasks /\ cur[c] \notin submitted /\ submitted' = submitted \cup {cur[c]}
      /\ UNCHANGED <<ran, verdict, delivered, isStop, notQ, pending>>
  BY DEF SubmitQueue, ClientsHold, notVars, endVars
<1>3. p \in Seq(Nodes)
  <2>1. <<>> \in Seq(Nodes)
    OBVIOUS
  <2> QED BY <1>1, <2>1, PathsAssumption DEF PathsNow
<1> SUFFICES ASSUME NEW t \in Tasks PROVE TaskGood(t)'
  BY DEF Goods
<1>4. task[t] \in TaskRecord /\ TaskGood(t)
  BY DEF TypeOK, Goods
<1>5. CASE t = cur[c]
  <2>1. task'[t].todo = p /\ task'[t].status = task[t].status /\ task'[t].note = task[t].note
    BY <1>1, <1>2, <1>4, <1>5 DEF TypeOK, TaskRecord
  <2>2. path'[t] = p /\ ran'[t] = <<>> /\ task'[t].status = "OK"
    BY <1>1, <1>2, <1>4, <1>5, <2>1 DEF TypeOK, HistoryTypes, TaskGood, TaskProgress
  <2>3. ran'[t] \o task'[t].todo = path'[t]
    BY <1>3, <2>1, <2>2, LeftMeansShort
  <2>4. ~InNotifier(t) /\ ~Delivered(t)
    BY <1>2, <1>5 DEF OwnedAreSubmitted
  <2>5. ~InNotifier(t)' /\ ~Delivered(t)'
    BY <1>2, <2>4 DEF InNotifier, Delivered, DeliveredSet
  <2>6. TaskProgress(t)'
    BY <1>2, <1>4, <1>5, <2>1, <2>2, <2>3, <2>5 DEF TaskGood, TaskProgress
  <2>7. verdict[t] = "none"
    BY <1>4, <2>4 DEF TaskGood, TaskReported
  <2> QED BY <1>2, <2>6, <2>7 DEF TaskGood, TaskReported
<1>6. CASE t # cur[c]
  <2>1. task'[t] = task[t] /\ path'[t] = path[t]
    BY <1>1, <1>2, <1>6 DEF TypeOK, HistoryTypes
  <2>2. (InNotifier(t)' <=> InNotifier(t)) /\ (Delivered(t)' <=> Delivered(t))
    BY <1>2 DEF InNotifier, Delivered, DeliveredSet
  <2> QED BY <1>2, <1>4, <1>6, <2>1, <2>2 DEF TaskGood, TaskProgress, TaskReported
<1> QED BY <1>5, <1>6

(* The dispatcher and a listening worker write the notify status.           *)
LEMMA GoodNote ==
  ASSUME TypeOK, Goods, NEW x \in Tasks, NEW s \in {"OK", "ERROR"},
         task' = [task EXCEPT ![x].note = s],
         UNCHANGED <<ran, path, verdict, delivered, submitted, isStop>>,
         \A t \in Tasks : InNotifier(t)' => InNotifier(t) \/ t = x,
         s = "ERROR" => task[x].status = "ERROR" \/ isStop,
         s = "OK" => task[x].status = "OK" /\ task[x].todo = <<>>
  PROVE  Goods'
<1> SUFFICES ASSUME NEW t \in Tasks PROVE TaskGood(t)'
  BY DEF Goods
<1>1. task[t].note \in {"OK", "ERROR"} /\ TaskGood(t) /\ task \in [Tasks -> TaskRecord]
  BY DEF TypeOK, TaskRecord, Goods
<1>2. /\ task'[t].todo = task[t].todo /\ task'[t].status = task[t].status
      /\ task'[t].note = IF t = x THEN s ELSE task[t].note
  BY <1>1, NoteKeeps
<1>3. Delivered(t) => Delivered(t)'
  BY DEF Delivered, DeliveredSet
<1> QED BY <1>1, <1>2, <1>3, GoodKept

(* The dispatcher reports OK for a finished task only.                      *)
LEMMA GoodDispatcher ==
  ASSUME TypeOK, HandsHold, StopOrder, Goods, Dispatcher
  PROVE  Goods'
<1>1. UNCHANGED <<ran, path, verdict, delivered, submitted, isStop, pending>> /\ (poolStop => isStop)
  BY DEF Dispatcher, DispTake, DispCheck, DispEmplace, DispExit, ctlVars, subVars, endVars, notVars, StopOrder
<1>2. CASE DispTake
  <2>1. PICK x \in dispQ : \/ NotifyFinal(x, FinalVerdict(x)) /\ (task[x].todo = <<>> \/ poolStop)
                          \/ UNCHANGED <<task, notQ>>
    BY <1>2 DEF DispTake
  <2>2. CASE UNCHANGED <<task, notQ>>
    BY <1>1, <2>2, GoodQuiet DEF InNotifier
  <2>3. CASE NotifyFinal(x, FinalVerdict(x)) /\ (task[x].todo = <<>> \/ poolStop)
    <3>1. x \in Tasks /\ task[x].status \in {"OK", "ERROR"}
      BY DEF TypeOK, DispTypes, TaskRecord
    <3>2. /\ FinalVerdict(x) \in {"OK", "ERROR"}
          /\ FinalVerdict(x) = "ERROR" => task[x].status = "ERROR" \/ isStop
          /\ FinalVerdict(x) = "OK" => task[x].status = "OK" /\ task[x].todo = <<>>
      BY <1>1, <2>3, <3>1 DEF FinalVerdict
    <3>3. /\ task' = [task EXCEPT ![x].note = FinalVerdict(x)]
          /\ \A t \in Tasks : InNotifier(t)' => InNotifier(t) \/ t = x
      BY <1>1, <2>3 DEF NotifyFinal, InNotifier
    <3> QED BY <1>1, <3>1, <3>2, <3>3, GoodNote
  <2> QED BY <2>1, <2>2, <2>3
<1>3. CASE DispCheck
  <2>1. CASE UNCHANGED <<task, notQ>>
    BY <1>1, <2>1, GoodQuiet DEF InNotifier
  <2>2. CASE NotifyFinal(dispTask, "ERROR") /\ (poolStop \/ nodeStop # {})
    <3>1. dispTask \in Tasks /\ isStop
      BY <1>1, <1>3, <2>2 DEF DispCheck, HandsHold, StopOrder
    <3>2. /\ task' = [task EXCEPT ![dispTask].note = "ERROR"]
          /\ \A t \in Tasks : InNotifier(t)' => InNotifier(t) \/ t = dispTask
      BY <1>1, <2>2 DEF NotifyFinal, InNotifier
    <3> QED BY <1>1, <3>1, <3>2, GoodNote
  <2> QED BY <1>3, <2>1, <2>2 DEF DispCheck
<1>4. CASE DispEmplace \/ DispExit
  <2>1. UNCHANGED <<task, notQ>>
    BY <1>4 DEF DispEmplace, DispExit, notVars
  <2> QED BY <1>1, <2>1, GoodQuiet DEF InNotifier
<1> QED BY <1>2, <1>3, <1>4 DEF Dispatcher

(* A worker moves a node from those left to those done, or fails the task;  *)
(* nobody else has the task meanwhile.                                      *)
LEMMA GoodWorker ==
  ASSUME TypeOK, HandsHold, OneOwner, OwnedAreSubmitted, StopOrder, Goods, NEW w \in Workers, Worker(w)
  PROVE  Goods'
<1>1. UNCHANGED <<path, verdict, delivered, submitted, isStop, notQ, pending>> /\ (poolStop => isStop)
  BY DEF Worker, WorkTake, WorkExit, WorkRun, WorkQueue, WorkListen, ctlVars, subVars, endVars, notVars, StopOrder
<1>2. \A t : (InNotifier(t)' <=> InNotifier(t)) /\ (Delivered(t)' <=> Delivered(t))
  BY <1>1 DEF InNotifier, Delivered, DeliveredSet
<1>3. CASE WorkRun(w)
  <2>0. PICK x \in Tasks : x = work[w].t
    BY <1>3 DEF WorkRun, HandsHold
  <2>1. /\ AtWork(x) /\ task[x] \in TaskRecord /\ task[x].todo # <<>>
        /\ task[x].todo \in Seq(Nodes) /\ ran[x] \in Seq(Nodes) /\ work[w].n = Head(task[x].todo)
        /\ x \in submitted /\ ~InNotifier(x) /\ ~Delivered(x)
    <3>1. AtWork(x)
      BY <1>3, <2>0 DEF WorkRun, AtWork, AtWorker
    <3>2. x \in submitted /\ ~InNotifier(x) /\ ~Delivered(x)
      BY <3>1 DEF OwnedAreSubmitted, OneOwner
    <3>3. task[x] \in TaskRecord /\ task[x].todo # <<>> /\ ran[x] \in Seq(Nodes)
          /\ work[w].n = Head(task[x].todo)
      BY <1>3, <2>0 DEF WorkRun, HandsHold, TypeOK, HistoryTypes
    <3> QED BY <3>1, <3>2, <3>3 DEF TaskRecord
  <2>2. \A t \in Tasks \ {x} : task'[t] = task[t] /\ ran'[t] = ran[t]
    BY <1>3, <2>0, <2>1 DEF WorkRun, TypeOK, HistoryTypes
  <2>3. \/ task'[x] = MarkCurrentNodeReady(task[x]) /\ ran'[x] = Append(ran[x], work[w].n)
        \/ task'[x] = MarkError(task[x]) /\ ran'[x] = ran[x]
    BY <1>3, <2>0, <2>1 DEF WorkRun, TypeOK, HistoryTypes
  <2> SUFFICES ASSUME NEW t \in Tasks PROVE TaskGood(t)'
    BY DEF Goods
  <2>4. TaskGood(t) /\ task[t].note \in {"OK", "ERROR"}
    BY DEF Goods, TypeOK, TaskRecord
  <2>5. CASE t # x
    BY <1>1, <1>2, <2>2, <2>4, <2>5 DEF TaskGood, TaskProgress, TaskReported
  <2>6. CASE t = x
    <3>1. verdict[x] = "none" /\ ~InNotifier(x)' /\ ~Delivered(x)'
      BY <1>2, <2>1, <2>4, <2>6 DEF TaskGood, TaskReported
    <3>2. task[x].status = "OK"
      BY <2>1, <2>4, <2>6 DEF TaskGood, TaskProgress, TaskRecord
    <3>3. CASE task'[x] = MarkCurrentNodeReady(task[x]) /\ ran'[x] = Append(ran[x], work[w].n)
      <4>1. task'[x].todo = Tail(task[x].todo) /\ task'[x].status = "OK" /\ task'[x].note = task[x].note
        BY <2>1, <3>2, <3>3 DEF MarkCurrentNodeReady, TaskRecord
      <4>2. ran'[x] \o task'[x].todo = ran[x] \o task[x].todo
        <5>1. Append(ran[x], Head(task[x].todo)) \o Tail(task[x].todo) = ran[x] \o task[x].todo
          BY <2>1, MoveFirst
        <5> QED BY <2>1, <3>3, <4>1, <5>1
      <4> QED
        BY <1>1, <2>1, <2>4, <2>6, <3>1, <3>2, <4>1, <4>2 DEF TaskGood, TaskProgress, TaskReported
    <3>4. CASE task'[x] = MarkError(task[x]) /\ ran'[x] = ran[x]
      <4>1. task'[x].todo = <<>> /\ task'[x].status = "ERROR" /\ task'[x].note = task[x].note
        BY <3>4 DEF MarkError
      <4>2. Len(ran[x]) < Len(path[x])
        BY <2>1, <2>4, <2>6, <3>2, LeftMeansShort DEF TaskGood, TaskProgress
      <4> QED
        BY <1>1, <2>1, <2>4, <2>6, <3>1, <3>4, <4>1, <4>2 DEF TaskGood, TaskProgress, TaskReported
    <3> QED BY <2>3, <2>6, <3>3, <3>4
  <2> QED BY <2>5, <2>6
<1>4. CASE WorkListen(w)
  <2>1. work[w].t \in Tasks /\ ran' = ran
    BY <1>4 DEF WorkListen, HandsHold
  <2>2. CASE task' = task
    BY <1>1, <1>2, <2>1, <2>2, GoodQuiet
  <2>3. CASE /\ poolStop \/ task[work[w].t].status = "ERROR"
             /\ task' = [task EXCEPT ![work[w].t].note = "ERROR"]
    BY <1>1, <1>2, <2>1, <2>3, GoodNote
  <2> QED BY <1>4, <2>2, <2>3 DEF WorkListen
<1>5. CASE WorkTake(w) \/ WorkExit(w) \/ WorkQueue(w)
  <2>1. UNCHANGED <<task, ran>>
    BY <1>5 DEF WorkTake, WorkExit, WorkQueue
  <2> QED BY <1>1, <1>2, <2>1, GoodQuiet
<1> QED BY <1>3, <1>4, <1>5 DEF Worker

(* The callback sees the notify status of a task that is being reported.    *)
LEMMA GoodDelivery ==
  ASSUME TypeOK, Goods, NotTake \/ NotDrain
  PROVE  Goods'
<1>1. UNCHANGED <<task, ran, path, submitted, isStop>>
  BY DEF NotTake, NotDrain, ctlVars, subVars
<1>2. \A t \in Tasks : InNotifier(t)' => InNotifier(t)
  BY DEF NotTake, NotDrain, InNotifier
<1>3. CASE UNCHANGED <<verdict, delivered>>
  BY <1>1, <1>2, <1>3, GoodQuiet
<1>4. CASE \E x : x \in Tasks /\ InNotifier(x) /\ Deliver(x)
  <2>1. PICK x : x \in Tasks /\ InNotifier(x) /\ Deliver(x)
    BY <1>4
  <2>2. \A t \in Tasks : Delivered(t)' <=> Delivered(t) \/ t = x
    <3>1. delivered' = Append(delivered, x) /\ delivered \in Seq(Tasks)
      BY <2>1 DEF Deliver, TypeOK, HistoryTypes
    <3>2. \A t : Among(t, delivered') <=> Among(t, delivered) \/ t = x
      BY <2>1, <3>1, AppendDistinct
    <3> QED BY <3>2 DEF Delivered, DeliveredSet, Among
  <2>3. /\ verdict'[x] = task[x].note
        /\ \A t \in Tasks \ {x} : verdict'[t] = verdict[t]
    BY <2>1 DEF Deliver, TypeOK, HistoryTypes
  <2> SUFFICES ASSUME NEW t \in Tasks PROVE TaskGood(t)'
    BY DEF Goods
  <2>4. TaskProgress(t) /\ TaskReported(t) /\ task[t].note \in {"OK", "ERROR"}
    BY DEF Goods, TaskGood, TypeOK, TaskRecord
  <2>5. TaskProgress(t)'
    BY <1>1, <1>2, <2>4 DEF TaskProgress
  <2>6. TaskReported(t)'
    BY <1>1, <2>1, <2>2, <2>3, <2>4 DEF TaskProgress, TaskReported
  <2> QED BY <2>5, <2>6 DEF TaskGood
<1> QED
  BY <1>3, <1>4 DEF NotTake, NotDrain, endVars, InNotifier, TypeOK, NotTypes

(* All steps together.                                                      *)
LEMMA GoodStep ==
  ASSUME OwnInv, Goods, Next
  PROVE  Goods'
<1> USE DEF OwnInv
<1>1. ASSUME NEW c \in Clients, Client(c) PROVE Goods'
  <2>1. CASE UNCHANGED <<dispQ, task, path, submitted>>
    BY <1>1, <2>1, QuietClients, GoodQuiet DEF notVars, endVars, InNotifier
  <2> QED BY <1>1, <2>1, QuietClients, GoodSubmit
<1>2. ASSUME NotDrained \/ NotExit PROVE Goods'
  BY <1>2, GoodQuiet DEF NotDrained, NotExit, ctlVars, subVars, endVars, InNotifier
<1>3. ASSUME Controller PROVE Goods'
  <2>1. (isStop => isStop') /\ pending' \subseteq pending
    BY <1>3 DEF Controller, Stopping, StartBuild, StartThread, StopBegin, StopNode, StopPool,
       StopDisp, StopNotif, StopEnd, notVars
  <2> QED BY <1>3, <2>1, QuietController, GoodQuiet DEF subVars, endVars, InNotifier
<1> QED
  BY <1>1, <1>2, <1>3, GoodDispatcher, GoodWorker, GoodDelivery DEF Next, NotifierLoop

----------------------------------------------------------------------------
(* The theorems. *)

VerdictInv == OwnInv /\ Goods

(* It holds before anything has run. *)
LEMMA VerdictInit == ASSUME Init PROVE VerdictInv
<1>1. <<>> \o <<>> = <<>>
  OBVIOUS
<1>2. ASSUME NEW t \in Tasks PROVE TaskGood(t)
  BY <1>1 DEF Init, TaskGood, TaskProgress, TaskReported, NewTaskRecord
<1> QED BY <1>2, OwnInit DEF VerdictInv, Goods

(* Every step keeps it. *)
LEMMA VerdictNext == ASSUME VerdictInv, [Next]_vars PROVE VerdictInv'
<1>1. OwnInv'
  BY OwnNext DEF VerdictInv
<1>2. CASE Next
  BY <1>1, <1>2, GoodStep DEF VerdictInv
<1>3. CASE UNCHANGED vars
  <2>1. UNCHANGED <<task, ran, path, verdict, delivered, submitted, isStop, notQ, pending>>
    BY <1>3 DEF vars, ctlVars, notVars, subVars, endVars
  <2> QED BY <1>1, <2>1, GoodQuiet DEF VerdictInv, OwnInv, InNotifier
<1> QED BY <1>2, <1>3

(* Every behaviour keeps it. *)
LEMMA VerdictAlways == Spec => []VerdictInv
<1>1. Init => VerdictInv
  BY VerdictInit
<1>2. VerdictInv /\ [Next]_vars => VerdictInv'
  BY VerdictNext
<1> QED BY <1>1, <1>2, PTL DEF Spec

(* A task the FINAL callback is told is OK went through every node of its   *)
(* path, in order and once each, even when stop() or a failing node raced   *)
(* with it.                                                                 *)
THEOREM OKIsComplete == Spec => []OKMeansComplete
<1>1. ASSUME VerdictInv PROVE OKMeansComplete
  <2> SUFFICES ASSUME NEW t \in Tasks, verdict[t] = "OK" PROVE ran[t] = path[t]
    BY DEF OKMeansComplete
  <2>1. ran[t] \in Seq(Nodes) /\ ran[t] \o <<>> = path[t]
    BY <1>1 DEF VerdictInv, OwnInv, Goods, TaskGood, TaskProgress, TaskReported, TypeOK, HistoryTypes
  <2> QED BY <2>1, LeftMeansShort
<1> QED BY <1>1, VerdictAlways, PTL

(* A task the FINAL callback is told is ERROR had a failing node, and so    *)
(* has not been through its path, or the pipeline is being stopped.         *)
THEOREM ErrorIsCaused == Spec => []ErrorHasCause
<1>1. ASSUME VerdictInv PROVE ErrorHasCause
  <2> SUFFICES ASSUME NEW t \in Tasks, verdict[t] = "ERROR", ~isStop PROVE ran[t] # path[t]
    BY DEF ErrorHasCause
  <2>1. ran[t] \in Seq(Nodes) /\ path[t] \in Seq(Nodes) /\ Len(ran[t]) < Len(path[t])
    BY <1>1 DEF VerdictInv, OwnInv, Goods, TaskGood, TaskProgress, TaskReported, TypeOK, HistoryTypes
  <2> QED BY <2>1
<1> QED BY <1>1, VerdictAlways, PTL

----------------------------------------------------------------------------
(* Cardinalities. *)

(* The sets of tasks that are counted are finite. *)
LEMMA SetsFinite ==
  ASSUME TypeOK
  PROVE  /\ IsFiniteSet(submitted) /\ Cardinality(submitted) \in Nat
         /\ IsFiniteSet(counted) /\ NC \in Nat
         /\ ND \in Nat /\ Cardinality(Clients) \in Nat
<1>1. IsFiniteSet(Tasks)
  BY FS_Interval, SizesAssumption DEF Tasks
<1>2. submitted \in SUBSET Tasks /\ counted \in SUBSET Tasks /\ delivered \in Seq(Tasks)
  BY DEF TypeOK, HistoryTypes
<1>3. IsFiniteSet(submitted) /\ IsFiniteSet(counted)
  BY <1>1, <1>2, FS_Subset
<1> QED
  BY <1>2, <1>3, FS_CardinalityType, SizesAssumption DEF NC, ND

(* A client is inside submit() with one task at a time, so no more tasks    *)
(* are queued and not yet counted than there are clients.                   *)
LEMMA UncountedBound ==
  ASSUME TypeOK, ClientsHold
  PROVE  Cardinality(submitted) <= NC + Cardinality(Clients)
<1> DEFINE P == submitted \ counted
           f == [t \in P |-> CHOOSE c \in Clients : cur[c] = t]
<1>1. \A t \in P : f[t] \in Clients /\ cur[f[t]] = t
  BY DEF ClientsHold
<1>2. f \in Injection(P, Clients)
  <2> HIDE DEF P
  <2>1. f \in [P -> Clients]
    BY <1>1
  <2>2. \A t, u \in P : f[t] = f[u] => t = u
    <3> HIDE DEF f
    <3> QED BY <1>1
  <2> HIDE DEF f
  <2> QED BY <2>1, <2>2 DEF Injection, IsInjective
<1>3. IsFiniteSet(P) /\ Cardinality(P) <= Cardinality(Clients)
  <2> HIDE DEF P, f
  <2> QED BY <1>2, FS_Injection, SizesAssumption
<1>4. submitted = counted \cup P /\ counted \cap P = {}
  BY DEF ClientsHold
<1>5. Cardinality(P) \in Nat /\ Cardinality(counted \cap P) = 0
  BY <1>3, <1>4, FS_CardinalityType, FS_EmptySet
<1>6. Cardinality(submitted) = Cardinality(counted) + Cardinality(P) - Cardinality(counted \cap P)
  <2> HIDE DEF P
  <2> QED BY <1>3, <1>4, SetsFinite, FS_Union
<1> HIDE DEF P
<1> QED BY <1>3, <1>5, <1>6, SetsFinite DEF NC

(* As many tasks were delivered as the sequence of deliveries is long, all  *)
(* of them submitted.                                                       *)
LEMMA DeliveredCount ==
  ASSUME TypeOK, OwnedAreSubmitted, InOrderDelivery
  PROVE  /\ DeliveredSet \subseteq submitted /\ IsFiniteSet(DeliveredSet)
         /\ Cardinality(DeliveredSet) = ND /\ ND <= Cardinality(submitted)
<1>1. delivered \in Seq(Tasks) /\ ND \in Nat
  BY SetsFinite DEF TypeOK, HistoryTypes
<1>2. DeliveredSet = 1 .. ND
  <2>1. \A i \in DOMAIN delivered : delivered[i] = i
    BY DEF InOrderDelivery
  <2> QED BY <1>1, <2>1, InOrderMembers DEF DeliveredSet, ND
<1>3. DeliveredSet \in SUBSET submitted
  <2>1. DeliveredSet \subseteq Tasks
    BY <1>1 DEF DeliveredSet
  <2> QED BY <2>1 DEF OwnedAreSubmitted, Delivered
<1>4. IsFiniteSet(DeliveredSet) /\ Cardinality(DeliveredSet) = ND
  BY <1>1, <1>2, FS_Interval
<1>5. ND <= Cardinality(submitted)
  BY <1>3, <1>4, SetsFinite, FS_Subset
<1> QED BY <1>3, <1>4, <1>5

----------------------------------------------------------------------------
(* The count. *)

(* submit() counts its task; a count that was W - 1 because the task had    *)
(* been delivered before wraps back to zero.                                *)
LEMMA CountUp ==
  ASSUME TypeOK, ClientsHold, MutexHeld, CountIs, CountBounds, NEW c \in Clients, SubmitCount(c)
  PROVE  CountIs' /\ CountBounds'
<1>1. pc[c] = "count" /\ count' = Incremented /\ counted' = counted \cup {cur[c]}
      /\ delivered' = delivered /\ pc' = [pc EXCEPT ![c] = "idle"]
  BY DEF SubmitCount, endVars
<1>2. cur[c] \notin counted
  BY <1>1 DEF ClientsHold
<1>3. NC' = NC + 1 /\ ND' = ND
  BY <1>1, <1>2, SetsFinite, FS_AddElement DEF NC, ND
<1>4. NC + 1 <= MaxProcessing + ND
  BY <1>1 DEF CountBounds
<1>5. CountIs'
  BY <1>1, <1>3, <1>4, SetsFinite, SizesAssumption DEF CountIs, Incremented
<1>6. \A d \in Clients : pc'[d] # "count"
  <2>1. mutex = c
    BY <1>1 DEF MutexHeld
  <2>2. \A d \in Clients : d # c => pc[d] # "count"
    BY <2>1 DEF MutexHeld
  <2> QED BY <1>1, <2>2 DEF TypeOK, ClientTypes
<1> QED BY <1>3, <1>4, <1>5, <1>6 DEF CountBounds

(* notifyDone takes one off; a count of zero wraps to W - 1.               *)
LEMMA CountDown ==
  ASSUME TypeOK, ClientsHold, OwnedAreSubmitted, InOrderDelivery, CountIs, CountBounds,
         NotTake \/ NotDrain
  PROVE  CountIs' /\ CountBounds'
<1>1. counted' = counted /\ (\A c \in Clients : pc'[c] = "count" => pc[c] = "count")
  BY DeliveryWakes DEF TypeOK, subVars
<1>2. NC' = NC
  BY <1>1 DEF NC
<1>3. \/ delivered' = delivered /\ count' = count
      \/ \E t \in Tasks : delivered' = Append(delivered, t) /\ count' = Decremented
  BY DEF NotTake, NotDrain, Deliver, endVars, TypeOK, NotTypes
<1>4. CASE delivered' = delivered /\ count' = count
  BY <1>1, <1>2, <1>4 DEF CountIs, CountBounds, ND
<1>5. CASE \E t \in Tasks : delivered' = Append(delivered, t) /\ count' = Decremented
  <2>1. ND' = ND + 1
    BY <1>5 DEF ND, TypeOK, HistoryTypes
  <2>2. ND - NC <= Cardinality(Clients)
    BY DeliveredCount, UncountedBound, SetsFinite
  <2>3. CountIs'
    <3>1. /\ NC \in Nat /\ ND \in Nat /\ Cardinality(Clients) \in Nat
          /\ Cardinality(Clients) < W /\ W \in Nat
      BY SetsFinite, SizesAssumption
    <3>2. count' = IF count = 0 THEN W - 1 ELSE count - 1
      BY <1>5 DEF Decremented
    <3>3. count = IF ND <= NC THEN NC - ND ELSE W + NC - ND
      BY DEF CountIs
    <3>4. count' = IF ND + 1 <= NC THEN NC - (ND + 1) ELSE W + NC - (ND + 1)
      BY <2>2, <3>1, <3>2, <3>3
    <3> QED BY <1>2, <2>1, <3>4 DEF CountIs
  <2> QED BY <1>1, <1>2, <2>1, <2>3, SetsFinite, SizesAssumption DEF CountBounds
<1> QED BY <1>3, <1>4, <1>5

(* Every step keeps what the count means and how far it may go.             *)
LEMMA CountStep ==
  ASSUME TypeOK, ClientsHold, MutexHeld, OwnedAreSubmitted, InOrderDelivery, CountIs, CountBounds, Next
  PROVE  CountIs' /\ CountBounds'
<1>1. ASSUME UNCHANGED <<count, counted, delivered>>, \A c \in Clients : pc'[c] = "count" => pc[c] = "count"
      PROVE  CountIs' /\ CountBounds'
  BY <1>1 DEF CountIs, CountBounds, NC, ND
<1>2. ASSUME NEW c \in Clients, Client(c) PROVE CountIs' /\ CountBounds'
  <2>0. pc \in [Clients -> {"idle", "built", "check", "block", "wait", "woken", "count"}]
    BY DEF TypeOK, ClientTypes
  <2>1. CASE SubmitCount(c)
    BY <2>1, CountUp
  <2>2. CASE SubmitCheck(c)
    <3>1. UNCHANGED <<count, counted, delivered>> /\ pc' = [pc EXCEPT ![c] = IF Admit THEN "count" ELSE "block"]
      BY <2>2 DEF SubmitCheck, subVars, endVars
    <3>2. CASE ~Admit
      BY <1>1, <2>0, <3>1, <3>2
    <3>3. CASE Admit
      <4>1. NC + 1 <= MaxProcessing + ND
        BY <3>3, SetsFinite, SizesAssumption DEF Admit, CountIs
      <4> QED BY <3>1, <4>1 DEF CountIs, CountBounds, NC, ND
    <3> QED BY <3>2, <3>3
  <2>3. CASE ~SubmitCount(c) /\ ~SubmitCheck(c)
    <3>1. UNCHANGED <<count, counted, delivered>> /\ \A d \in Clients : pc'[d] = "count" => pc[d] = "count"
      BY <1>2, <2>0, <2>3 DEF Client, NewTask, SubmitRefused, SubmitQueue, SubmitBlock, SpuriousWake,
         SubmitRelock, subVars, endVars
    <3> QED BY <1>1, <3>1
  <2> QED BY <2>1, <2>2, <2>3
<1>3. ASSUME NotTake \/ NotDrain PROVE CountIs' /\ CountBounds'
  BY <1>3, CountDown
<1>4. ASSUME Dispatcher \/ (\E w \in Workers : Worker(w)) \/ Controller \/ NotDrained \/ NotExit
      PROVE  CountIs' /\ CountBounds'
  <2>1. UNCHANGED <<count, counted, pc>>
    BY <1>4, QuietForClients DEF cliVars, subVars
  <2>2. delivered' = delivered
    <3>1. ASSUME Dispatcher PROVE delivered' = delivered
      BY <3>1 DEF Dispatcher, DispTake, DispCheck, DispEmplace, DispExit, endVars
    <3>2. ASSUME NEW w \in Workers, Worker(w) PROVE delivered' = delivered
      BY <3>2 DEF Worker, WorkTake, WorkExit, WorkRun, WorkQueue, WorkListen, endVars
    <3>3. ASSUME NotDrained \/ NotExit PROVE delivered' = delivered
      BY <3>3 DEF NotDrained, NotExit, endVars
    <3> QED BY <1>4, <3>1, <3>2, <3>3, QuietController DEF endVars
  <2> QED BY <1>1, <2>1, <2>2
<1> QED
  BY <1>2, <1>3, <1>4 DEF Next, NotifierLoop

----------------------------------------------------------------------------
(* The theorem. *)

CountInv == DeliveryInv /\ MutexHeld /\ CountIs /\ CountBounds

(* It holds before anything has run. *)
LEMMA CountInit == ASSUME Init PROVE CountInv
<1>1. MutexHeld
  BY OwnersAssumption DEF Init, MutexHeld
<1>2. NC = 0 /\ ND = 0
  BY FS_EmptySet DEF Init, NC, ND
<1>3. CountIs /\ CountBounds
  BY <1>2, SizesAssumption DEF Init, CountIs, CountBounds
<1> QED BY <1>1, <1>3, DeliveryInit DEF CountInv

(* Every step keeps it. *)
LEMMA CountNext == ASSUME CountInv, [Next]_vars PROVE CountInv'
<1>1. DeliveryInv'
  BY DeliveryNext DEF CountInv
<1>2. CASE Next
  BY <1>1, <1>2, MutexStep, CountStep DEF CountInv, DeliveryInv, OwnInv
<1>3. CASE UNCHANGED vars
  <2>1. UNCHANGED <<ctl, mutex, pc, count, counted, delivered>>
    BY <1>3 DEF vars, ctlVars, cliVars, subVars, endVars
  <2> QED BY <1>1, <2>1 DEF CountInv, MutexHeld, CountIs, CountBounds, NC, ND
<1> QED BY <1>2, <1>3

(* Every behaviour keeps it. *)
LEMMA CountAlways == Spec => []CountInv
<1>1. Init => CountInv
  BY CountInit
<1>2. CountInv /\ [Next]_vars => CountInv'
  BY CountNext
<1> QED BY <1>1, <1>2, PTL DEF Spec

(* The tasks submitted and not yet reported exceed maxProcessingSize by at  *)
(* most the number of clients, although the count is read and written by    *)
(* different threads, is not protected by m_mutex in notifyDone, and wraps. *)
THEOREM InFlightBounded == Spec => []InFlightBound
<1>1. ASSUME CountInv PROVE InFlightBound
  <2>1. TypeOK /\ ClientsHold /\ OwnedAreSubmitted /\ InOrderDelivery /\ CountBounds
    BY <1>1 DEF CountInv, DeliveryInv, OwnInv
  <2>2. Cardinality(submitted \ DeliveredSet) = Cardinality(submitted) - ND
    <3>1. submitted \cap DeliveredSet = DeliveredSet
      BY <2>1, DeliveredCount
    <3>2. /\ IsFiniteSet(submitted) /\ Cardinality(DeliveredSet) = ND
      BY <2>1, DeliveredCount, SetsFinite
    <3>3. Cardinality(submitted \ DeliveredSet)
            = Cardinality(submitted) - Cardinality(submitted \cap DeliveredSet)
      BY <3>2, FS_Difference
    <3> QED BY <3>1, <3>2, <3>3
  <2> QED
    BY <2>1, <2>2, UncountedBound, SetsFinite, SizesAssumption DEF InFlightBound, InFlight, CountBounds
<1> QED BY <1>1, CountAlways, PTL

(* No more tasks built after one that waits for its first node can have     *)
(* begun than maxProcessingSize and the other clients allow, in whatever    *)
(* order the scheduler serves them and however many clients submit: such    *)
(* tasks are in flight as long as the waiting one is.                       *)
THEOREM OvertakingBounded == Spec => []OvertakeBound
<1>1. ASSUME CountInv, InFlightBound PROVE OvertakeBound
  <2> SUFFICES ASSUME NEW t \in Tasks, FirstWait(t)
               PROVE  Cardinality({u \in submitted : u > t /\ ~FirstWait(u)})
                        <= MaxProcessing + Cardinality(Clients) - 1
    BY DEF OvertakeBound
  <2> DEFINE Ahead == {u \in submitted : u > t /\ ~FirstWait(u)}
  <2>1. TypeOK /\ OneOwner /\ OwnedAreSubmitted /\ InOrderDelivery
    BY <1>1 DEF CountInv, DeliveryInv, OwnInv
  <2>2. t \in InFlight
    <3>1. InDispatcher(t) /\ ~Delivered(t)
      BY <2>1 DEF FirstWait, InDispatcher, OneOwner
    <3> QED BY <2>1, <3>1 DEF OwnedAreSubmitted, Delivered, InFlight
  <2>3. ASSUME NEW u \in Ahead PROVE u \in InFlight \ {t}
    <3>1. u \in submitted /\ u > t /\ t \in Nat /\ u \in Nat /\ u # t
      BY <2>1 DEF TypeOK, HistoryTypes, Tasks
    <3>2. u \notin DeliveredSet
      <4>1. DeliveredSet = 1 .. Len(delivered) /\ Len(delivered) \in Nat
        <5>1. delivered \in Seq(Tasks)
          BY <2>1 DEF TypeOK, HistoryTypes
        <5>2. \A i \in DOMAIN delivered : delivered[i] = i
          BY <2>1 DEF InOrderDelivery
        <5> QED BY <5>1, <5>2, InOrderMembers DEF DeliveredSet
      <4>2. t \notin 1 .. Len(delivered) /\ t >= 1
        BY <2>2, <4>1 DEF InFlight, Tasks
      <4> QED BY <3>1, <4>1, <4>2
    <3> QED BY <3>1, <3>2 DEF InFlight
  <2>4. IsFiniteSet(InFlight) /\ Cardinality(InFlight) \in Nat
    BY <2>1, SetsFinite, FS_Subset, FS_CardinalityType DEF InFlight
  <2>5. /\ IsFiniteSet(InFlight \ {t}) /\ Cardinality(InFlight \ {t}) = Cardinality(InFlight) - 1
    BY <2>2, <2>4, FS_RemoveElement
  <2>6. Ahead \in SUBSET (InFlight \ {t})
    BY <2>3
  <2> HIDE DEF Ahead
  <2>7. Cardinality(Ahead) <= Cardinality(InFlight \ {t}) /\ Cardinality(Ahead) \in Nat
    BY <2>5, <2>6, FS_Subset, FS_CardinalityType
  <2>8. Cardinality(Ahead) <= MaxProcessing + Cardinality(Clients) - 1
    BY <1>1, <2>1, <2>4, <2>5, <2>7, SetsFinite, SizesAssumption DEF InFlightBound
  <2> QED BY <2>8 DEF Ahead
<1> QED BY <1>1, CountAlways, InFlightBounded, PTL

----------------------------------------------------------------------------
(* The service: Pipeline implements TaskService. *)

(* What is known of the reachable states: both inductive invariants.        *)
ServiceInv == DeliveryInv /\ Goods

(* Every behaviour keeps it. *)
LEMMA ServiceInvAlways == Spec => []ServiceInv
<1>1. DeliveryInv /\ VerdictInv => ServiceInv
  BY DEF ServiceInv, VerdictInv
<1> QED BY <1>1, DeliveryAlways, VerdictAlways, PTL

(* When the service is open, closing and closed.                            *)
LEMMA ServiceStates ==
  ASSUME StopOrder
  PROVE  /\ ServiceState = "open" <=> ~isStop
         /\ ServiceState = "closed" <=> ctl = "stopped"
         /\ ServiceState = "closing" <=> isStop /\ ctl # "stopped"
  BY DEF StopOrder, ServiceState

(* A step the service does not see. *)
LEMMA ServiceStutter ==
  ASSUME UNCHANGED <<submitted, ran, path, delivered, verdict>>, UNCHANGED <<ctl, isStop>>
  PROVE  UNCHANGED Service!serviceVars
  BY DEF Service!serviceVars, ServiceState, CompleteTasks

(* submit() accepts the task.                                               *)
LEMMA ServiceAccepts ==
  ASSUME ServiceInv, NEW c \in Clients, SubmitQueue(c)
  PROVE  Service!Accept(cur[c]) /\ cur[c] \in Tasks
<1>0. TypeOK /\ ClientsHold /\ StopOrder
  BY DEF ServiceInv, DeliveryInv, OwnInv
<1>1. /\ cur[c] \in Tasks /\ cur[c] \notin submitted /\ submitted' = submitted \cup {cur[c]}
      /\ UNCHANGED <<ran, delivered, verdict, ctl, isStop>> /\ ~isStop
      /\ \E p \in PathsNow : path' = [path EXCEPT ![cur[c]] = p]
  BY <1>0 DEF SubmitQueue, ClientsHold, endVars
<1>2. \A t \in submitted : path'[t] = path[t] /\ t # cur[c]
  BY <1>0, <1>1 DEF TypeOK, HistoryTypes
<1>3. CompleteTasks' \in {CompleteTasks, CompleteTasks \cup {cur[c]}}
  BY <1>1, <1>2 DEF CompleteTasks
<1>4. ServiceState = "open" /\ ServiceState' = ServiceState
  BY <1>0, <1>1, ServiceStates DEF ServiceState
<1> QED BY <1>1, <1>3, <1>4 DEF Service!Accept

(* A node that succeeds may complete its task, which was not complete and   *)
(* not reported; a node that fails leaves it incomplete.                    *)
LEMMA ServiceCompletes ==
  ASSUME ServiceInv, NEW w \in Workers, WorkRun(w)
  PROVE  (\E t \in Tasks : Service!Complete(t)) \/ UNCHANGED Service!serviceVars
<1>0. TypeOK /\ HandsHold /\ OneOwner /\ OwnedAreSubmitted /\ Goods
  BY DEF ServiceInv, DeliveryInv, OwnInv
<1>1. PICK x \in Tasks : x = work[w].t /\ task[x].todo # <<>>
  BY <1>0 DEF WorkRun, HandsHold
<1>2. AtWork(x)
  BY <1>1 DEF WorkRun, AtWork, AtWorker
<1>3. x \in submitted /\ ~Delivered(x)
  BY <1>0, <1>2 DEF OwnedAreSubmitted, OneOwner
<1>4. x \notin CompleteTasks
  <2>1. ran[x] \in Seq(Nodes) /\ task[x].todo \in Seq(Nodes) /\ task[x].status = "OK"
    BY <1>0, <1>1 DEF TypeOK, HistoryTypes, TaskRecord, Goods, TaskGood, TaskProgress
  <2>2. ran[x] \o task[x].todo = path[x] /\ Len(ran[x]) < Len(ran[x] \o task[x].todo)
    BY <1>0, <1>1, <2>1, LeftMeansShort DEF Goods, TaskGood, TaskProgress
  <2> QED BY <2>1, <2>2 DEF CompleteTasks
<1>5. /\ UNCHANGED <<submitted, path, delivered, verdict, ctl, isStop>>
      /\ \A t \in Tasks \ {x} : ran'[t] = ran[t]
  BY <1>0, <1>1 DEF WorkRun, subVars, endVars, ctlVars, TypeOK, HistoryTypes
<1>6. CompleteTasks' \in {CompleteTasks, CompleteTasks \cup {x}}
  BY <1>0, <1>3, <1>4, <1>5 DEF CompleteTasks, TypeOK, HistoryTypes
<1>7. ServiceState' = ServiceState
  BY <1>5 DEF ServiceState
<1>8. \A i \in DOMAIN delivered : delivered[i] # x
  BY <1>3 DEF Delivered, DeliveredSet
<1> QED
  BY <1>3, <1>4, <1>5, <1>6, <1>7, <1>8 DEF Service!Complete, Service!serviceVars

(* The FINAL callback is the service's report.                              *)
LEMMA ServiceReports ==
  ASSUME ServiceInv, NEW t \in Tasks, InNotifier(t), t = expect, notif # "exited", Deliver(t),
         UNCHANGED <<ctl, isStop, submitted, ran, path>>
  PROVE  Service!Report(t, task[t].note) /\ task[t].note \in {"OK", "ERROR"}
<1>0. /\ TypeOK /\ OwnedAreSubmitted /\ StopOrder /\ Expecting
      /\ TaskProgress(t)
  BY DEF ServiceInv, DeliveryInv, OwnInv, Goods, TaskGood
<1>1. ServiceState # "closed" /\ ctl # "stopped" /\ ServiceState' = ServiceState
  BY <1>0, ServiceStates DEF StopOrder, ServiceState
<1>2. t \in submitted /\ t = Len(delivered) + 1
  BY <1>0, <1>1 DEF OwnedAreSubmitted, Expecting
<1>3. /\ task[t].note \in {"OK", "ERROR"} /\ task[t].status \in {"OK", "ERROR"}
      /\ ran[t] \in Seq(Nodes) /\ path[t] \in Seq(Nodes)
  BY <1>0 DEF TypeOK, TaskRecord, HistoryTypes
<1>4. task[t].note = "OK" => t \in CompleteTasks
  BY <1>0, <1>2, <1>3, LeftMeansShort DEF TaskProgress, CompleteTasks
<1>5. task[t].note = "ERROR" => t \notin CompleteTasks \/ ServiceState = "closing"
  <2>1. task[t].status = "ERROR" => ran[t] # path[t]
    BY <1>0, <1>3 DEF TaskProgress
  <2> QED BY <1>0, <1>1, <2>1, ServiceStates DEF TaskProgress, CompleteTasks
<1>6. CompleteTasks' = CompleteTasks
  BY DEF CompleteTasks
<1> QED
  BY <1>1, <1>2, <1>3, <1>4, <1>5, <1>6 DEF Service!Report, Deliver

(* Every step of the pipeline is a step of the service or unseen by it.     *)
LEMMA ServiceStep ==
  ASSUME ServiceInv, Next
  PROVE  Service!Next \/ UNCHANGED Service!serviceVars
<1>0. StopOrder
  BY DEF ServiceInv, DeliveryInv, OwnInv
<1>1. ASSUME NEW c \in Clients, Client(c) PROVE Service!Next \/ UNCHANGED Service!serviceVars
  <2>1. CASE SubmitQueue(c)
    BY <2>1, ServiceAccepts DEF Service!Next
  <2>2. CASE UNCHANGED <<dispQ, task, path, submitted>>
    BY <1>1, <2>2, QuietClients, ServiceStutter DEF endVars
  <2> QED BY <1>1, <2>1, <2>2, QuietClients
<1>2. ASSUME Dispatcher PROVE UNCHANGED Service!serviceVars
  <2>1. UNCHANGED <<submitted, ran, path, delivered, verdict, ctl, isStop>>
    BY <1>2 DEF Dispatcher, DispTake, DispCheck, DispEmplace, DispExit, ctlVars, subVars, endVars
  <2> QED BY <2>1, ServiceStutter
<1>3. ASSUME NEW w \in Workers, Worker(w) PROVE Service!Next \/ UNCHANGED Service!serviceVars
  <2>1. CASE WorkRun(w)
    BY <2>1, ServiceCompletes DEF Service!Next
  <2>2. CASE ~WorkRun(w)
    <3>1. UNCHANGED <<submitted, ran, path, delivered, verdict, ctl, isStop>>
      BY <1>3, <2>2 DEF Worker, WorkTake, WorkExit, WorkQueue, WorkListen, ctlVars, subVars, endVars
    <3> QED BY <3>1, ServiceStutter
  <2> QED BY <2>1, <2>2
<1>4. ASSUME NotTake \/ NotDrain PROVE Service!Next \/ UNCHANGED Service!serviceVars
  <2>1. UNCHANGED <<ctl, isStop, submitted, ran, path>> /\ notif # "exited"
    BY <1>4 DEF NotTake, NotDrain, ctlVars, subVars
  <2>2. CASE UNCHANGED <<delivered, verdict>>
    BY <2>1, <2>2, ServiceStutter
  <2>3. CASE \E t \in Tasks : InNotifier(t) /\ t = expect /\ Deliver(t)
    BY <2>1, <2>3, ServiceReports DEF Service!Next
  <2> QED
    BY <1>4, <2>2, <2>3 DEF NotTake, NotDrain, IsExpected, PendingReady, InNotifier, endVars,
       ServiceInv, DeliveryInv, OwnInv, TypeOK, NotTypes
<1>5. ASSUME NotDrained \/ NotExit PROVE UNCHANGED Service!serviceVars
  BY <1>5, ServiceStutter DEF NotDrained, NotExit, ctlVars, subVars, endVars
<1>6. ASSUME Controller PROVE Service!Next \/ UNCHANGED Service!serviceVars
  <2>1. UNCHANGED <<submitted, ran, path, delivered, verdict>>
    BY <1>6, QuietController DEF subVars, endVars
  <2>2. CompleteTasks' = CompleteTasks
    BY <2>1 DEF CompleteTasks
  <2>3. \/ ServiceState' = ServiceState
        \/ ServiceState = "open" /\ ServiceState' = "closing"
        \/ ServiceState = "closing" /\ ServiceState' = "closed"
    BY <1>0, <1>6 DEF StopOrder, ServiceState, Controller, Stopping, StartBuild, StartThread, StopBegin,
       StopNode, StopPool, StopDisp, StopNotif, StopEnd
  <2> QED BY <2>1, <2>2, <2>3 DEF Service!Next, Service!Close, Service!serviceVars
<1> QED
  BY <1>1, <1>2, <1>3, <1>4, <1>5, <1>6 DEF Next, NotifierLoop

(* The pipeline implements the service, for any number of clients, workers, *)
(* nodes and tasks.                                                         *)
THEOREM PipelineIsService == Spec => IsService
<1>1. Init => Service!Init
  BY DEF Init, Service!Init, ServiceState, CompleteTasks
<1>2. ServiceInv /\ [Next]_vars => [Service!Next]_(Service!serviceVars)
  <2>1. CASE UNCHANGED vars
    BY <2>1, ServiceStutter DEF vars, ctlVars, subVars, endVars
  <2> QED BY <2>1, ServiceStep
<1> QED BY <1>1, <1>2, ServiceInvAlways, PTL DEF Spec, IsService, Service!Spec
=============================================================================
