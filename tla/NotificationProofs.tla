------------------------ MODULE NotificationProofs ------------------------
(***************************************************************************)
(* Proofs about Notification: FINAL notifiers deliver in the order of       *)
(* submission (FinalsInOrder); a verdict has a cause (VerdictsCaused);      *)
(* TASK_LISTEN notifiers are told once (ListenersToldOnce); stop() drains   *)
(* (StopDrainsAll, SurvivorsBound); the processing count is submissions     *)
(* minus done callbacks (CountCorrect).                                     *)
(*                                                                          *)
(* OrderInv is inductive by itself; the others rest on TaskInv, which says  *)
(* where each task is, how far it is on its path and what it tells.         *)
(***************************************************************************)
EXTENDS Notification, FiniteSetTheorems, TLAPS

(* What the order rests on, besides itself.                                *)

\* The notifiers' part of the type invariant.
NotifierTypes ==
  /\ ctl \in {"config", "running", "stopped"} \cup Stopping
  /\ done \in [Finals -> {"absent"} \cup DoneCallbacks]
  /\ loop \in [Finals -> {"off", "on", "ended"}]
  /\ pending \in [Finals -> SUBSET Tasks]
  /\ expect \in [Finals -> Nat \ {0}]
  /\ delivered \in [Finals -> Seq(Tasks)]

\* A notifier's thread runs only if the notifier was added, and not any more
\* when stop() has returned.
LoopsRun ==
  \A f \in Finals : loop[f] = "on" => done[f] # "absent" /\ ctl # "stopped"

\* m_expectItemId is one more than what was handed over, until the process
\* or the pipeline ends.
ExpectsNext ==
  \A f \in Finals :
    \/ expect[f] = Len(delivered[f]) + 1
    \/ disp = "crashed" \/ ctl = "stopped"

OrderInv == NotifierTypes /\ LoopsRun /\ ExpectsNext /\ EachFinalInOrder

(* Handing over tasks t to u after the t - 1 before them leaves the tasks   *)
(* in order: each stands at the place of its identifier.                    *)
LEMMA RunAppended ==
  ASSUME NEW s \in Seq(Tasks), NEW t \in Tasks, NEW u \in Tasks, t <= u, t = Len(s) + 1,
         \A i \in DOMAIN s : s[i] = i
  PROVE  LET r == s \o [i \in 1 .. u - t + 1 |-> t + i - 1] IN
           /\ r \in Seq(Tasks) /\ Len(r) = u
           /\ \A i \in DOMAIN r : r[i] = i
<1> DEFINE n == u - t + 1
           q == [i \in 1 .. n |-> t + i - 1]
           r == s \o q
<1>1. MaxTask \in Nat
  BY NotificationAssumption
<1>2. /\ n \in Nat /\ Len(s) \in Nat /\ Len(s) + n = u
  BY <1>1 DEF Tasks
<1>3. q \in Seq(Tasks) /\ Len(q) = n
  <2>1. \A i \in 1 .. n : t + i - 1 \in Tasks
    BY <1>1 DEF Tasks
  <2>2. q \in [1 .. n -> Tasks]
    BY <2>1
  <2> HIDE DEF n, q
  <2> QED BY <2>2, <1>2
<1>4. r \in Seq(Tasks) /\ Len(r) = u
  <2> HIDE DEF n, q
  <2> QED BY <1>2, <1>3
<1>5. ASSUME NEW i \in DOMAIN r PROVE r[i] = i
  <2> HIDE DEF q
  <2>1. i \in 1 .. u
    BY <1>4
  <2>2. CASE i <= Len(s)
    <3>1. r[i] = s[i] /\ i \in DOMAIN s
      BY <1>2, <1>3, <2>1, <2>2
    <3> QED BY <3>1
  <2>3. CASE i > Len(s)
    <3>1. r[i] = q[i - Len(s)] /\ i - Len(s) \in 1 .. n
      BY <1>2, <1>3, <2>1, <2>3
    <3>2. q[i - Len(s)] = t + (i - Len(s)) - 1
      BY <3>1 DEF q
    <3> QED BY <3>1, <3>2, <1>2, <2>1, <1>1 DEF Tasks
  <2> QED BY <2>1, <2>2, <2>3, <1>2
<1> QED BY <1>4, <1>5

(* A thread hands over what is expected next, and expects what follows it.  *)
LEMMA HandedInOrder ==
  ASSUME OrderInv, disp # "crashed", NEW f \in Finals, NEW t \in Tasks, NEW u \in Tasks,
         t <= u, Takes(f, t), Expected(f, t), HandOver(f, t, u)
  PROVE  /\ delivered' \in [Finals -> Seq(Tasks)]
         /\ EachFinalInOrder'
         /\ Len(delivered'[f]) = u
         /\ \A g \in Finals \ {f} : delivered'[g] = delivered[g]
<1>1. t = Len(delivered[f]) + 1
  BY DEF OrderInv, NotifierTypes, LoopsRun, ExpectsNext, Takes, Expected
<1>2. delivered[f] \in Seq(Tasks) /\ \A i \in DOMAIN delivered[f] : delivered[f][i] = i
  BY DEF OrderInv, NotifierTypes, EachFinalInOrder
<1> DEFINE r == delivered[f] \o [i \in 1 .. u - t + 1 |-> t + i - 1]
<1>3. r \in Seq(Tasks) /\ Len(r) = u /\ \A i \in DOMAIN r : r[i] = i
  BY <1>1, <1>2, RunAppended
<1>4. delivered' = [delivered EXCEPT ![f] = r]
  BY DEF HandOver
<1> HIDE DEF r
<1>5. delivered \in [Finals -> Seq(Tasks)]
  BY DEF OrderInv, NotifierTypes
<1>6. ASSUME NEW g \in Finals PROVE delivered'[g] = IF g = f THEN r ELSE delivered[g]
  BY <1>4, <1>5
<1>7. ASSUME NEW g \in Finals, NEW i \in DOMAIN delivered'[g] PROVE delivered'[g][i] = i
  BY <1>3, <1>6, <1>7 DEF OrderInv, EachFinalInOrder
<1> QED BY <1>3, <1>4, <1>5, <1>6, <1>7 DEF EachFinalInOrder

(* Steps that leave the notifiers and the controlling thread alone.         *)
LEMMA OrderKept ==
  ASSUME OrderInv,
         UNCHANGED <<ctl, done, loop, pending, expect, delivered>>,
         disp' = disp \/ (disp' = "ended" /\ disp = "on")
  PROVE  OrderInv'
  BY DEF OrderInv, NotifierTypes, LoopsRun, ExpectsNext, EachFinalInOrder

(* Every step keeps the order, whichever thread takes it.                   *)
LEMMA OrderStep == ASSUME OrderInv, [Next]_vars PROVE OrderInv'
<1> USE DEF cfgVars, notVars, subVars, runVars
<1>1. ASSUME UNCHANGED vars PROVE OrderInv'
  <2>1. UNCHANGED <<ctl, done, loop, pending, expect, delivered, disp>>
    BY <1>1 DEF vars
  <2> QED BY <2>1, OrderKept
<1>2. ASSUME NEW n \in Nodes, AddPipeNode(n) \/ ReplacePipeNode(n) PROVE OrderInv'
  <2>1. UNCHANGED <<ctl, done, loop, pending, expect, delivered, disp>>
    BY <1>2 DEF AddPipeNode, ReplacePipeNode
  <2> QED BY <2>1, OrderKept
<1>3. ASSUME NEW f \in Finals, AddFinal(f) PROVE OrderInv'
  <2>1. ctl = "config" /\ loop' = [loop EXCEPT ![f] = "on"]
        /\ UNCHANGED <<ctl, disp, pending, expect, delivered>>
    BY <1>3 DEF AddFinal
  <2>2. PICK d \in DoneCallbacks : done' = [done EXCEPT ![f] = d]
    BY <1>3 DEF AddFinal, Built
  <2>3. d # "absent"
    BY DEF DoneCallbacks
  <2> QED
    BY <2>1, <2>2, <2>3 DEF OrderInv, NotifierTypes, LoopsRun, ExpectsNext, EachFinalInOrder
<1>4. ASSUME NEW l \in Listeners, AddListener(l) PROVE OrderInv'
  <2>1. UNCHANGED <<ctl, done, loop, pending, expect, delivered, disp>>
    BY <1>4 DEF AddListener
  <2> QED BY <2>1, OrderKept
<1>5. ASSUME Start, disp # "crashed" PROVE OrderInv'
  BY <1>5 DEF Start, OrderInv, NotifierTypes, LoopsRun, ExpectsNext, EachFinalInOrder
<1>6. ASSUME Submit PROVE OrderInv'
  <2>1. UNCHANGED <<ctl, done, loop, pending, expect, delivered, disp>>
    BY <1>6 DEF Submit, SubmitQueue, SubmitCount, SubmitWait, SubmitWake
  <2> QED BY <2>1, OrderKept
<1>7. ASSUME Dispatch \/ DispExit PROVE OrderInv'
  <2>1. UNCHANGED <<ctl, done, loop, pending, expect, delivered>>
        /\ (disp' = disp \/ (disp' = "ended" /\ disp = "on"))
    BY <1>7 DEF Dispatch, DispExit
  <2> QED BY <2>1, OrderKept
<1>8. ASSUME NEW w \in Workers, Worker(w) PROVE OrderInv'
  <2>1. UNCHANGED <<ctl, done, loop, pending, expect, delivered, disp>>
    BY <1>8 DEF Worker, WorkTake, WorkExit, WorkRun, WorkThrow, WorkQueue, WorkListen
  <2> QED BY <2>1, OrderKept
<1>9. ASSUME NEW f \in Finals, FinalHold(f) PROVE OrderInv'
  <2>1. PICK t \in Tasks : pending' = [pending EXCEPT ![f] = @ \cup {t}]
    BY <1>9 DEF FinalHold
  <2>2. UNCHANGED <<ctl, done, loop, expect, delivered, disp>>
    BY <1>9 DEF FinalHold
  <2>3. pending' \in [Finals -> SUBSET Tasks]
    BY <2>1 DEF OrderInv, NotifierTypes
  <2> QED
    BY <2>2, <2>3 DEF OrderInv, NotifierTypes, LoopsRun, ExpectsNext, EachFinalInOrder
<1>10. ASSUME NEW f \in Finals, FinalHandOver(f), disp # "crashed" PROVE OrderInv'
  <2>1. PICK t, u \in Tasks :
          /\ Takes(f, t) /\ Expected(f, t) /\ t <= u
          /\ HandOver(f, t, u)
          /\ pending' = [pending EXCEPT ![f] = @ \ (t .. u)]
          /\ expect' = [expect EXCEPT ![f] = u + 1]
    BY <1>10 DEF FinalHandOver, Released
  <2>2. UNCHANGED <<ctl, done, loop, disp>>
    BY <1>10 DEF FinalHandOver
  <2>3. /\ delivered' \in [Finals -> Seq(Tasks)] /\ EachFinalInOrder'
        /\ Len(delivered'[f]) = u /\ \A g \in Finals \ {f} : delivered'[g] = delivered[g]
    BY <1>10, <2>1, HandedInOrder
  <2>4. u + 1 \in Nat \ {0}
    BY NotificationAssumption DEF Tasks
  <2>5. NotifierTypes'
    BY <2>1, <2>2, <2>3, <2>4 DEF OrderInv, NotifierTypes
  <2>6. ExpectsNext'
    <3>1. \A g \in Finals : expect'[g] = IF g = f THEN u + 1 ELSE expect[g]
      BY <2>1 DEF OrderInv, NotifierTypes
    <3> QED BY <2>2, <2>3, <3>1 DEF OrderInv, ExpectsNext
  <2> QED BY <2>2, <2>3, <2>5, <2>6 DEF OrderInv, LoopsRun
<1>11. ASSUME NEW f \in Finals, FinalUnbound(f), disp # "crashed" PROVE OrderInv'
  <2>1. PICK t \in Tasks : Takes(f, t) /\ Expected(f, t) /\ HandOver(f, t, t)
    BY <1>11 DEF FinalUnbound
  <2>2. UNCHANGED <<ctl, done, loop, pending, expect>> /\ disp' = "crashed"
    BY <1>11 DEF FinalUnbound
  <2>3. t <= t
    BY NotificationAssumption DEF Tasks
  <2>4. delivered' \in [Finals -> Seq(Tasks)] /\ EachFinalInOrder'
    BY <1>11, <2>1, <2>3, HandedInOrder
  <2> QED BY <2>2, <2>4 DEF OrderInv, NotifierTypes, LoopsRun, ExpectsNext
<1>12. ASSUME NEW f \in Finals, FinalExit(f) PROVE OrderInv'
  BY <1>12 DEF FinalExit, OrderInv, NotifierTypes, LoopsRun, ExpectsNext, EachFinalInOrder
<1>13. ASSUME StopNodes \/ StopPool \/ StopDisp \/ DispJoined PROVE OrderInv'
  <2>1. UNCHANGED <<done, loop, pending, expect, delivered, disp>>
        /\ ctl # "stopped" /\ ctl' \in Stopping
    BY <1>13 DEF StopNodes, StopPool, StopDisp, DispJoined, Stopping
  <2>2. ctl' # "stopped"
    BY <2>1 DEF Stopping
  <2> QED
    BY <2>1, <2>2 DEF OrderInv, NotifierTypes, LoopsRun, ExpectsNext, EachFinalInOrder
<1>14. ASSUME NEW f \in Finals, StopFinal(f) PROVE OrderInv'
  <2>1. UNCHANGED <<ctl, done, loop, pending, expect, delivered, disp>>
    BY <1>14 DEF StopFinal
  <2> QED BY <2>1, OrderKept
<1>15. ASSUME StopEnd PROVE OrderInv'
  <2>1. /\ UNCHANGED <<done, loop, delivered, disp>> /\ ctl' = "stopped"
        /\ pending' = [f \in Finals |-> {}] /\ expect' = [f \in Finals |-> 1]
    BY <1>15 DEF StopEnd
  <2>2. \A f \in Finals : loop[f] # "on"
    BY <1>15 DEF StopEnd, Registered, Joined, OrderInv, LoopsRun
  <2> QED
    BY <2>1, <2>2 DEF OrderInv, NotifierTypes, LoopsRun, ExpectsNext, EachFinalInOrder
<1> QED
  BY <1>1, <1>2, <1>3, <1>4, <1>5, <1>6, <1>7, <1>8, <1>9, <1>10, <1>11, <1>12, <1>13, <1>14,
     <1>15 DEF Next, Configuration, FinalLoop, Stop

(* Every FINAL notifier delivers in the order of the identifiers, whatever  *)
(* the number of tasks, workers and notifiers, however their queues order   *)
(* types and priorities, and whenever stop() comes.                         *)
THEOREM FinalsInOrder == Spec => []EachFinalInOrder
<1>1. Init => OrderInv
  BY DEF Init, OrderInv, NotifierTypes, LoopsRun, ExpectsNext, EachFinalInOrder, Stopping,
         DoneCallbacks
<1>2. OrderInv /\ [Next]_vars => OrderInv'
  BY OrderStep
<1>3. OrderInv => EachFinalInOrder
  BY DEF OrderInv
<1> QED BY <1>1, <1>2, <1>3, PTL DEF Spec

----------------------------------------------------------------------------
(* What the other properties rest on: where a task is, and how far. *)

Statuses == {"OK", "ERROR"}

\* Types of the client, the tasks and what is done with them.
TaskTypesOK ==
  /\ client \in {"idle", "check", "wait"} /\ made \in 0 .. MaxTask /\ early \subseteq 1 .. made
  /\ (client # "idle" => made > 0)
  /\ entry \in [Nodes -> {"none", "live", "gone"}] /\ heard \subseteq Listeners
  /\ task \in [Tasks -> [todo : Seq(Nodes), status : Statuses, note : Statuses]]
  /\ ran \in [Tasks -> Seq(Nodes)] /\ ended \in [Tasks -> SUBSET Nodes]
  /\ told \in [Tasks -> [Wanted -> Nat]]
  /\ verdict \in [Finals -> [Tasks -> Statuses \cup {"none"}]]

\* Types of the queues: they hold tasks that were made.
QueueTypes ==
  /\ disp \in {"off", "on", "ended", "crashed"}
  /\ dispQ \subseteq 1 .. made /\ poolQ \in Seq(1 .. made) /\ lost \subseteq 1 .. made
  /\ work \in [Workers -> [st : {"idle", "run", "queue", "listen", "exited"},
                           t : (1 .. made) \cup {NoTask}, n : Nodes \cup {"none"}]]
  /\ \A w \in Workers : work[w].st \in {"run", "queue", "listen"} =>
       work[w].t # NoTask /\ work[w].n \in Nodes
  /\ notQ \in [Finals -> SUBSET (1 .. made)] /\ notStop \subseteq Registered
  /\ \A f \in Finals : pending[f] \subseteq 1 .. made
                       /\ Len(delivered[f]) <= made

\* Before start() nothing runs; stop() ends the threads in this order.
Phases ==
  /\ ctl = "config" => disp = "off"
  /\ disp = "off" => /\ dispQ = 1 .. made /\ poolQ = <<>> /\ lost = {}
                     /\ \A w \in Workers : work[w].st \in {"idle", "exited"}
                     /\ \A f \in Finals : notQ[f] = {} /\ delivered[f] = <<>> /\ pending[f] = {}
                     /\ \A t \in Tasks : ended[t] = {} /\ ran[t] = <<>>
  /\ DispStop => \A w \in Workers : work[w].st = "exited"
  /\ \A w \in Workers : work[w].st = "exited" => PoolStop /\ poolQ = <<>>
  /\ ctl \in {"notif", "stopped"} => disp # "on"
  /\ disp = "ended" => DispStop /\ dispQ = {}
  /\ notStop # {} => ctl \in {"notif", "stopped"}
  /\ \A f \in Finals :
       /\ loop[f] = "ended" => f \in notStop /\ notQ[f] = {}
       /\ done[f] = "absent" => loop[f] = "off" /\ notQ[f] = {} /\ delivered[f] = <<>> /\ pending[f] = {}
       /\ done[f] = "none" /\ delivered[f] # <<>> => disp = "crashed"
  /\ ctl = "stopped" => \A f \in Registered : loop[f] = "ended"

\* Where a task is.
InPool(t) == \E i \in DOMAIN poolQ : poolQ[i] = t
Holds(w, t) == work[w].st \in {"run", "queue"} /\ work[w].t = t
Held(t) == \E w \in Workers : Holds(w, t)
Has(f, t) == t \in notQ[f] \/ t \in pending[f] \/ t <= Len(delivered[f])

\* A task is at one place at a time.
OnePlace ==
  /\ \A t \in Tasks :
       /\ t \in dispQ => ~InPool(t) /\ ~Held(t) /\ t \notin lost
       /\ InPool(t) => ~Held(t) /\ t \notin lost
       /\ Held(t) => t \notin lost
       /\ \A f \in Finals : Has(f, t) => t \notin dispQ /\ ~InPool(t) /\ ~Held(t) /\ t \notin lost
       /\ \A v, w \in Workers : Holds(v, t) /\ Holds(w, t) => v = w
  /\ \A i, j \in DOMAIN poolQ : poolQ[i] = poolQ[j] => i = j

\* No task gets lost but by an exception.
NoneDropped ==
  \/ ctl = "stopped"
  \/ \A t \in 1 .. made :
       \/ t \in dispQ \/ InPool(t) \/ Held(t) \/ t \in lost
       \/ \A f \in Registered : Has(f, t)

\* The expected task is not among the pending ones.
NotPending == \A f \in Finals : expect[f] \notin pending[f] \/ disp = "crashed"

\* How far a task is on the path.
OnPath(t) ==
  LET k == Len(ran[t]) IN
    /\ k <= Len(Path) /\ \A i \in 1 .. k : ran[t][i] = Path[i]
    /\ task[t].status = "OK" =>
         /\ Len(task[t].todo) = Len(Path) - k
         /\ \A i \in 1 .. Len(Path) - k : task[t].todo[i] = Path[k + i]
         /\ ended[t] = RanOn(t)
    /\ task[t].status = "ERROR" =>
         k < Len(Path) /\ task[t].todo = <<>> /\ ended[t] = RanOn(t) \cup {Path[k + 1]}

\* A task never dispatched: not submitted, or submitted before start().
Fresh(t) == /\ task[t].todo = <<>> /\ task[t].status = "OK" /\ ran[t] = <<>> /\ ended[t] = {}

\* Each task is where its record says it is.
Routes ==
  /\ \A t \in Tasks : IF t \in 1 .. made /\ t \notin early THEN OnPath(t) ELSE Fresh(t)
  /\ \A t \in Tasks : InPool(t) => task[t].todo # <<>>
  /\ \A w \in Workers :
       /\ work[w].st = "run" => /\ task[work[w].t].todo # <<>>
                                /\ work[w].n = Head(task[work[w].t].todo)
       /\ work[w].st \in {"queue", "listen"} => work[w].n \in ended[work[w].t]
  /\ \A v, w \in Workers :
       (work[v].st \in {"queue", "listen"} /\ work[w].st \in {"queue", "listen"}
        /\ work[v].t = work[w].t /\ work[v].n = work[w].n) => v = w

\* No task is at a node that is gone.
Served ==
  /\ \A t \in Tasks : InPool(t) => entry[Head(task[t].todo)] # "gone"
  /\ \A w \in Workers : work[w].st = "run" => entry[work[w].n] # "gone"
  /\ \A t \in Tasks : \A n \in RanOn(t) : entry[n] # "gone"

\* A node of the path was replaced.
PathGone == \E i \in DOMAIN Path : entry[Path[i]] = "gone"

\* What task tells its FINAL notifiers.
Notes ==
  /\ \A t \in Tasks : task[t].note = "ERROR" => IsStop \/ task[t].status = "ERROR" \/ PathGone
  /\ \A f \in Finals : \A t \in Tasks : 
       (t \in notQ[f] \/ t \in pending[f]) /\ task[t].note = "OK" =>
         ran[t] = IF t \in early THEN <<>> ELSE Path
  /\ \A f \in Finals : \A t \in Tasks : verdict[f][t] # "none" => t <= Len(delivered[f])

\* The inductive invariant, but for the count.
TaskInv ==
  /\ OrderInv /\ TaskTypesOK /\ QueueTypes /\ Phases /\ OnePlace /\ NoneDropped /\ NotPending
  /\ Routes /\ Served /\ Notes /\ VerdictHasCause

----------------------------------------------------------------------------
(* Steps with several outcomes. *)

(* A scheduler returns one of its tasks.                                     *)
LEMMA SchedulableIn ==
  ASSUME NEW q, NEW type, NEW prio, NEW t \in Schedulable(q, type, prio)
  PROVE  t \in q
  BY DEF Schedulable, Top, FirstNonEmpty

\* The dispatcher gives t to the pool, or reports it with some status.
ToPool(t) ==
  /\ task[t].todo # <<>> /\ entry[Head(task[t].todo)] # "gone" /\ ~IsStop
  /\ poolQ' = Append(poolQ, t) /\ UNCHANGED <<task, notQ>>

ToFinals(t, status) ==
  /\ poolQ' = poolQ
  /\ \/ task[t].todo = <<>> /\ status = task[t].status
     \/ /\ task[t].todo # <<>> /\ status = "ERROR"
        /\ entry[Head(task[t].todo)] = "gone" \/ IsStop
  /\ task' = IF Registered = {} THEN task ELSE [task EXCEPT ![t].note = status]
  /\ notQ' = [f \in Finals |-> IF f \in Notified THEN notQ[f] \cup {t} ELSE notQ[f]]

(* What a step of the dispatcher does with the task it takes.                *)
LEMMA Dispatched ==
  ASSUME TaskTypesOK, QueueTypes, Dispatch
  PROVE  \E t \in dispQ :
           /\ t \in Tasks /\ disp = "on" /\ dispQ' = dispQ \ {t}
           /\ ToPool(t) \/ \E status \in Statuses : ToFinals(t, status)
           /\ UNCHANGED <<ctl, entry, done, heard, client, made, early, count, disp, work, loop,
                          notStop, pending, expect, delivered, verdict, ran, ended, lost, told>>
<1> USE DEF cfgVars, subVars, runVars
<1>1. PICK t \in Schedulable(dispQ, Types, Priorities) :
        /\ dispQ' = dispQ \ {t}
        /\ IF task[t].todo = <<>>
           THEN NotifyFinal(t, FinalStatus(t)) /\ poolQ' = poolQ
           ELSE IF NodeServes(Head(task[t].todo))
                THEN poolQ' = Append(poolQ, t) /\ UNCHANGED <<task, notQ>>
                ELSE NotifyFinal(t, "ERROR") /\ poolQ' = poolQ
  BY DEF Dispatch
<1>2. t \in dispQ /\ t \in Tasks
  <2>1. t \in dispQ
    BY SchedulableIn
  <2>2. dispQ \subseteq 1 .. made /\ made \in 0 .. MaxTask
    BY DEF QueueTypes, TaskTypesOK
  <2> QED BY <2>1, <2>2, NotificationAssumption DEF Tasks
<1>3. disp = "on"
      /\ UNCHANGED <<ctl, entry, done, heard, client, made, early, count, disp, work, loop,
                     notStop, pending, expect, delivered, verdict, ran, ended, lost, told>>
  BY DEF Dispatch
<1>4. CASE task[t].todo = <<>>
  <2>1. task[t].status \in Statuses
    BY <1>2 DEF TaskTypesOK
  <2>2. ToFinals(t, task[t].status)
    BY <1>1, <1>4 DEF ToFinals, NotifyFinal, FinalStatus, Emplaced
  <2> QED BY <1>1, <1>2, <1>3, <2>1, <2>2
<1>5. CASE task[t].todo # <<>> /\ NodeServes(Head(task[t].todo))
  BY <1>1, <1>2, <1>3, <1>5 DEF ToPool, NodeServes
<1>6. CASE task[t].todo # <<>> /\ ~NodeServes(Head(task[t].todo))
  <2>1. ToFinals(t, "ERROR")
    BY <1>1, <1>6 DEF ToFinals, NotifyFinal, Emplaced, NodeServes
  <2>2. "ERROR" \in Statuses
    BY DEF Statuses
  <2> QED BY <1>1, <1>2, <1>3, <2>1, <2>2
<1> QED BY <1>4, <1>5, <1>6

(* What a FINAL notifier's thread does with the task it waits for: it hands  *)
(* over that one and the pending ones that follow.                           *)
LEMMA HandedOver ==
  ASSUME OrderInv, TaskTypesOK, QueueTypes, disp # "crashed", NEW f \in Finals,
         FinalHandOver(f) \/ FinalUnbound(f)
  PROVE  \E t \in 1 .. made, u \in 1 .. made :
           /\ t <= u /\ t = Len(delivered[f]) + 1 /\ t \in notQ[f] /\ t + 1 .. u \subseteq pending[f]
           /\ loop[f] = "on" /\ notQ' = [notQ EXCEPT ![f] = @ \ {t}]
           /\ Len(delivered'[f]) = u /\ \A g \in Finals \ {f} : delivered'[g] = delivered[g]
           /\ verdict' = [verdict EXCEPT ![f] = [v \in Tasks |-> IF v \in t .. u THEN task[v].note
                                                                ELSE @[v]]]
           /\ \/ /\ FinalHandOver(f) /\ done[f] # "none" /\ disp' = disp
                 /\ u + 1 \notin pending[f] /\ pending' = [pending EXCEPT ![f] = @ \ (t .. u)]
                 /\ expect' = [expect EXCEPT ![f] = u + 1]
                 /\ count' = IF done[f] = "pipeline" THEN Decremented(u - t + 1) ELSE count
              \/ /\ FinalUnbound(f) /\ done[f] = "none" /\ disp' = "crashed" /\ u = t
                 /\ UNCHANGED <<pending, expect, count>>
           /\ UNCHANGED <<ctl, entry, done, heard, client, made, early, task, dispQ, poolQ, work,
                          loop, notStop, ran, ended, lost, told>>
<1> USE DEF cfgVars, subVars, runVars
<1>1. UNCHANGED <<ctl, entry, done, heard, client, made, early, task, dispQ, poolQ, work,
                  loop, notStop, ran, ended, lost, told>>
  BY DEF FinalHandOver, FinalUnbound
<1>2. ASSUME NEW t \in Tasks, NEW u \in Tasks, t <= u, Takes(f, t), Expected(f, t),
             HandOver(f, t, u)
      PROVE  /\ t \in notQ[f] /\ loop[f] = "on" /\ notQ' = [notQ EXCEPT ![f] = @ \ {t}]
             /\ t = Len(delivered[f]) + 1 /\ Len(delivered'[f]) = u
             /\ \A g \in Finals \ {f} : delivered'[g] = delivered[g]
             /\ verdict' = [verdict EXCEPT ![f] = [v \in Tasks |-> IF v \in t .. u THEN task[v].note
                                                                  ELSE @[v]]]
  <2>1. t \in notQ[f] /\ loop[f] = "on" /\ notQ' = [notQ EXCEPT ![f] = @ \ {t}]
    BY <1>2, SchedulableIn DEF Takes
  <2>2. t = Len(delivered[f]) + 1
    BY <1>2 DEF OrderInv, LoopsRun, ExpectsNext, Takes, Expected
  <2>3. Len(delivered'[f]) = u /\ \A g \in Finals \ {f} : delivered'[g] = delivered[g]
    BY <1>2, HandedInOrder
  <2> QED BY <1>2, <2>1, <2>2, <2>3 DEF HandOver
<1>3. made \in Nat /\ \A g \in Finals : notQ[g] \subseteq 1 .. made /\ pending[g] \subseteq 1 .. made
  BY NotificationAssumption DEF TaskTypesOK, QueueTypes
<1>4. CASE FinalHandOver(f)
  <2>1. PICK t \in Tasks, u \in Tasks :
          /\ Takes(f, t) /\ Expected(f, t) /\ Released(f, t, u) /\ HandOver(f, t, u)
          /\ pending' = [pending EXCEPT ![f] = @ \ (t .. u)]
          /\ expect' = [expect EXCEPT ![f] = u + 1]
          /\ count' = IF done[f] = "pipeline" THEN Decremented(u - t + 1) ELSE count
    BY <1>4 DEF FinalHandOver
  <2>2. t <= u /\ t + 1 .. u \subseteq pending[f] /\ u + 1 \notin pending[f]
    BY <2>1 DEF Released
  <2>3. t \in notQ[f] /\ t \in 1 .. made
    BY <1>2, <1>3, <2>1, <2>2
  <2>4. u \in 1 .. made
    <3>1. CASE u = t
      BY <2>3, <3>1
    <3>2. CASE u > t
      <4>1. u \in t + 1 .. u
        BY <3>2 DEF Tasks
      <4> QED BY <1>3, <2>2, <4>1
    <3> QED BY <2>2, <3>1, <3>2 DEF Tasks
  <2>5. done[f] # "none" /\ disp' = disp
    BY <1>4 DEF FinalHandOver
  <2> QED BY <1>1, <1>2, <1>4, <2>1, <2>2, <2>3, <2>4, <2>5
<1>5. CASE FinalUnbound(f)
  <2>1. PICK t \in Tasks : Takes(f, t) /\ Expected(f, t) /\ HandOver(f, t, t)
    BY <1>5 DEF FinalUnbound
  <2>2. t <= t
    BY DEF Tasks
  <2>3. t \in notQ[f] /\ t \in 1 .. made
    BY <1>2, <1>3, <2>1, <2>2
  <2>4. t + 1 .. t \subseteq pending[f]
    BY DEF Tasks
  <2>5. done[f] = "none" /\ disp' = "crashed" /\ UNCHANGED <<pending, expect, count>>
    BY <1>5 DEF FinalUnbound
  <2> QED BY <1>1, <1>2, <1>5, <2>1, <2>2, <2>3, <2>4, <2>5
<1> QED BY <1>4, <1>5

(* The type of the tasks is kept.                                            *)
LEMMA TaskTypesStep == ASSUME TaskInv, [Next]_vars PROVE TaskTypesOK'
<1> USE DEF cfgVars, notVars, subVars, runVars
<1> DEFINE taskVars == <<client, made, early, entry, heard, task, ran, ended, told, verdict>>
<1>a. TaskTypesOK /\ QueueTypes /\ OrderInv /\ Routes
  BY DEF TaskInv
<1>b. /\ made \in Nat /\ MaxTask \in Nat /\ 1 .. made \subseteq Tasks
      /\ \A s \in Statuses : s \in {"OK", "ERROR"}
  BY <1>a, NotificationAssumption DEF TaskTypesOK, Tasks, Statuses
<1>0. ASSUME UNCHANGED taskVars PROVE TaskTypesOK'
  BY <1>a, <1>0 DEF TaskTypesOK
<1>1. ASSUME UNCHANGED vars PROVE TaskTypesOK'
  BY <1>0, <1>1 DEF vars
<1>2. ASSUME NEW n \in Nodes, AddPipeNode(n) \/ ReplacePipeNode(n) PROVE TaskTypesOK'
  <2>1. entry' \in [Nodes -> {"none", "live", "gone"}]
    BY <1>a, <1>2 DEF TaskTypesOK, AddPipeNode, ReplacePipeNode
  <2>2. UNCHANGED <<client, made, early, heard, task, ran, ended, told, verdict>>
    BY <1>2 DEF AddPipeNode, ReplacePipeNode
  <2> QED BY <1>a, <2>1, <2>2 DEF TaskTypesOK
<1>3. ASSUME NEW l \in Listeners, AddListener(l) PROVE TaskTypesOK'
  BY <1>a, <1>3 DEF TaskTypesOK, AddListener
<1>4. ASSUME SubmitQueue PROVE TaskTypesOK'
  <2> DEFINE t == made + 1
             p == IF ctl = "config" THEN <<>> ELSE Path
  <2>1. /\ made' = t /\ client' = "check" /\ made < Bound
        /\ early' = IF ctl = "config" THEN early \cup {t} ELSE early
        /\ task' = [task EXCEPT ![t].todo = p]
        /\ UNCHANGED <<entry, heard, ran, ended, told, verdict>>
    BY <1>4 DEF SubmitQueue
  <2>2. t \in 0 .. MaxTask /\ early' \subseteq 1 .. t
    <3>1. Bound \in 0 .. MaxTask
      BY <1>b, NotificationAssumption DEF Bound
    <3>2. t \in 0 .. MaxTask
      BY <1>b, <2>1, <3>1
    <3>3. early \subseteq 1 .. made
      BY <1>a DEF TaskTypesOK
    <3>4. (1 .. made) \cup {t} \subseteq 1 .. t
      BY <1>b
    <3>5. early' \subseteq early \cup {t}
      BY <2>1
    <3> HIDE DEF t
    <3> QED BY <3>2, <3>3, <3>4, <3>5
  <2>3. p \in Seq(Nodes)
    BY NotificationAssumption
  <2> HIDE DEF p
  <2>4. task' \in [Tasks -> [todo : Seq(Nodes), status : Statuses, note : Statuses]]
    BY <1>a, <2>1, <2>3 DEF TaskTypesOK
  <2> QED BY <1>a, <1>b, <2>1, <2>2, <2>4 DEF TaskTypesOK
<1>5. ASSUME SubmitCount \/ SubmitWait \/ SubmitWake PROVE TaskTypesOK'
  <2>1. /\ client' \in {"idle", "check", "wait"} /\ (client' # "idle" => client # "idle")
        /\ UNCHANGED <<made, early, entry, heard, task, ran, ended, told, verdict>>
    BY <1>5 DEF SubmitCount, SubmitWait, SubmitWake
  <2> QED BY <1>a, <2>1 DEF TaskTypesOK
<1>6. ASSUME Dispatch PROVE TaskTypesOK'
  <2>1. PICK t \in Tasks : ToPool(t) \/ \E status \in Statuses : ToFinals(t, status)
    BY <1>a, <1>6, Dispatched
  <2>2. UNCHANGED <<client, made, early, entry, heard, ran, ended, told, verdict>>
    BY <1>6 DEF Dispatch
  <2>3. task' \in [Tasks -> [todo : Seq(Nodes), status : Statuses, note : Statuses]]
    <3>1. task' = task \/ \E status \in Statuses : task' = [task EXCEPT ![t].note = status]
      BY <2>1 DEF ToPool, ToFinals
    <3> QED BY <1>a, <3>1 DEF TaskTypesOK
  <2> QED BY <1>a, <2>2, <2>3 DEF TaskTypesOK
<1>7. ASSUME NEW w \in Workers, WorkRun(w) PROVE TaskTypesOK'
  <2> DEFINE t == work[w].t
             n == work[w].n
  <2>1. t \in Tasks /\ n \in Nodes /\ task[t].todo # <<>>
    BY <1>a, <1>b, <1>7 DEF WorkRun, QueueTypes, Routes, NoTask
  <2>2. PICK r \in Outcomes \ {"throw"} :
          /\ task' = [task EXCEPT ![t] = AfterCallback(@, r = "ok")]
          /\ ran' = IF r = "ok" THEN [ran EXCEPT ![t] = Append(@, n)] ELSE ran
    BY <1>7 DEF WorkRun
  <2>3. ended' = [ended EXCEPT ![t] = @ \cup {n}]
        /\ UNCHANGED <<client, made, early, entry, heard, told, verdict>>
    BY <1>7 DEF WorkRun
  <2> HIDE DEF t, n
  <2>4. AfterCallback(task[t], r = "ok") \in [todo : Seq(Nodes), status : Statuses, note : Statuses]
    <3>1. task[t] \in [todo : Seq(Nodes), status : Statuses, note : Statuses]
      BY <1>a, <2>1 DEF TaskTypesOK
    <3>2. Tail(task[t].todo) \in Seq(Nodes) /\ <<>> \in Seq(Nodes) /\ "ERROR" \in Statuses
      BY <2>1, <3>1 DEF Statuses
    <3> QED BY <3>1, <3>2 DEF AfterCallback
  <2>5. task' \in [Tasks -> [todo : Seq(Nodes), status : Statuses, note : Statuses]]
    BY <1>a, <2>1, <2>2, <2>4 DEF TaskTypesOK
  <2>6. ran' \in [Tasks -> Seq(Nodes)] /\ ended' \in [Tasks -> SUBSET Nodes]
    BY <1>a, <2>1, <2>2, <2>3 DEF TaskTypesOK
  <2> QED BY <1>a, <2>3, <2>5, <2>6 DEF TaskTypesOK
<1>8. ASSUME NEW w \in Workers, WorkListen(w) PROVE TaskTypesOK'
  <2> DEFINE t == work[w].t
             by == [x \in Wanted |-> told[t][x] + (IF x \in Called(t, work[w].n) THEN 1 ELSE 0)]
  <2>1. t \in Tasks
    BY <1>a, <1>b, <1>8 DEF WorkListen, QueueTypes, NoTask
  <2>2. /\ told' = [told EXCEPT ![t] = by]
        /\ task' = [task EXCEPT ![t].note = "ERROR"] \/ task' = task
        /\ UNCHANGED <<client, made, early, entry, heard, ran, ended, verdict>>
    BY <1>8 DEF WorkListen
  <2>3. by \in [Wanted -> Nat]
    BY <1>a, <2>1 DEF TaskTypesOK
  <2> HIDE DEF t, by
  <2>4. told' \in [Tasks -> [Wanted -> Nat]]
    BY <1>a, <2>2, <2>3 DEF TaskTypesOK
  <2>5. task' \in [Tasks -> [todo : Seq(Nodes), status : Statuses, note : Statuses]]
    BY <1>a, <2>1, <2>2 DEF TaskTypesOK, Statuses
  <2> QED BY <1>a, <2>2, <2>4, <2>5 DEF TaskTypesOK
<1>9. ASSUME NEW w \in Workers, WorkTake(w) \/ WorkExit(w) \/ WorkThrow(w) \/ WorkQueue(w)
      PROVE TaskTypesOK'
  BY <1>0, <1>9 DEF WorkTake, WorkExit, WorkThrow, WorkQueue
<1>10. ASSUME NEW f \in Finals, FinalHandOver(f) \/ FinalUnbound(f), disp # "crashed" PROVE TaskTypesOK'
  <2>1. PICK t \in 1 .. made, u \in 1 .. made :
          verdict' = [verdict EXCEPT ![f] = [v \in Tasks |-> IF v \in t .. u THEN task[v].note
                                                            ELSE @[v]]]
    BY <1>a, <1>10, HandedOver
  <2>2. UNCHANGED <<client, made, early, entry, heard, task, ran, ended, told>>
    BY <1>10 DEF FinalHandOver, FinalUnbound
  <2>3. verdict' \in [Finals -> [Tasks -> Statuses \cup {"none"}]]
    BY <1>a, <2>1 DEF TaskTypesOK
  <2> QED BY <1>a, <2>2, <2>3 DEF TaskTypesOK
<1>11. ASSUME NEW f \in Finals, AddFinal(f) \/ FinalHold(f) \/ FinalExit(f) PROVE TaskTypesOK'
  BY <1>0, <1>11 DEF AddFinal, FinalHold, FinalExit
<1>12. ASSUME Start \/ DispExit \/ Stop PROVE TaskTypesOK'
  BY <1>0, <1>12 DEF Start, DispExit, Stop, StopNodes, StopPool, StopDisp, DispJoined, StopEnd, StopFinal
<1> QED
  BY <1>1, <1>2, <1>3, <1>4, <1>5, <1>6, <1>7, <1>8, <1>9, <1>10, <1>11, <1>12
     DEF Next, Configuration, Submit, Worker, FinalLoop

(* The queues hold tasks that were made.                                     *)
LEMMA QueueTypesStep == ASSUME TaskInv, [Next]_vars PROVE QueueTypes'
<1> USE DEF cfgVars, notVars, subVars, runVars
<1> DEFINE queueVars == <<made, disp, dispQ, poolQ, lost, work, notQ, notStop, done, pending, delivered>>
           WorkType(m) == [st : {"idle", "run", "queue", "listen", "exited"},
                           t : (1 .. m) \cup {NoTask}, n : Nodes \cup {"none"}]
           WorkOK(r) == r.st \in {"run", "queue", "listen"} => r.t # NoTask /\ r.n \in Nodes
<1>a. TaskTypesOK /\ QueueTypes /\ OrderInv /\ Routes
  BY DEF TaskInv
<1>b. /\ made \in Nat /\ MaxTask \in Nat /\ 1 .. made \subseteq Tasks
      /\ dispQ \subseteq 1 .. made /\ poolQ \in Seq(1 .. made) /\ lost \subseteq 1 .. made
      /\ notQ \in [Finals -> SUBSET (1 .. made)] /\ notStop \subseteq Registered
      /\ \A f \in Finals : pending[f] \subseteq 1 .. made /\ Len(delivered[f]) <= made
      /\ disp \in {"off", "on", "ended", "crashed"}
  BY <1>a, NotificationAssumption DEF TaskTypesOK, QueueTypes, Tasks
<1>c. work \in [Workers -> WorkType(made)] /\ \A w \in Workers : WorkOK(work[w])
  BY <1>a DEF QueueTypes
<1>d. QueueTypes' <=>
        /\ disp' \in {"off", "on", "ended", "crashed"}
        /\ dispQ' \subseteq 1 .. made' /\ poolQ' \in Seq(1 .. made') /\ lost' \subseteq 1 .. made'
        /\ work' \in [Workers -> WorkType(made')]
        /\ \A w \in Workers : WorkOK(work'[w])
        /\ notQ' \in [Finals -> SUBSET (1 .. made')] /\ notStop' \subseteq Registered'
        /\ \A f \in Finals : pending'[f] \subseteq 1 .. made' /\ Len(delivered'[f]) <= made'
  BY DEF QueueTypes
<1> HIDE DEF WorkType, WorkOK
<1>0. ASSUME UNCHANGED queueVars PROVE QueueTypes'
  BY <1>a, <1>0 DEF QueueTypes, Registered
<1>1. ASSUME UNCHANGED vars PROVE QueueTypes'
  BY <1>0, <1>1 DEF vars
<1>2. ASSUME NEW f \in Finals, AddFinal(f) PROVE QueueTypes'
  <2>1. \E d \in DoneCallbacks : done' = [done EXCEPT ![f] = d]
    BY <1>2 DEF AddFinal, Built
  <2>2. UNCHANGED <<made, disp, dispQ, poolQ, lost, work, notQ, notStop, pending, delivered>>
    BY <1>2 DEF AddFinal
  <2>3. Registered \subseteq Registered'
    BY <1>a, <2>1 DEF Registered, DoneCallbacks, OrderInv, NotifierTypes
  <2> QED BY <1>b, <1>c, <1>d, <2>2, <2>3
<1>3. ASSUME Start \/ DispExit PROVE QueueTypes'
  <2>1. UNCHANGED <<made, dispQ, poolQ, lost, work, notQ, notStop, done, pending, delivered>>
        /\ disp' \in {"on", "ended"}
    BY <1>3 DEF Start, DispExit
  <2> QED BY <1>b, <1>c, <1>d, <2>1 DEF Registered
<1>4. ASSUME SubmitQueue PROVE QueueTypes'
  <2>1. /\ made' = made + 1 /\ dispQ' = dispQ \cup {made + 1}
        /\ UNCHANGED <<disp, poolQ, lost, work, notQ, notStop, done, pending, delivered>>
    BY <1>4 DEF SubmitQueue, Emplaced
  <2> DEFINE old == 1 .. made
             new == 1 .. made'
  <2>2. old \subseteq new /\ made + 1 \in new
    BY <1>b, <2>1
  <2>3. WorkType(made) \subseteq WorkType(made')
    BY <2>2 DEF WorkType
  <2>4. \A f \in Finals : Len(delivered'[f]) <= made'
    <3>1. \A f \in Finals : Len(delivered[f]) \in Nat
      BY <1>a DEF OrderInv, NotifierTypes
    <3> QED BY <1>b, <2>1, <3>1
  <2>5. poolQ \in Seq(old)
    BY <1>b
  <2>6. dispQ \subseteq old /\ lost \subseteq old /\ notQ \in [Finals -> SUBSET old]
        /\ \A f \in Finals : pending[f] \subseteq old
    BY <1>b
  <2> HIDE DEF old, new
  <2>7. poolQ \in Seq(new)
    BY <2>2, <2>5
  <2>8. dispQ' \subseteq new /\ lost' \subseteq new /\ notQ' \in [Finals -> SUBSET new]
        /\ \A f \in Finals : pending'[f] \subseteq new
    BY <2>1, <2>2, <2>6
  <2>9. work' \in [Workers -> WorkType(made')]
    BY <1>c, <2>1, <2>3
  <2> QED BY <1>b, <1>c, <1>d, <2>1, <2>4, <2>7, <2>8, <2>9 DEF new, Registered
<1>5. ASSUME Dispatch PROVE QueueTypes'
  <2>1. PICK t \in dispQ :
          /\ dispQ' = dispQ \ {t}
          /\ ToPool(t) \/ \E status \in Statuses : ToFinals(t, status)
          /\ UNCHANGED <<made, disp, lost, work, notStop, done, pending, delivered>>
    BY <1>a, <1>5, Dispatched
  <2>2. poolQ' = poolQ \/ poolQ' = Append(poolQ, t)
    BY <2>1 DEF ToPool, ToFinals
  <2>3. poolQ' \in Seq(1 .. made)
    <3> DEFINE S == 1 .. made
    <3>1. poolQ \in Seq(S) /\ t \in S
      BY <1>b
    <3> HIDE DEF S
    <3>2. poolQ' \in Seq(S)
      BY <2>2, <3>1
    <3> QED BY <3>2 DEF S
  <2>4. notQ' \in [Finals -> SUBSET (1 .. made)]
    BY <1>b, <2>1 DEF ToPool, ToFinals
  <2> QED BY <1>b, <1>c, <1>d, <2>1, <2>3, <2>4 DEF Registered
<1>6. ASSUME NEW w \in Workers, WorkTake(w) PROVE QueueTypes'
  <2> DEFINE S == 1 .. made
             r == [st |-> "run", t |-> Head(poolQ), n |-> Head(task[Head(poolQ)].todo)]
  <2>1. /\ poolQ # <<>> /\ poolQ' = Tail(poolQ) /\ work' = [work EXCEPT ![w] = r]
        /\ UNCHANGED <<made, disp, dispQ, lost, notQ, notStop, done, pending, delivered>>
    BY <1>6 DEF WorkTake
  <2>2. poolQ \in Seq(S)
    BY <1>b
  <2>3. poolQ' \in Seq(S) /\ Head(poolQ) \in S /\ InPool(Head(poolQ))
    <3> HIDE DEF S
    <3>1. Head(poolQ) = poolQ[1] /\ 1 \in DOMAIN poolQ
      BY <2>1, <2>2
    <3> QED BY <2>1, <2>2, <3>1 DEF InPool
  <2>4. Head(task[Head(poolQ)].todo) \in Nodes /\ Head(poolQ) # NoTask
    <3>1. Head(poolQ) \in Tasks
      BY <1>b, <2>3
    <3>2. task[Head(poolQ)].todo \in Seq(Nodes) /\ task[Head(poolQ)].todo # <<>>
      BY <1>a, <2>3, <3>1 DEF TaskTypesOK, Routes
    <3> QED BY <2>3, <3>2 DEF NoTask
  <2>5. r \in WorkType(made) /\ WorkOK(r)
    BY <2>3, <2>4 DEF WorkType, WorkOK
  <2> HIDE DEF r
  <2> QED BY <1>b, <1>c, <1>d, <2>1, <2>3, <2>5 DEF Registered
<1>7. ASSUME NEW w \in Workers, WorkExit(w) \/ WorkRun(w) \/ WorkThrow(w) \/ WorkQueue(w) \/ WorkListen(w)
      PROVE QueueTypes'
  <2>1. UNCHANGED <<made, disp, poolQ, notQ, notStop, done, pending, delivered>>
    BY <1>7 DEF WorkExit, WorkRun, WorkThrow, WorkQueue, WorkListen
  <2>2. work' = [work EXCEPT ![w] = NoWork]
        \/ \E s \in {"queue", "listen", "exited"} :
             work' = [work EXCEPT ![w].st = s] /\ (s # "exited" => work[w].st \in {"run", "queue"})
    BY <1>7 DEF WorkExit, WorkRun, WorkThrow, WorkQueue, WorkListen
  <2>3. work[w] \in WorkType(made) /\ WorkOK(work[w])
    BY <1>c
  <2>4. NoWork \in WorkType(made) /\ WorkOK(NoWork)
    BY DEF WorkType, WorkOK, NoWork, NoTask
  <2>5. work' \in [Workers -> WorkType(made)] /\ \A v \in Workers : WorkOK(work'[v])
    <3>1. CASE work' = [work EXCEPT ![w] = NoWork]
      BY <1>c, <2>4, <3>1
    <3>2. ASSUME NEW s \in {"queue", "listen", "exited"}, work' = [work EXCEPT ![w].st = s],
                 s # "exited" => work[w].st \in {"run", "queue"}
          PROVE  work' \in [Workers -> WorkType(made)] /\ \A v \in Workers : WorkOK(work'[v])
      <4> DEFINE r == [work[w] EXCEPT !.st = s]
      <4>1. r \in WorkType(made) /\ WorkOK(r)
        BY <2>3, <3>2 DEF WorkType, WorkOK
      <4>2. work' = [work EXCEPT ![w] = r]
        BY <3>2
      <4> HIDE DEF r
      <4> QED BY <1>c, <4>1, <4>2
    <3> QED BY <2>2, <3>1, <3>2
  <2>6. dispQ' \subseteq 1 .. made /\ lost' \subseteq 1 .. made
    <3>1. work[w].st \in {"run", "queue"} => work[w].t \in 1 .. made
      BY <2>3 DEF WorkType, WorkOK
    <3>2. dispQ' \subseteq dispQ \cup {work[w].t} /\ (dispQ' # dispQ => work[w].st = "queue")
      BY <1>7 DEF WorkExit, WorkRun, WorkThrow, WorkQueue, WorkListen, Emplaced
    <3>3. lost' \subseteq lost \cup {work[w].t} /\ (lost' # lost => work[w].st = "run")
      BY <1>7 DEF WorkExit, WorkRun, WorkThrow, WorkQueue, WorkListen
    <3> QED BY <1>b, <3>1, <3>2, <3>3
  <2> QED BY <1>b, <1>d, <2>1, <2>5, <2>6 DEF Registered
<1>8. ASSUME NEW f \in Finals, FinalHold(f) PROVE QueueTypes'
  <2>1. PICK t \in Tasks : Takes(f, t) /\ pending' = [pending EXCEPT ![f] = @ \cup {t}]
    BY <1>8 DEF FinalHold
  <2>2. t \in notQ[f] /\ notQ' = [notQ EXCEPT ![f] = @ \ {t}]
    BY <2>1, SchedulableIn DEF Takes
  <2>3. UNCHANGED <<made, disp, dispQ, poolQ, lost, work, notStop, done, delivered>>
    BY <1>8 DEF FinalHold
  <2>4. t \in 1 .. made /\ notQ' \in [Finals -> SUBSET (1 .. made)]
    BY <1>b, <2>2
  <2>5. \A g \in Finals : pending'[g] \subseteq 1 .. made
    BY <1>a, <1>b, <2>1, <2>4 DEF OrderInv, NotifierTypes
  <2> QED BY <1>b, <1>c, <1>d, <2>3, <2>4, <2>5 DEF Registered
<1>9. ASSUME NEW f \in Finals, FinalHandOver(f) \/ FinalUnbound(f), disp # "crashed" PROVE QueueTypes'
  <2>1. PICK t \in 1 .. made, u \in 1 .. made :
          /\ notQ' = [notQ EXCEPT ![f] = @ \ {t}]
          /\ Len(delivered'[f]) = u /\ \A g \in Finals \ {f} : delivered'[g] = delivered[g]
          /\ disp' = disp \/ disp' = "crashed"
          /\ pending' = pending \/ pending' = [pending EXCEPT ![f] = @ \ (t .. u)]
          /\ UNCHANGED <<made, done, dispQ, poolQ, work, notStop, lost>>
    BY <1>a, <1>9, HandedOver
  <2>2. notQ' \in [Finals -> SUBSET (1 .. made)]
    BY <1>b, <2>1
  <2>3. \A g \in Finals : pending'[g] \subseteq 1 .. made /\ Len(delivered'[g]) <= made
    <3>1. pending' = [g \in Finals |-> pending'[g]] /\ \A g \in Finals : pending'[g] \subseteq pending[g]
      BY <1>a, <2>1 DEF OrderInv, NotifierTypes
    <3>2. \A g \in Finals : delivered'[g] = delivered[g] \/ g = f
      BY <2>1
    <3>3. u <= made
      BY <1>b
    <3> QED BY <1>b, <2>1, <3>1, <3>2, <3>3
  <2> QED BY <1>b, <1>c, <1>d, <2>1, <2>2, <2>3 DEF Registered
<1>10. ASSUME NEW f \in Finals, StopFinal(f) PROVE QueueTypes'
  <2>1. /\ f \in Registered /\ notStop' = notStop \cup {f}
        /\ UNCHANGED <<made, disp, dispQ, poolQ, lost, work, notQ, done, pending, delivered>>
    BY <1>10 DEF StopFinal
  <2> QED BY <1>b, <1>c, <1>d, <2>1 DEF Registered
<1>11. ASSUME StopEnd PROVE QueueTypes'
  <2>1. /\ pending' = [f \in Finals |-> {}]
        /\ UNCHANGED <<made, disp, dispQ, poolQ, lost, work, notQ, notStop, done, delivered>>
    BY <1>11 DEF StopEnd
  <2> QED BY <1>b, <1>c, <1>d, <2>1 DEF Registered
<1>12. ASSUME (\E n \in Nodes : AddPipeNode(n) \/ ReplacePipeNode(n)) \/ (\E l \in Listeners : AddListener(l))
       PROVE QueueTypes'
  BY <1>0, <1>12 DEF AddPipeNode, ReplacePipeNode, AddListener
<1>13. ASSUME SubmitCount \/ SubmitWait \/ SubmitWake PROVE QueueTypes'
  BY <1>0, <1>13 DEF SubmitCount, SubmitWait, SubmitWake
<1>14. ASSUME NEW f \in Finals, FinalExit(f) PROVE QueueTypes'
  BY <1>0, <1>14 DEF FinalExit
<1>15. ASSUME StopNodes \/ StopPool \/ StopDisp \/ DispJoined PROVE QueueTypes'
  BY <1>0, <1>15 DEF StopNodes, StopPool, StopDisp, DispJoined
<1> QED
  BY <1>1, <1>2, <1>3, <1>4, <1>5, <1>6, <1>7, <1>8, <1>9, <1>10, <1>11, <1>12, <1>13, <1>14, <1>15
     DEF Next, Configuration, Submit, Worker, FinalLoop, Stop

(* The threads start and end in this order.                                  *)
LEMMA PhasesStep == ASSUME TaskInv, [Next]_vars PROVE Phases'
<1> USE DEF cfgVars, notVars, subVars, runVars
<1>a. TaskTypesOK /\ QueueTypes /\ OrderInv /\ Phases
  BY DEF TaskInv
<1>b. /\ ctl \in {"config", "running", "nodes", "pool", "disp", "notif", "stopped"}
      /\ done \in [Finals -> {"absent", "pipeline", "caller", "none"}]
      /\ loop \in [Finals -> {"off", "on", "ended"}]
      /\ delivered \in [Finals -> Seq(Tasks)] /\ pending \in [Finals -> SUBSET Tasks]
      /\ \A f \in Finals : loop[f] = "on" => done[f] # "absent" /\ ctl # "stopped"
  BY <1>a DEF OrderInv, NotifierTypes, Stopping, DoneCallbacks, LoopsRun
<1>c. /\ disp \in {"off", "on", "ended", "crashed"}
      /\ work \in [Workers -> [st : {"idle", "run", "queue", "listen", "exited"},
                               t : (1 .. made) \cup {NoTask}, n : Nodes \cup {"none"}]]
      /\ notQ \in [Finals -> SUBSET (1 .. made)] /\ notStop \subseteq Registered
  BY <1>a DEF QueueTypes
<1> USE DEF PoolStop, DispStop, Registered
<1>1. ASSUME UNCHANGED vars PROVE Phases'
  BY <1>a, <1>1 DEF vars, Phases
<1>2. ASSUME NEW f \in Finals, AddFinal(f) PROVE Phases'
  <2>1. /\ ctl = "config" /\ done[f] = "absent" /\ loop' = [loop EXCEPT ![f] = "on"]
        /\ UNCHANGED <<ctl, made, dispQ, disp, poolQ, work, lost, ran, ended, notQ, notStop, pending, delivered>>
    BY <1>2 DEF AddFinal
  <2>2. PICK d \in DoneCallbacks : done' = [done EXCEPT ![f] = d]
    BY <1>2 DEF AddFinal, Built
  <2>3. d # "absent"
    BY DEF DoneCallbacks
  <2> QED BY <1>a, <1>b, <1>c, <2>1, <2>2, <2>3 DEF Phases
<1>3. ASSUME Start PROVE Phases'
  <2>1. ctl = "config" /\ ctl' = "running" /\ disp' = "on"
        /\ UNCHANGED <<made, done, dispQ, poolQ, work, lost, ran, ended, notQ, loop, notStop, pending, delivered>>
    BY <1>3 DEF Start
  <2> QED BY <1>a, <1>b, <2>1 DEF Phases
<1>4. ASSUME SubmitQueue PROVE Phases'
  <2>1. /\ ctl \notin {"nodes", "pool", "disp", "notif", "stopped"}
        /\ made' = made + 1 /\ dispQ' = dispQ \cup {made + 1}
        /\ UNCHANGED <<ctl, done, disp, poolQ, work, lost, ran, ended, notQ, loop, notStop, pending, delivered>>
    BY <1>4 DEF SubmitQueue, IsStop, Stopping, Emplaced
  <2>2. (1 .. made) \cup {made + 1} = 1 .. made'
    BY <1>a, <2>1, NotificationAssumption DEF TaskTypesOK
  <2> QED BY <1>a, <1>b, <2>1, <2>2 DEF Phases
<1>5. ASSUME Dispatch PROVE Phases'
  <2>1. PICK t \in dispQ :
          /\ disp = "on" /\ dispQ' = dispQ \ {t}
          /\ ToPool(t) \/ \E status \in Statuses : ToFinals(t, status)
          /\ UNCHANGED <<ctl, made, done, disp, work, lost, ran, ended, loop, notStop, pending, delivered>>
    BY <1>a, <1>5, Dispatched
  <2>2. poolQ' = poolQ \/ ctl \notin {"nodes", "pool", "disp", "notif", "stopped"}
    BY <2>1 DEF ToPool, ToFinals, IsStop, Stopping
  <2>3. \A f \in Finals : notQ'[f] = notQ[f] \/ f \in Registered \ notStop
    BY <1>c, <2>1 DEF ToPool, ToFinals, Notified
  <2> QED BY <1>a, <1>b, <2>1, <2>2, <2>3 DEF Phases
<1>6. ASSUME DispExit PROVE Phases'
  <2>1. disp = "on" /\ disp' = "ended" /\ DispStop /\ dispQ = {}
        /\ UNCHANGED <<ctl, made, done, dispQ, poolQ, work, lost, ran, ended, notQ, loop, notStop, pending, delivered>>
    BY <1>6 DEF DispExit, NothingQueued
  <2> QED BY <1>a, <1>b, <2>1 DEF Phases
<1>7. ASSUME NEW w \in Workers, WorkTake(w) PROVE Phases'
  <2> DEFINE r == [st |-> "run", t |-> Head(poolQ), n |-> Head(task[Head(poolQ)].todo)]
  <2>1. /\ work[w].st = "idle" /\ poolQ # <<>> /\ work' = [work EXCEPT ![w] = r]
        /\ UNCHANGED <<ctl, made, done, dispQ, disp, lost, ran, ended, notQ, loop, notStop, pending, delivered>>
    BY <1>7 DEF WorkTake
  <2>2. r.st = "run"
    OBVIOUS
  <2> HIDE DEF r
  <2> QED BY <1>a, <1>b, <1>c, <2>1, <2>2 DEF Phases
<1>8. ASSUME NEW w \in Workers, WorkExit(w) PROVE Phases'
  <2>1. /\ work[w].st = "idle" /\ PoolStop /\ poolQ = <<>> /\ work' = [work EXCEPT ![w].st = "exited"]
        /\ UNCHANGED <<ctl, made, done, dispQ, disp, poolQ, lost, ran, ended, notQ, loop, notStop, pending, delivered>>
    BY <1>8 DEF WorkExit
  <2> QED BY <1>a, <1>b, <1>c, <2>1 DEF Phases
<1>9. ASSUME NEW w \in Workers, WorkRun(w) \/ WorkThrow(w) \/ WorkQueue(w) \/ WorkListen(w) PROVE Phases'
  <2>1. /\ work[w].st \in {"run", "queue", "listen"}
        /\ dispQ' = dispQ \/ ~DispStop
        /\ UNCHANGED <<ctl, made, done, disp, poolQ, notQ, loop, notStop, pending, delivered>>
    BY <1>9 DEF WorkRun, WorkThrow, WorkQueue, WorkListen
  <2>2. \E r : work' = [work EXCEPT ![w] = r] /\ r.st \in {"idle", "queue", "listen"}
    BY <1>c, <1>9 DEF WorkRun, WorkThrow, WorkQueue, WorkListen, NoWork
  <2> QED BY <1>a, <1>b, <1>c, <2>1, <2>2 DEF Phases
<1>10. ASSUME NEW f \in Finals, FinalHold(f) PROVE Phases'
  <2>1. PICK t \in Tasks : Takes(f, t) /\ pending' = [pending EXCEPT ![f] = @ \cup {t}]
    BY <1>10 DEF FinalHold
  <2>2. t \in notQ[f] /\ loop[f] = "on" /\ notQ' = [notQ EXCEPT ![f] = @ \ {t}]
    BY <2>1, SchedulableIn DEF Takes
  <2>3. UNCHANGED <<ctl, made, done, dispQ, disp, poolQ, work, lost, ran, ended, loop, notStop, delivered>>
    BY <1>10 DEF FinalHold
  <2> QED BY <1>a, <1>b, <1>c, <2>1, <2>2, <2>3 DEF Phases
<1>11. ASSUME NEW f \in Finals, FinalHandOver(f) \/ FinalUnbound(f), disp # "crashed" PROVE Phases'
  <2>1. PICK t \in 1 .. made, u \in 1 .. made :
          /\ t \in notQ[f] /\ loop[f] = "on" /\ notQ' = [notQ EXCEPT ![f] = @ \ {t}]
          /\ \A g \in Finals \ {f} : delivered'[g] = delivered[g]
          /\ (disp' = disp /\ done[f] # "none") \/ disp' = "crashed"
          /\ pending' = pending \/ pending' = [pending EXCEPT ![f] = @ \ (t .. u)]
          /\ UNCHANGED <<ctl, made, done, dispQ, poolQ, work, loop, notStop, ran, ended, lost>>
    BY <1>a, <1>11, HandedOver
  <2> QED BY <1>a, <1>b, <1>c, <2>1 DEF Phases
<1>12. ASSUME NEW f \in Finals, FinalExit(f) PROVE Phases'
  <2>1. /\ loop[f] = "on" /\ f \in notStop /\ notQ[f] = {} /\ loop' = [loop EXCEPT ![f] = "ended"]
        /\ UNCHANGED <<ctl, made, done, dispQ, disp, poolQ, work, lost, ran, ended, notQ, notStop, pending, delivered>>
    BY <1>12 DEF FinalExit, MayEnd, NothingQueued
  <2> QED BY <1>a, <1>b, <1>c, <2>1 DEF Phases
<1>13. ASSUME StopNodes \/ StopPool \/ StopDisp \/ DispJoined PROVE Phases'
  <2>1. UNCHANGED <<made, done, dispQ, disp, poolQ, work, lost, ran, ended, notQ, loop, notStop, pending, delivered>>
    BY <1>13 DEF StopNodes, StopPool, StopDisp, DispJoined
  <2>2. \/ ctl \in {"config", "running"} /\ ctl' = "nodes"
        \/ ctl = "nodes" /\ ctl' = "pool"
        \/ ctl = "pool" /\ ctl' = "disp" /\ \A w \in Workers : work[w].st = "exited"
        \/ ctl = "disp" /\ ctl' = "notif" /\ disp \in {"off", "ended"}
    BY <1>13 DEF StopNodes, StopPool, StopDisp, DispJoined
  <2> QED BY <1>a, <2>1, <2>2 DEF Phases
<1>14. ASSUME NEW f \in Finals, StopFinal(f) PROVE Phases'
  <2>1. /\ ctl = "notif" /\ notStop' = notStop \cup {f}
        /\ UNCHANGED <<ctl, made, done, dispQ, disp, poolQ, work, lost, ran, ended, notQ, loop, pending, delivered>>
    BY <1>14 DEF StopFinal
  <2> QED BY <1>a, <1>b, <2>1 DEF Phases
<1>15. ASSUME StopEnd PROVE Phases'
  <2>1. /\ ctl = "notif" /\ ctl' = "stopped" /\ pending' = [f \in Finals |-> {}]
        /\ \A f \in Registered : loop[f] = "ended"
        /\ UNCHANGED <<made, done, dispQ, disp, poolQ, work, lost, ran, ended, notQ, loop, notStop, delivered>>
    BY <1>15 DEF StopEnd, Joined
  <2> QED BY <1>a, <1>b, <2>1 DEF Phases
<1>16. ASSUME \/ \E n \in Nodes : AddPipeNode(n) \/ ReplacePipeNode(n)
              \/ \E l \in Listeners : AddListener(l)
              \/ SubmitCount \/ SubmitWait \/ SubmitWake
       PROVE Phases'
  <2>1. UNCHANGED <<ctl, made, done, dispQ, disp, poolQ, work, lost, ran, ended, notQ, loop, notStop, pending, delivered>>
    BY <1>16 DEF AddPipeNode, ReplacePipeNode, AddListener, SubmitCount, SubmitWait, SubmitWake
  <2> QED BY <1>a, <2>1 DEF Phases
<1> QED
  BY <1>1, <1>2, <1>3, <1>4, <1>5, <1>6, <1>7, <1>8, <1>9, <1>10, <1>11, <1>12, <1>13, <1>14, <1>15, <1>16
     DEF Next, Configuration, Submit, Worker, FinalLoop, Stop

(* The pool's queue takes tasks at its end and gives them from its front.    *)
LEMMA PoolAppended ==
  ASSUME NEW S, poolQ \in Seq(S), NEW t \in S, poolQ' = Append(poolQ, t)
  PROVE  /\ \A x : InPool(x)' <=> InPool(x) \/ x = t
         /\ (~InPool(t) /\ \A i, j \in DOMAIN poolQ : poolQ[i] = poolQ[j] => i = j) =>
              \A i, j \in DOMAIN poolQ' : poolQ'[i] = poolQ'[j] => i = j
<1> DEFINE n == Len(poolQ)
<1>1. n \in Nat /\ DOMAIN poolQ = 1 .. n /\ DOMAIN poolQ' = 1 .. n + 1
  OBVIOUS
<1>2. poolQ'[n + 1] = t /\ \A i \in 1 .. n : poolQ'[i] = poolQ[i]
  OBVIOUS
<1>3. \A i \in 1 .. n + 1 : i \in 1 .. n \/ i = n + 1
  BY <1>1
<1>4. \A i \in 1 .. n : i \in 1 .. n + 1
  BY <1>1
<1>5. n + 1 \in 1 .. n + 1
  BY <1>1
<1> HIDE DEF n
<1>6. ASSUME NEW x PROVE InPool(x)' <=> InPool(x) \/ x = t
  BY <1>1, <1>2, <1>3, <1>4, <1>5 DEF InPool
<1>7. ASSUME ~InPool(t), \A i, j \in DOMAIN poolQ : poolQ[i] = poolQ[j] => i = j,
             NEW i \in DOMAIN poolQ', NEW j \in DOMAIN poolQ', poolQ'[i] = poolQ'[j]
      PROVE  i = j
  BY <1>1, <1>2, <1>3, <1>7 DEF InPool
<1> QED BY <1>6, <1>7

(* Taking the head of the pool's queue takes that task out of it, and no     *)
(* other one.                                                                *)
LEMMA PoolTaken ==
  ASSUME NEW S, poolQ \in Seq(S), poolQ # <<>>, poolQ' = Tail(poolQ),
         \A i, j \in DOMAIN poolQ : poolQ[i] = poolQ[j] => i = j
  PROVE  /\ \A x : InPool(x)' <=> InPool(x) /\ x # Head(poolQ)
         /\ InPool(Head(poolQ))
         /\ \A i, j \in DOMAIN poolQ' : poolQ'[i] = poolQ'[j] => i = j
<1> DEFINE n == Len(poolQ)
<1>1. n \in Nat \ {0} /\ DOMAIN poolQ = 1 .. n /\ DOMAIN poolQ' = 1 .. n - 1
  OBVIOUS
<1>2. Head(poolQ) = poolQ[1] /\ \A i \in 1 .. n - 1 : poolQ'[i] = poolQ[i + 1]
  OBVIOUS
<1>3. \A i \in 1 .. n : i # 1 => i - 1 \in 1 .. n - 1 /\ (i - 1) + 1 = i
  BY <1>1
<1>4. \A i \in 1 .. n - 1 : i + 1 \in 1 .. n /\ i + 1 # 1
  BY <1>1
<1>5. 1 \in 1 .. n
  BY <1>1
<1>6. \A i, j \in 1 .. n - 1 : i + 1 = j + 1 => i = j
  BY <1>1
<1> HIDE DEF n
<1>7. ASSUME NEW x, InPool(x)' PROVE InPool(x) /\ x # Head(poolQ)
  <2>1. PICK i \in 1 .. n - 1 : poolQ'[i] = x
    BY <1>1, <1>7 DEF InPool
  <2>2. poolQ[i + 1] = x /\ i + 1 \in 1 .. n /\ i + 1 # 1
    BY <1>2, <1>4, <2>1
  <2> QED BY <1>1, <1>2, <1>5, <2>2 DEF InPool
<1>8. ASSUME NEW x, InPool(x), x # Head(poolQ) PROVE InPool(x)'
  <2>1. PICK i \in 1 .. n : poolQ[i] = x
    BY <1>1, <1>8 DEF InPool
  <2>2. i # 1
    BY <1>2, <1>8, <2>1
  <2>3. i - 1 \in 1 .. n - 1 /\ poolQ'[i - 1] = x
    BY <1>2, <1>3, <2>1, <2>2
  <2> QED BY <1>1, <2>3 DEF InPool
<1>9. InPool(Head(poolQ))
  BY <1>1, <1>2, <1>5 DEF InPool
<1>10. ASSUME NEW i \in DOMAIN poolQ', NEW j \in DOMAIN poolQ', poolQ'[i] = poolQ'[j]
       PROVE  i = j
  <2>1. i + 1 = j + 1
    BY <1>1, <1>2, <1>4, <1>10
  <2> QED BY <1>1, <1>6, <2>1
<1> QED BY <1>7, <1>8, <1>9, <1>10

(* Handing a run of tasks over keeps each of them with the notifier.         *)
LEMMA HandOverKeeps ==
  ASSUME OrderInv, TaskTypesOK, QueueTypes, disp # "crashed", NEW f \in Finals,
         FinalHandOver(f) \/ FinalUnbound(f)
  PROVE  \A g \in Finals : \A x \in Tasks : Has(g, x)' <=> Has(g, x)
<1>1. PICK t \in 1 .. made, u \in 1 .. made :
        /\ t <= u /\ t = Len(delivered[f]) + 1 /\ t \in notQ[f] /\ t + 1 .. u \subseteq pending[f]
        /\ notQ' = [notQ EXCEPT ![f] = @ \ {t}]
        /\ Len(delivered'[f]) = u /\ \A g \in Finals \ {f} : delivered'[g] = delivered[g]
        /\ pending' = [pending EXCEPT ![f] = @ \ (t .. u)] \/ pending' = pending
  <2>1. PICK t \in 1 .. made, u \in 1 .. made :
          /\ t <= u /\ t = Len(delivered[f]) + 1 /\ t \in notQ[f] /\ t + 1 .. u \subseteq pending[f]
          /\ notQ' = [notQ EXCEPT ![f] = @ \ {t}]
          /\ Len(delivered'[f]) = u /\ \A g \in Finals \ {f} : delivered'[g] = delivered[g]
          /\ \/ pending' = [pending EXCEPT ![f] = @ \ (t .. u)]
             \/ UNCHANGED <<pending, expect, count>>
    BY HandedOver, SMTT(30)
  <2> QED BY <2>1
<1>2. /\ notQ \in [Finals -> SUBSET (1 .. made)] /\ pending \in [Finals -> SUBSET Tasks]
      /\ made \in Nat /\ Len(delivered[f]) \in Nat
  BY NotificationAssumption DEF OrderInv, NotifierTypes, TaskTypesOK, QueueTypes
<1>3. ASSUME NEW g \in Finals \ {f}, NEW x \in Tasks PROVE Has(g, x)' <=> Has(g, x)
  BY <1>1, <1>2 DEF Has
<1>4. ASSUME NEW x \in Tasks PROVE Has(f, x)' <=> Has(f, x)
  <2>1. Has(f, x)' <=> x \in notQ[f] \ {t} \/ x \in pending'[f] \/ x <= u
    BY <1>1, <1>2 DEF Has
  <2>2. pending'[f] \subseteq pending[f] /\ pending[f] \subseteq pending'[f] \cup (t .. u)
    BY <1>1, <1>2
  <2>3. x <= u => x <= Len(delivered[f]) \/ x = t \/ x \in t + 1 .. u
    BY <1>1, <1>2 DEF Tasks
  <2>4. t <= u /\ (x <= Len(delivered[f]) => x <= u) /\ (x \in t .. u => x <= u)
    BY <1>1, <1>2 DEF Tasks
  <2> QED BY <1>1, <2>1, <2>2, <2>3, <2>4 DEF Has
<1> QED BY <1>3, <1>4

(* A step that moves no task but inside a FINAL notifier or a worker keeps   *)
(* every task at its place.                                                  *)
LEMMA PlacesKept ==
  ASSUME OnePlace, NoneDropped, UNCHANGED <<made, dispQ, poolQ, lost, done>>,
         \A w \in Workers : \A t \in Tasks : Holds(w, t)' <=> Holds(w, t),
         \A f \in Finals : \A t \in Tasks : Has(f, t)' <=> Has(f, t),
         ctl' = ctl \/ ctl # "stopped", 1 .. made \subseteq Tasks
  PROVE  OnePlace' /\ NoneDropped'
<1>1. \A t \in Tasks : (Held(t)' <=> Held(t)) /\ (InPool(t)' <=> InPool(t))
  BY DEF Held, InPool
<1>2. OnePlace'
  BY <1>1 DEF OnePlace
<1>3. NoneDropped'
  BY <1>1 DEF NoneDropped, Registered
<1> QED BY <1>2, <1>3

(* Every task is at one place, and none is dropped.                          *)
LEMMA PlacesStep == ASSUME TaskInv, [Next]_vars PROVE OnePlace' /\ NoneDropped'
<1> USE DEF cfgVars, notVars, subVars, runVars
<1> DEFINE Good == OnePlace' /\ NoneDropped'
<1>a. TaskTypesOK /\ QueueTypes /\ OrderInv /\ Phases /\ OnePlace /\ NoneDropped
  BY DEF TaskInv
<1>b. /\ made \in Nat /\ MaxTask \in Nat /\ 1 .. made \subseteq Tasks
      /\ dispQ \subseteq 1 .. made /\ poolQ \in Seq(1 .. made) /\ lost \subseteq 1 .. made
      /\ notQ \in [Finals -> SUBSET (1 .. made)] /\ notStop \subseteq Registered
      /\ pending \in [Finals -> SUBSET Tasks] /\ delivered \in [Finals -> Seq(Tasks)]
      /\ \A f \in Finals : pending[f] \subseteq 1 .. made /\ Len(delivered[f]) <= made
      /\ work \in [Workers -> [st : {"idle", "run", "queue", "listen", "exited"},
                               t : (1 .. made) \cup {NoTask}, n : Nodes \cup {"none"}]]
      /\ \A w \in Workers : work[w].st \in {"run", "queue", "listen"} => work[w].t \in 1 .. made
  BY <1>a, NotificationAssumption DEF TaskTypesOK, QueueTypes, OrderInv, NotifierTypes, Tasks
<1>c. \A f \in Finals : \A t \in Tasks : Has(f, t) => t \in 1 .. made
  BY <1>b DEF Has, Tasks
<1>d. \A t \in Tasks : (InPool(t) => t \in 1 .. made) /\ (Held(t) => t \in 1 .. made)
  BY <1>b DEF InPool, Held, Holds
<1>e. \A i, j \in DOMAIN poolQ : poolQ[i] = poolQ[j] => i = j
  BY <1>a DEF OnePlace
<1>1. ASSUME UNCHANGED vars PROVE Good
  <2>1. UNCHANGED <<made, dispQ, poolQ, lost, done, ctl, work, notQ, pending, delivered>>
    BY <1>1 DEF vars
  <2> QED BY <1>a, <1>b, <2>1, PlacesKept DEF Holds, Has
<1>2. ASSUME NEW f \in Finals, AddFinal(f) PROVE Good
  <2>1. /\ ctl = "config" /\ UNCHANGED <<ctl, made, dispQ, poolQ, lost, work, notQ, pending, delivered>>
    BY <1>2 DEF AddFinal
  <2>2. OnePlace'
    BY <1>a, <2>1 DEF OnePlace, InPool, Held, Holds, Has
  <2>3. dispQ = 1 .. made
    BY <1>a, <2>1 DEF Phases
  <2> QED BY <2>1, <2>2, <2>3 DEF NoneDropped
<1>3. ASSUME SubmitQueue PROVE Good
  <2>1. /\ made' = made + 1 /\ dispQ' = dispQ \cup {made + 1}
        /\ UNCHANGED <<ctl, done, poolQ, lost, work, notQ, pending, delivered>>
    BY <1>3 DEF SubmitQueue, Emplaced
  <2>2. /\ made + 1 \notin 1 .. made
        /\ \A t \in 1 .. made' : t \in 1 .. made \/ t = made + 1
    BY <1>b, <2>1
  <2>3. \A t \in Tasks : /\ InPool(t)' <=> InPool(t)
                         /\ Held(t)' <=> Held(t)
                         /\ \A w \in Workers : Holds(w, t)' <=> Holds(w, t)
                         /\ \A f \in Finals : Has(f, t)' <=> Has(f, t)
    BY <2>1 DEF InPool, Held, Holds, Has
  <2>4. OnePlace'
    BY <1>a, <1>b, <1>c, <1>d, <2>1, <2>2, <2>3 DEF OnePlace
  <2>5. NoneDropped'
    <3>1. \A t \in 1 .. made : t \in Tasks
      BY <1>b
    <3> QED BY <1>a, <2>1, <2>2, <2>3, <3>1 DEF NoneDropped, Registered
  <2> QED BY <2>4, <2>5
<1>4. ASSUME Dispatch PROVE Good
  <2>1. PICK t \in dispQ :
          /\ t \in Tasks /\ disp = "on" /\ dispQ' = dispQ \ {t}
          /\ ToPool(t) \/ \E status \in Statuses : ToFinals(t, status)
          /\ UNCHANGED <<ctl, done, made, work, notStop, pending, delivered, lost>>
    BY <1>a, <1>4, Dispatched
  <2>2. \A x \in Tasks : /\ Held(x)' <=> Held(x)
                         /\ \A w \in Workers : Holds(w, x)' <=> Holds(w, x)
    BY <2>1 DEF Held, Holds
  <2>3. ~InPool(t) /\ ~Held(t) /\ t \notin lost /\ \A f \in Finals : ~Has(f, t)
    BY <1>a, <2>1 DEF OnePlace
  <2>4. CASE ToPool(t)
    <3>1. poolQ' = Append(poolQ, t) /\ notQ' = notQ
      BY <2>4 DEF ToPool
    <3>2. \A x \in Tasks : \A f \in Finals : Has(f, x)' <=> Has(f, x)
      BY <2>1, <3>1 DEF Has
    <3>3. /\ \A x : InPool(x)' <=> InPool(x) \/ x = t
          /\ \A i, j \in DOMAIN poolQ' : poolQ'[i] = poolQ'[j] => i = j
      <4> DEFINE S == 1 .. made
      <4>1. poolQ \in Seq(S) /\ t \in S
        BY <1>b
      <4> HIDE DEF S
      <4> QED BY <1>e, <2>3, <3>1, <4>1, PoolAppended
    <3>4. OnePlace'
      BY <1>a, <2>1, <2>2, <2>3, <3>2, <3>3 DEF OnePlace
    <3>5. NoneDropped'
      BY <1>a, <1>b, <2>1, <2>2, <3>2, <3>3 DEF NoneDropped, Registered
    <3> QED BY <3>4, <3>5
  <2>5. ASSUME NEW status \in Statuses, ToFinals(t, status) PROVE Good
    <3>1. /\ poolQ' = poolQ
          /\ notQ' = [f \in Finals |-> IF f \in Notified THEN notQ[f] \cup {t} ELSE notQ[f]]
      BY <2>5 DEF ToFinals
    <3>2. \A x \in Tasks : InPool(x)' <=> InPool(x)
      BY <3>1 DEF InPool
    <3>3. \A f \in Finals : \A x \in Tasks : Has(f, x)' <=> Has(f, x) \/ (f \in Notified /\ x = t)
      BY <2>1, <3>1 DEF Has
    <3>4. notStop = {}
      BY <1>a, <2>1 DEF Phases
    <3>5. OnePlace'
      BY <1>a, <1>e, <2>1, <2>2, <2>3, <3>1, <3>2, <3>3 DEF OnePlace
    <3>6. NoneDropped'
      BY <1>a, <1>b, <2>1, <2>2, <3>2, <3>3, <3>4 DEF NoneDropped, Registered, Notified
    <3> QED BY <3>5, <3>6
  <2> QED BY <2>1, <2>4, <2>5
<1>5. ASSUME NEW w \in Workers, WorkTake(w) PROVE Good
  <2> DEFINE h == Head(poolQ)
             r == [st |-> "run", t |-> h, n |-> Head(task[h].todo)]
  <2>1. /\ work[w].st = "idle" /\ poolQ # <<>> /\ work' = [work EXCEPT ![w] = r] /\ poolQ' = Tail(poolQ)
        /\ UNCHANGED <<ctl, done, made, dispQ, lost, notQ, pending, delivered>>
    BY <1>5 DEF WorkTake
  <2>2. r.st = "run" /\ r.t = h
    OBVIOUS
  <2>3. /\ \A x : InPool(x)' <=> InPool(x) /\ x # h
        /\ InPool(h)
        /\ \A i, j \in DOMAIN poolQ' : poolQ'[i] = poolQ'[j] => i = j
    <3> DEFINE S == 1 .. made
    <3>1. poolQ \in Seq(S)
      BY <1>b
    <3> HIDE DEF S
    <3> QED BY <1>e, <2>1, <3>1, PoolTaken
  <2> HIDE DEF r, h
  <2>4. \A v \in Workers : \A x \in Tasks : Holds(v, x)' <=> Holds(v, x) \/ (v = w /\ x = h)
    BY <1>b, <2>1, <2>2 DEF Holds
  <2>5. \A x \in Tasks : Held(x)' <=> Held(x) \/ x = h
    BY <2>4 DEF Held
  <2>6. \A f \in Finals : \A x \in Tasks : Has(f, x)' <=> Has(f, x)
    BY <2>1 DEF Has
  <2>7. h \in Tasks
    <3>1. poolQ[1] \in 1 .. made /\ h = poolQ[1]
      BY <1>b, <2>1 DEF h
    <3> QED BY <1>b, <3>1
  <2>8. ~Held(h) /\ \A v \in Workers : ~Holds(v, h)
    BY <1>a, <2>3, <2>7 DEF OnePlace, Held
  <2>9. OnePlace'
    BY <1>a, <2>1, <2>3, <2>4, <2>5, <2>6, <2>7, <2>8 DEF OnePlace
  <2>10. NoneDropped'
    BY <1>a, <1>b, <2>1, <2>3, <2>5, <2>6 DEF NoneDropped, Registered
  <2> QED BY <2>9, <2>10
<1>6. ASSUME NEW w \in Workers, WorkThrow(w) \/ WorkQueue(w) PROVE Good
  <2> DEFINE h == work[w].t
             s == IF WorkQueue(w) THEN "listen" ELSE "idle"
  <2>1. /\ work[w].st \in {"run", "queue"} /\ UNCHANGED <<ctl, done, made, poolQ, notQ, pending, delivered>>
        /\ \/ lost' = lost \cup {h} /\ dispQ' = dispQ
           \/ dispQ' = dispQ \cup {h} /\ lost' = lost
           \/ DispStop
    BY <1>6 DEF WorkThrow, WorkQueue, Emplaced
  <2>2. ~DispStop
    BY <1>a, <2>1 DEF Phases
  <2>3. work' = [work EXCEPT ![w] = NoWork] \/ work' = [work EXCEPT ![w].st = "listen"]
    BY <1>6 DEF WorkThrow, WorkQueue
  <2>4. h \in Tasks /\ Holds(w, h)
    BY <1>b, <2>1 DEF Holds
  <2> HIDE DEF h
  <2>5. \A v \in Workers : \A x \in Tasks : Holds(v, x)' <=> Holds(v, x) /\ v # w
    BY <1>b, <2>3 DEF Holds, NoWork
  <2>6. \A v \in Workers : Holds(v, h) => v = w
    BY <1>a, <2>4 DEF OnePlace
  <2>7. \A x \in Tasks : Holds(w, x) => x = h
    BY DEF Holds, h
  <2>8. \A x \in Tasks : Held(x)' <=> Held(x) /\ x # h
    BY <2>5, <2>6, <2>7 DEF Held
  <2>9. \A x \in Tasks : (InPool(x)' <=> InPool(x)) /\ \A f \in Finals : Has(f, x)' <=> Has(f, x)
    BY <2>1 DEF InPool, Has
  <2>10. ~InPool(h) /\ h \notin dispQ /\ h \notin lost /\ \A f \in Finals : ~Has(f, h)
    BY <1>a, <2>4 DEF OnePlace, Held
  <2>11. OnePlace'
    BY <1>a, <1>e, <2>1, <2>2, <2>4, <2>5, <2>8, <2>9, <2>10 DEF OnePlace
  <2>12. NoneDropped'
    BY <1>a, <1>b, <2>1, <2>2, <2>8, <2>9 DEF NoneDropped, Registered
  <2> QED BY <2>11, <2>12
<1>7. ASSUME NEW w \in Workers, WorkExit(w) \/ WorkRun(w) \/ WorkListen(w) PROVE Good
  <2>1. UNCHANGED <<ctl, done, made, dispQ, poolQ, lost, notQ, pending, delivered>>
    BY <1>7 DEF WorkExit, WorkRun, WorkListen
  <2>2. \/ work[w].st = "idle" /\ work' = [work EXCEPT ![w].st = "exited"]
        \/ work[w].st = "run" /\ work' = [work EXCEPT ![w].st = "queue"]
        \/ work[w].st = "listen" /\ work' = [work EXCEPT ![w] = NoWork]
    BY <1>7 DEF WorkExit, WorkRun, WorkListen
  <2>3. \A v \in Workers : \A x \in Tasks : Holds(v, x)' <=> Holds(v, x)
    <3>1. CASE work[w].st = "idle" /\ work' = [work EXCEPT ![w].st = "exited"]
      BY <1>b, <3>1 DEF Holds
    <3>2. CASE work[w].st = "run" /\ work' = [work EXCEPT ![w].st = "queue"]
      BY <1>b, <3>2 DEF Holds
    <3>3. CASE work[w].st = "listen" /\ work' = [work EXCEPT ![w] = NoWork]
      BY <1>b, <3>3 DEF Holds, NoWork
    <3> QED BY <2>2, <3>1, <3>2, <3>3
  <2>4. \A f \in Finals : \A x \in Tasks : Has(f, x)' <=> Has(f, x)
    BY <2>1 DEF Has
  <2> QED BY <1>a, <1>b, <2>1, <2>3, <2>4, PlacesKept
<1>8. ASSUME NEW f \in Finals, FinalHold(f) PROVE Good
  <2>1. PICK t \in Tasks : Takes(f, t) /\ pending' = [pending EXCEPT ![f] = @ \cup {t}]
    BY <1>8 DEF FinalHold
  <2>2. t \in notQ[f] /\ notQ' = [notQ EXCEPT ![f] = @ \ {t}]
    BY <2>1, SchedulableIn DEF Takes
  <2>3. UNCHANGED <<ctl, done, made, dispQ, poolQ, lost, work, delivered>>
    BY <1>8 DEF FinalHold
  <2>4. \A g \in Finals : \A x \in Tasks : Has(g, x)' <=> Has(g, x)
    BY <1>b, <2>1, <2>2, <2>3 DEF Has
  <2>5. \A v \in Workers : \A x \in Tasks : Holds(v, x)' <=> Holds(v, x)
    BY <2>3 DEF Holds
  <2> QED BY <1>a, <1>b, <2>3, <2>4, <2>5, PlacesKept
<1>9. ASSUME NEW f \in Finals, FinalHandOver(f) \/ FinalUnbound(f), disp # "crashed" PROVE Good
  <2>1. \A g \in Finals : \A x \in Tasks : Has(g, x)' <=> Has(g, x)
    BY <1>a, <1>9, HandOverKeeps
  <2>2. UNCHANGED <<ctl, done, made, dispQ, poolQ, lost, work>>
    BY <1>9 DEF FinalHandOver, FinalUnbound
  <2>3. \A v \in Workers : \A x \in Tasks : Holds(v, x)' <=> Holds(v, x)
    BY <2>2 DEF Holds
  <2> QED BY <1>a, <1>b, <2>1, <2>2, <2>3, PlacesKept
<1>10. ASSUME StopEnd PROVE Good
  <2>1. /\ ctl' = "stopped" /\ pending' = [f \in Finals |-> {}]
        /\ UNCHANGED <<made, dispQ, poolQ, lost, work, notQ, delivered>>
    BY <1>10 DEF StopEnd
  <2>2. \A x \in Tasks : /\ InPool(x)' <=> InPool(x)
                         /\ Held(x)' <=> Held(x)
                         /\ \A w \in Workers : Holds(w, x)' <=> Holds(w, x)
                         /\ \A f \in Finals : Has(f, x)' => Has(f, x)
    BY <2>1 DEF InPool, Held, Holds, Has
  <2>3. OnePlace'
    BY <1>a, <2>1, <2>2 DEF OnePlace
  <2> QED BY <2>1, <2>3 DEF NoneDropped
<1>11. ASSUME \/ \E n \in Nodes : AddPipeNode(n) \/ ReplacePipeNode(n)
              \/ \E l \in Listeners : AddListener(l)
              \/ Start \/ SubmitCount \/ SubmitWait \/ SubmitWake \/ DispExit
              \/ StopNodes \/ StopPool \/ StopDisp \/ DispJoined
              \/ \E f \in Finals : FinalExit(f) \/ StopFinal(f)
       PROVE Good
  <2>1. UNCHANGED <<made, dispQ, poolQ, lost, done, work, notQ, pending, delivered>>
    BY <1>11 DEF AddPipeNode, ReplacePipeNode, AddListener, Start, SubmitCount, SubmitWait, SubmitWake,
                 DispExit, StopNodes, StopPool, StopDisp, DispJoined, FinalExit, StopFinal
  <2>2. ctl' = ctl \/ ctl # "stopped"
    BY <1>11 DEF AddPipeNode, ReplacePipeNode, AddListener, Start, SubmitCount, SubmitWait, SubmitWake,
                 DispExit, StopNodes, StopPool, StopDisp, DispJoined, FinalExit, StopFinal
  <2> QED BY <1>a, <1>b, <2>1, <2>2, PlacesKept DEF Holds, Has
<1> QED
  BY <1>1, <1>2, <1>3, <1>4, <1>5, <1>6, <1>7, <1>8, <1>9, <1>10, <1>11
     DEF Next, Configuration, Submit, Worker, FinalLoop, Stop

(* The task a notifier expects is not among the ones it holds back.          *)
LEMMA NotPendingStep == ASSUME TaskInv, [Next]_vars PROVE NotPending'
<1> USE DEF cfgVars, notVars, subVars, runVars
<1>a. /\ TaskTypesOK /\ QueueTypes /\ OrderInv /\ NotPending
      /\ pending \in [Finals -> SUBSET Tasks] /\ expect \in [Finals -> Nat \ {0}]
  BY DEF TaskInv, OrderInv, NotifierTypes
<1>1. ASSUME UNCHANGED <<pending, expect>>, disp' = disp \/ disp # "crashed" PROVE NotPending'
  BY <1>a, <1>1 DEF NotPending
<1>2. ASSUME UNCHANGED vars PROVE NotPending'
  BY <1>1, <1>2 DEF vars
<1>3. ASSUME NEW f \in Finals, FinalHold(f) PROVE NotPending'
  <2>1. PICK t \in Tasks : ~Expected(f, t) /\ pending' = [pending EXCEPT ![f] = @ \cup {t}]
    BY <1>3 DEF FinalHold
  <2>2. UNCHANGED <<expect, disp>>
    BY <1>3 DEF FinalHold
  <2> QED BY <1>a, <2>1, <2>2 DEF NotPending, Expected
<1>4. ASSUME NEW f \in Finals, FinalHandOver(f) \/ FinalUnbound(f), disp # "crashed" PROVE NotPending'
  <2>1. PICK t \in 1 .. made, u \in 1 .. made :
          \/ /\ u + 1 \notin pending[f] /\ pending' = [pending EXCEPT ![f] = @ \ (t .. u)]
             /\ expect' = [expect EXCEPT ![f] = u + 1]
          \/ disp' = "crashed"
    BY <1>a, <1>4, HandedOver
  <2> QED BY <1>a, <1>4, <2>1 DEF NotPending
<1>5. ASSUME StopEnd PROVE NotPending'
  BY <1>5 DEF StopEnd, NotPending
<1>6. ASSUME disp # "crashed",
             \/ Configuration \/ Submit \/ Dispatch \/ DispExit \/ \E w \in Workers : Worker(w)
             \/ StopNodes \/ StopPool \/ StopDisp \/ DispJoined
             \/ \E f \in Finals : FinalExit(f) \/ StopFinal(f)
      PROVE NotPending'
  <2>1. UNCHANGED <<pending, expect>>
    BY <1>6 DEF Configuration, AddPipeNode, ReplacePipeNode, AddFinal, AddListener, Start,
                Submit, SubmitQueue, SubmitCount, SubmitWait, SubmitWake, Dispatch, DispExit,
                Worker, WorkTake, WorkExit, WorkRun, WorkThrow, WorkQueue, WorkListen,
                StopNodes, StopPool, StopDisp, DispJoined, FinalExit, StopFinal
  <2> QED BY <1>1, <1>6, <2>1
<1> QED BY <1>2, <1>3, <1>4, <1>5, <1>6 DEF Next, FinalLoop, Stop

(* A worker runs its task on the next node of the path, which the task has   *)
(* not been at.                                                              *)
LEMMA RunsNext ==
  ASSUME TaskInv, NEW w \in Workers, work[w].st = "run"
  PROVE  LET t == work[w].t
             k == Len(ran[t]) IN
           /\ t \in 1 .. made /\ t \in Tasks /\ t \notin early /\ OnPath(t) /\ task[t].status = "OK"
           /\ k \in Nat /\ k < Len(Path) /\ work[w].n = Path[k + 1] /\ work[w].n \in Nodes
           /\ RanOn(t) = {Path[i] : i \in 1 .. k} /\ work[w].n \notin ended[t]
           /\ \A v \in Workers : Holds(v, t) => v = w
           /\ ~InPool(t) /\ \A f \in Finals : ~Has(f, t)
<1> DEFINE t == work[w].t
           n == work[w].n
           k == Len(ran[t])
<1>a. TaskTypesOK /\ QueueTypes /\ Routes /\ OnePlace
  BY DEF TaskInv
<1>1. t \in 1 .. made /\ t \in Tasks /\ n \in Nodes
  BY <1>a, NotificationAssumption DEF QueueTypes, TaskTypesOK, NoTask, Tasks
<1>2. task[t].todo # <<>> /\ n = Head(task[t].todo)
  BY <1>a DEF Routes
<1>3. t \notin early /\ OnPath(t)
  BY <1>a, <1>1, <1>2 DEF Routes, Fresh
<1>4. task[t].status = "OK"
  BY <1>a, <1>1, <1>2, <1>3 DEF OnPath, TaskTypesOK, Statuses
<1>5. Holds(w, t)
  BY DEF Holds
<1>6. /\ \A v \in Workers : Holds(v, t) => v = w
      /\ ~InPool(t) /\ \A f \in Finals : ~Has(f, t)
  BY <1>a, <1>1, <1>5 DEF OnePlace, Held
<1> HIDE DEF t, n
<1>7. ran[t] \in Seq(Nodes) /\ task[t].todo \in Seq(Nodes) /\ Path \in Seq(Nodes)
  BY <1>a, <1>1, NotificationAssumption DEF TaskTypesOK
<1>8. /\ k <= Len(Path) /\ \A i \in 1 .. k : ran[t][i] = Path[i]
      /\ Len(task[t].todo) = Len(Path) - k
      /\ \A i \in 1 .. Len(Path) - k : task[t].todo[i] = Path[k + i]
      /\ ended[t] = RanOn(t)
  BY <1>3, <1>4 DEF OnPath
<1>9. k \in Nat /\ Len(Path) \in Nat /\ DOMAIN ran[t] = 1 .. k /\ DOMAIN Path = 1 .. Len(Path)
      /\ Len(task[t].todo) \in Nat \ {0} /\ n = task[t].todo[1]
  BY <1>2, <1>7
<1> HIDE DEF k
<1>10. k < Len(Path) /\ n = Path[k + 1]
  <2>1. PICK m \in Nat \ {0} : m = Len(task[t].todo)
    BY <1>9
  <2>2. PICK p \in Nat : p = Len(Path)
    BY <1>9
  <2>3. m = p - k
    BY <1>8, <2>1, <2>2
  <2>4. k < p /\ 1 \in 1 .. p - k
    BY <1>9, <2>3
  <2> QED BY <1>8, <1>9, <2>2, <2>4
<1>11. RanOn(t) = {Path[i] : i \in 1 .. k}
  BY <1>8, <1>9 DEF RanOn
<1>12. n \notin ended[t]
  <2>1. \A i \in 1 .. k : i \in DOMAIN Path /\ k + 1 \in DOMAIN Path /\ i # k + 1
    BY <1>9, <1>10
  <2> QED BY <1>8, <1>10, <1>11, <2>1, NotificationAssumption
<1> QED BY <1>1, <1>3, <1>4, <1>6, <1>9, <1>10, <1>11, <1>12 DEF t, n, k

(* What the callback leaves is a task further on the path, or off it.        *)
LEMMA CallbackOnPath ==
  ASSUME TaskInv, NEW w \in Workers, WorkRun(w), NEW t, t = work[w].t, NEW n, n = work[w].n
  PROVE  OnPath(t)' /\ \A x \in RanOn(t)' : x \in RanOn(t) \/ x = n
<1>1. work[w].st = "run"
  BY DEF WorkRun
<1>2. PICK k \in Nat :
      /\ k = Len(ran[t]) /\ t \in Tasks /\ OnPath(t) /\ task[t].status = "OK"
      /\ k < Len(Path) /\ n = Path[k + 1] /\ n \in Nodes
      /\ RanOn(t) = {Path[i] : i \in 1 .. k}
  BY <1>1, RunsNext
<1>3. /\ task \in [Tasks -> [todo : Seq(Nodes), status : Statuses, note : Statuses]]
      /\ ran \in [Tasks -> Seq(Nodes)] /\ ended \in [Tasks -> SUBSET Nodes] /\ Path \in Seq(Nodes)
  BY NotificationAssumption DEF TaskInv, TaskTypesOK
<1>4. PICK r \in Outcomes \ {"throw"} :
        /\ task' = [task EXCEPT ![t] = AfterCallback(@, r = "ok")]
        /\ ran' = IF r = "ok" THEN [ran EXCEPT ![t] = Append(@, n)] ELSE ran
  BY DEF WorkRun
<1>5. ended' = [ended EXCEPT ![t] = @ \cup {n}]
  BY DEF WorkRun
<1>6. /\ \A i \in 1 .. k : ran[t][i] = Path[i]
      /\ Len(task[t].todo) = Len(Path) - k
      /\ \A i \in 1 .. Len(Path) - k : task[t].todo[i] = Path[k + i]
      /\ ended[t] = RanOn(t)
  BY <1>2 DEF OnPath
<1>7. ended'[t] = RanOn(t) \cup {n}
  BY <1>2, <1>3, <1>5, <1>6
<1>p. PICK p \in Nat : p = Len(Path)
  BY <1>3
<1>8. Len(Path) \in Nat /\ ran[t] \in Seq(Nodes) /\ task[t].todo \in Seq(Nodes)
  BY <1>2, <1>3
<1>9. CASE r = "ok"
  <2>1. ran'[t] = Append(ran[t], n) /\ task'[t] = [task[t] EXCEPT !.todo = Tail(@)]
    BY <1>2, <1>3, <1>4, <1>9 DEF AfterCallback
  <2>2. task'[t].todo = Tail(task[t].todo) /\ task'[t].status = "OK"
    BY <1>2, <1>3, <2>1
  <2>3. Len(ran'[t]) = k + 1 /\ ran'[t] \in Seq(Nodes) /\ DOMAIN ran'[t] = 1 .. k + 1
    BY <1>2, <1>8, <2>1
  <2>4. ran'[t][k + 1] = n /\ \A i \in 1 .. k : ran'[t][i] = ran[t][i]
    BY <1>2, <1>8, <2>1
  <2> DEFINE q == task[t].todo
  <2>5. PICK m \in Nat \ {0} : m = p - k
    BY <1>2, <1>p
  <2>m. Len(q) = m
    BY <1>6, <1>p, <2>5
  <2>6. Len(Tail(q)) = m - 1 /\ \A i \in 1 .. m - 1 : Tail(q)[i] = q[i + 1]
    <3> HIDE DEF q
    <3>1. q \in Seq(Nodes) /\ q # <<>>
      BY <1>8, <2>5, <2>m DEF q
    <3> QED BY <2>5, <2>m, <3>1
  <2>7. Len(task'[t].todo) = Len(Path) - (k + 1)
    <3>1. m - 1 = p - (k + 1)
      BY <2>5
    <3> QED BY <1>p, <2>2, <2>6, <3>1
  <2>8. ASSUME NEW i \in 1 .. Len(Path) - (k + 1) PROVE task'[t].todo[i] = Path[(k + 1) + i]
    <3>1. i \in 1 .. m - 1 /\ i + 1 \in 1 .. m /\ k + (i + 1) = (k + 1) + i
      BY <1>p, <2>5
    <3>2. i + 1 \in 1 .. Len(Path) - k
      BY <1>p, <2>5, <3>1
    <3> QED BY <1>6, <2>2, <2>6, <3>1, <3>2
  <2> HIDE DEF q
  <2>9. \A i \in 1 .. k + 1 : ran'[t][i] = Path[i]
    <3>1. \A i \in 1 .. k + 1 : i \in 1 .. k \/ i = k + 1
      BY <1>2
    <3> QED BY <1>2, <1>6, <2>4, <3>1
  <2>10. RanOn(t)' = RanOn(t) \cup {n}
    <3>1. 1 .. k + 1 = (1 .. k) \cup {k + 1}
      BY <1>2
    <3>2. RanOn(t)' = {ran'[t][i] : i \in 1 .. k + 1}
      BY <2>3 DEF RanOn
    <3>3. RanOn(t)' = {Path[i] : i \in 1 .. k + 1}
      BY <2>9, <3>2
    <3> QED BY <1>2, <3>1, <3>3
  <2>11. k + 1 <= Len(Path)
    BY <1>2, <1>8
  <2>12. OnPath(t)'
    BY <1>7, <2>2, <2>3, <2>7, <2>8, <2>9, <2>10, <2>11 DEF OnPath
  <2> QED BY <2>3, <2>10, <2>12
<1>10. CASE r # "ok"
  <2>1. ran' = ran /\ task'[t] = [task[t] EXCEPT !.todo = <<>>, !.status = "ERROR"]
    BY <1>2, <1>3, <1>4, <1>10 DEF AfterCallback
  <2>2. task'[t].todo = <<>> /\ task'[t].status = "ERROR"
    BY <1>2, <1>3, <2>1
  <2>3. RanOn(t)' = RanOn(t)
    BY <2>1 DEF RanOn
  <2>4. OnPath(t)'
    BY <1>2, <1>6, <1>7, <2>1, <2>2, <2>3 DEF OnPath
  <2> QED BY <1>8, <2>1, <2>3, <2>4
<1> QED BY <1>9, <1>10

(* A task whose record and history stay is as far on its path as before.      *)
LEMMA RouteKept ==
  ASSUME NEW t, task'[t].todo = task[t].todo, task'[t].status = task[t].status,
         ran'[t] = ran[t], ended'[t] = ended[t]
  PROVE  (OnPath(t)' <=> OnPath(t)) /\ (Fresh(t)' <=> Fresh(t)) /\ RanOn(t)' = RanOn(t)
<1>1. RanOn(t)' = RanOn(t)
  BY DEF RanOn
<1> QED BY <1>1 DEF OnPath, Fresh

(* Steps that leave the routes alone.                                        *)
LEMMA RoutesKept ==
  ASSUME Routes, UNCHANGED <<made, early, ran, ended, poolQ, work>>,
         \A t \in Tasks : task'[t].todo = task[t].todo /\ task'[t].status = task[t].status,
         \A w \in Workers : work[w].st = "run" => work[w].t \in Tasks,
         \A t \in Tasks : InPool(t)' <=> InPool(t)
  PROVE  Routes'
<1>1. \A t \in Tasks : (OnPath(t)' <=> OnPath(t)) /\ (Fresh(t)' <=> Fresh(t))
  BY RouteKept
<1> QED BY <1>1 DEF Routes

(* Every task is on the path, as far as its callbacks succeeded.             *)
LEMMA RoutesStep == ASSUME TaskInv, [Next]_vars PROVE Routes'
<1> USE DEF cfgVars, notVars, subVars, runVars
<1>a. TaskTypesOK /\ QueueTypes /\ OrderInv /\ Phases /\ OnePlace /\ Routes
  BY DEF TaskInv
<1>b. /\ made \in Nat /\ MaxTask \in Nat /\ 1 .. made \subseteq Tasks /\ early \subseteq 1 .. made
      /\ dispQ \subseteq 1 .. made /\ poolQ \in Seq(1 .. made)
      /\ work \in [Workers -> [st : {"idle", "run", "queue", "listen", "exited"},
                               t : (1 .. made) \cup {NoTask}, n : Nodes \cup {"none"}]]
      /\ \A w \in Workers : work[w].st \in {"run", "queue", "listen"} => work[w].t \in 1 .. made
      /\ task \in [Tasks -> [todo : Seq(Nodes), status : Statuses, note : Statuses]]
      /\ ran \in [Tasks -> Seq(Nodes)] /\ ended \in [Tasks -> SUBSET Nodes]
      /\ Path \in Seq(Nodes)
  BY <1>a, NotificationAssumption DEF TaskTypesOK, QueueTypes, Tasks
<1>c. \A w \in Workers : work[w].st = "run" => work[w].t \in Tasks
  BY <1>b
<1>d. ASSUME task' = task \/ \E t, status : task' = [task EXCEPT ![t].note = status]
      PROVE  \A x \in Tasks : task'[x].todo = task[x].todo /\ task'[x].status = task[x].status
  <2>1. CASE task' = task
    BY <2>1
  <2>2. ASSUME NEW t, NEW status, task' = [task EXCEPT ![t].note = status], NEW x \in Tasks
        PROVE  task'[x].todo = task[x].todo /\ task'[x].status = task[x].status
    <3>1. task'[x] = task[x] \/ task'[x] = [task[x] EXCEPT !.note = status]
      BY <1>b, <2>2
    <3>2. task[x] \in [todo : Seq(Nodes), status : Statuses, note : Statuses]
      BY <1>b
    <3> QED BY <3>1, <3>2
  <2> QED BY <1>d, <2>1, <2>2
<1>1. ASSUME UNCHANGED <<made, early, ran, ended, poolQ, work, task>> PROVE Routes'
  <2>1. \A t \in Tasks : InPool(t)' <=> InPool(t)
    BY <1>1 DEF InPool
  <2> QED BY <1>a, <1>c, <1>1, <2>1, RoutesKept
<1>2. ASSUME SubmitQueue PROVE Routes'
  <2> DEFINE p == IF ctl = "config" THEN <<>> ELSE Path
  <2>1. PICK t \in Nat : t = made + 1
    BY <1>b
  <2>2. /\ made' = t /\ made < Bound /\ early' = IF ctl = "config" THEN early \cup {t} ELSE early
        /\ task' = [task EXCEPT ![t].todo = p]
        /\ UNCHANGED <<ran, ended, poolQ, work>>
    BY <1>2, <2>1 DEF SubmitQueue
  <2>3. t \in Tasks /\ t \notin 1 .. made /\ 1 .. made' = (1 .. made) \cup {t}
    <3>1. Bound \in 0 .. MaxTask
      BY <1>b, NotificationAssumption DEF Bound
    <3> QED BY <1>b, <2>1, <2>2, <3>1 DEF Tasks
  <2>4. \A x \in Tasks \ {t} : (OnPath(x)' <=> OnPath(x)) /\ (Fresh(x)' <=> Fresh(x))
    <3>1. \A x \in Tasks \ {t} : task'[x] = task[x]
      BY <1>b, <2>2
    <3> QED BY <2>2, <3>1, RouteKept
  <2>5. Fresh(t)
    BY <1>a, <2>3 DEF Routes
  <2>6. IF t \notin early' THEN OnPath(t)' ELSE Fresh(t)'
    <3>1. task'[t].todo = p /\ task'[t].status = "OK" /\ ran'[t] = <<>> /\ ended'[t] = {}
      BY <1>b, <2>2, <2>3, <2>5 DEF Fresh
    <3>2. CASE ctl = "config"
      <4>1. p = <<>> /\ t \in early'
        BY <2>2, <3>2
      <4> HIDE DEF p
      <4> QED BY <3>1, <4>1 DEF Fresh
    <3>3. CASE ctl # "config"
      <4>1. p = Path /\ t \notin early'
        BY <1>b, <2>2, <2>3, <3>3
      <4> HIDE DEF p
      <4>2. RanOn(t)' = {}
        BY <3>1 DEF RanOn
      <4>3. Len(ran'[t]) = 0
        BY <3>1
      <4>4. PICK m \in Nat : m = Len(Path)
        BY <1>b
      <4>5. m - 0 = m /\ 0 <= m /\ (\A i \in 1 .. 0 : FALSE) /\ \A i \in 1 .. m : 0 + i = i
        BY <4>4
      <4> QED BY <3>1, <4>1, <4>2, <4>3, <4>4, <4>5 DEF OnPath
    <3> QED BY <3>2, <3>3
  <2> HIDE DEF p
  <2>7. \A x \in Tasks : IF x \in 1 .. made' /\ x \notin early' THEN OnPath(x)' ELSE Fresh(x)'
    BY <1>a, <2>2, <2>3, <2>4, <2>6 DEF Routes
  <2>8. \A x \in Tasks \ {t} : task'[x] = task[x]
    BY <1>b, <2>2
  <2>9. \A x \in Tasks : InPool(x)' <=> InPool(x)
    BY <2>2 DEF InPool
  <2>10. \A x \in Tasks : InPool(x) => x # t
    BY <1>b, <2>3 DEF InPool
  <2>11. \A w \in Workers : work[w].st = "run" => work[w].t \in Tasks \ {t}
    BY <1>b, <2>3
  <2> QED BY <1>a, <2>2, <2>7, <2>8, <2>9, <2>10, <2>11 DEF Routes
<1>3. ASSUME Dispatch PROVE Routes'
  <2>1. PICK t \in dispQ :
          /\ t \in Tasks
          /\ ToPool(t) \/ \E status \in Statuses : ToFinals(t, status)
          /\ UNCHANGED <<made, early, work, ran, ended>>
    BY <1>a, <1>3, Dispatched
  <2>2. CASE ToPool(t)
    <3>1. task' = task /\ poolQ' = Append(poolQ, t) /\ task[t].todo # <<>>
      BY <2>2 DEF ToPool
    <3>2. \A x : InPool(x)' <=> InPool(x) \/ x = t
      <4> DEFINE S == 1 .. made
      <4>1. poolQ \in Seq(S) /\ t \in S
        BY <1>b
      <4> HIDE DEF S
      <4> QED BY <3>1, <4>1, PoolAppended
    <3>3. \A x \in Tasks : (OnPath(x)' <=> OnPath(x)) /\ (Fresh(x)' <=> Fresh(x))
      BY <2>1, <3>1, RouteKept
    <3> QED BY <1>a, <2>1, <3>1, <3>2, <3>3 DEF Routes
  <2>3. CASE \E status \in Statuses : ToFinals(t, status)
    <3>1. poolQ' = poolQ /\ (task' = task \/ \E status \in Statuses : task' = [task EXCEPT ![t].note = status])
      BY <2>3 DEF ToFinals
    <3>2. \A x \in Tasks : task'[x].todo = task[x].todo /\ task'[x].status = task[x].status
      BY <1>d, <3>1
    <3>3. \A x \in Tasks : InPool(x)' <=> InPool(x)
      BY <3>1 DEF InPool
    <3> QED BY <1>a, <1>c, <2>1, <3>1, <3>2, <3>3, RoutesKept
  <2> QED BY <2>1, <2>2, <2>3
<1>4. ASSUME NEW w \in Workers, WorkTake(w) PROVE Routes'
  <2> DEFINE h == Head(poolQ)
             r == [st |-> "run", t |-> h, n |-> Head(task[h].todo)]
  <2>1. /\ poolQ # <<>> /\ work' = [work EXCEPT ![w] = r] /\ poolQ' = Tail(poolQ)
        /\ UNCHANGED <<made, early, task, ran, ended>>
    BY <1>4 DEF WorkTake
  <2>2. r.st = "run" /\ r.t = h /\ r.n = Head(task[h].todo)
    OBVIOUS
  <2>3. (\A x : InPool(x)' <=> InPool(x) /\ x # h) /\ InPool(h)
    <3> DEFINE S == 1 .. made
    <3>1. poolQ \in Seq(S) /\ \A i, j \in DOMAIN poolQ : poolQ[i] = poolQ[j] => i = j
      BY <1>a, <1>b DEF OnePlace
    <3> HIDE DEF S
    <3> QED BY <2>1, <3>1, PoolTaken
  <2>4. h \in Tasks
    <3>1. poolQ[1] \in 1 .. made /\ h = poolQ[1]
      BY <1>b, <2>1
    <3> QED BY <1>b, <3>1
  <2> HIDE DEF r, h
  <2>5. \A x \in Tasks : (OnPath(x)' <=> OnPath(x)) /\ (Fresh(x)' <=> Fresh(x))
    BY <2>1, RouteKept
  <2>6. \A v \in Workers : work'[v] = IF v = w THEN r ELSE work[v]
    BY <1>b, <2>1
  <2> QED BY <1>a, <2>1, <2>2, <2>3, <2>4, <2>5, <2>6 DEF Routes
<1>5. ASSUME NEW w \in Workers, WorkRun(w) PROVE Routes'
  <2>1. PICK t : t = work[w].t
    OBVIOUS
  <2>2. PICK n : n = work[w].n
    OBVIOUS
  <2>3. work[w].st = "run" /\ work' = [work EXCEPT ![w].st = "queue"] /\ UNCHANGED <<made, early, poolQ>>
        /\ ended' = [ended EXCEPT ![t] = @ \cup {n}]
    BY <1>5, <2>1, <2>2 DEF WorkRun
  <2>4. /\ t \in 1 .. made /\ t \in Tasks /\ t \notin early /\ n \in Nodes /\ n \notin ended[t] /\ ~InPool(t)
        /\ \A v \in Workers : Holds(v, t) => v = w
    BY <2>1, <2>2, <2>3, RunsNext
  <2>5. OnPath(t)'
    BY <1>5, <2>1, <2>2, CallbackOnPath
  <2>6. \A x \in Tasks \ {t} : task'[x] = task[x] /\ ran'[x] = ran[x] /\ ended'[x] = ended[x]
    BY <1>b, <1>5, <2>1, <2>3, <2>4 DEF WorkRun
  <2>7. ended'[t] = ended[t] \cup {n}
    BY <1>b, <2>3, <2>4
  <2>8. \A x \in Tasks \ {t} : (OnPath(x)' <=> OnPath(x)) /\ (Fresh(x)' <=> Fresh(x))
    BY <2>6, RouteKept
  <2>9. \A x \in Tasks : IF x \in 1 .. made' /\ x \notin early' THEN OnPath(x)' ELSE Fresh(x)'
    BY <1>a, <2>3, <2>4, <2>5, <2>8 DEF Routes
  <2>10. \A x \in Tasks : InPool(x)' => InPool(x) /\ x # t
    BY <2>3, <2>4 DEF InPool
  <2>11. \A v \in Workers : /\ work'[v].t = work[v].t /\ work'[v].n = work[v].n
                            /\ work'[v].st = IF v = w THEN "queue" ELSE work[v].st
    BY <1>b, <2>3
  <2>12. \A v \in Workers : work'[v].st = "run" => work'[v].t # t /\ work'[v].t \in Tasks
    BY <1>b, <2>4, <2>11 DEF Holds
  <2>13. \A v \in Workers : work'[v].st \in {"queue", "listen"} => work'[v].n \in ended'[work'[v].t]
    <3>1. n \in ended'[t]
      BY <2>7
    <3>2. ASSUME NEW v \in Workers \ {w}, work'[v].st \in {"queue", "listen"}
          PROVE  work'[v].n \in ended'[work'[v].t]
      <4>1. work[v].t \in Tasks /\ work[v].n \in ended[work[v].t]
        BY <1>a, <1>b, <2>11, <3>2 DEF Routes
      <4> QED BY <2>6, <2>7, <2>11, <4>1
    <3> QED BY <2>1, <2>2, <2>11, <3>1, <3>2
  <2>14. \A v \in Workers \ {w} : work'[v].st \in {"queue", "listen"} => work'[v].t # t \/ work'[v].n # n
    BY <1>a, <2>4, <2>11 DEF Routes
  <2>15. \A v, x \in Workers :
           (work'[v].st \in {"queue", "listen"} /\ work'[x].st \in {"queue", "listen"}
            /\ work'[v].t = work'[x].t /\ work'[v].n = work'[x].n) => v = x
    BY <1>a, <2>1, <2>2, <2>11, <2>14 DEF Routes
  <2>16. \A x \in Tasks : InPool(x)' => task'[x].todo # <<>>
    BY <1>a, <2>6, <2>10 DEF Routes
  <2>17. \A v \in Workers : work'[v].st = "run" => /\ task'[work'[v].t].todo # <<>>
                                                   /\ work'[v].n = Head(task'[work'[v].t].todo)
    <3>1. ASSUME NEW v \in Workers, work'[v].st = "run"
          PROVE  /\ task'[work'[v].t].todo # <<>>
                 /\ work'[v].n = Head(task'[work'[v].t].todo)
      <4>1. v # w /\ work[v].st = "run" /\ task'[work'[v].t] = task[work[v].t] /\ work'[v].n = work[v].n
        BY <2>6, <2>11, <2>12, <3>1
      <4> QED BY <1>a, <4>1 DEF Routes
    <3> QED BY <3>1
  <2> QED BY <2>9, <2>13, <2>15, <2>16, <2>17 DEF Routes
<1>6. ASSUME NEW w \in Workers, WorkExit(w) \/ WorkThrow(w) \/ WorkQueue(w) \/ WorkListen(w) PROVE Routes'
  <2>1. UNCHANGED <<made, early, poolQ, ran, ended>>
    BY <1>6 DEF WorkExit, WorkThrow, WorkQueue, WorkListen
  <2>2. \A x \in Tasks : task'[x].todo = task[x].todo /\ task'[x].status = task[x].status
    <3>1. task' = task \/ task' = [task EXCEPT ![work[w].t].note = "ERROR"]
      BY <1>6 DEF WorkExit, WorkThrow, WorkQueue, WorkListen
    <3> QED BY <1>d, <3>1
  <2>3. \/ work' = [work EXCEPT ![w] = NoWork]
        \/ work[w].st = "idle" /\ work' = [work EXCEPT ![w].st = "exited"]
        \/ work[w].st = "queue" /\ work' = [work EXCEPT ![w].st = "listen"]
    BY <1>6 DEF WorkExit, WorkThrow, WorkQueue, WorkListen
  <2>4. \A v \in Workers :
          /\ work'[v].st = "run" => work[v].st = "run"
          /\ work'[v].st \in {"queue", "listen"} => work[v].st \in {"queue", "listen"}
          /\ work'[v].st \in {"run", "queue", "listen"} => work'[v].t = work[v].t /\ work'[v].n = work[v].n
    <3>1. CASE work' = [work EXCEPT ![w] = NoWork]
      BY <1>b, <3>1 DEF NoWork
    <3>2. CASE work[w].st = "idle" /\ work' = [work EXCEPT ![w].st = "exited"]
      BY <1>b, <3>2
    <3>3. CASE work[w].st = "queue" /\ work' = [work EXCEPT ![w].st = "listen"]
      BY <1>b, <3>3
    <3> QED BY <2>3, <3>1, <3>2, <3>3
  <2>5. \A x \in Tasks : (OnPath(x)' <=> OnPath(x)) /\ (Fresh(x)' <=> Fresh(x))
    BY <2>1, <2>2, RouteKept
  <2>6. \A x \in Tasks : InPool(x)' <=> InPool(x)
    BY <2>1 DEF InPool
  <2> QED BY <1>a, <1>c, <2>1, <2>2, <2>4, <2>5, <2>6 DEF Routes
<1>7. ASSUME \/ UNCHANGED vars \/ Configuration \/ SubmitCount \/ SubmitWait \/ SubmitWake \/ DispExit \/ Stop
             \/ \E f \in Finals : FinalLoop(f)
      PROVE Routes'
  <2>1. UNCHANGED <<made, early, ran, ended, poolQ, work, task>>
    BY <1>7 DEF vars, Configuration, AddPipeNode, ReplacePipeNode, AddFinal, AddListener, Start,
                SubmitCount, SubmitWait, SubmitWake, DispExit,
                Stop, StopNodes, StopPool, StopDisp, DispJoined, StopFinal, StopEnd,
                FinalLoop, FinalHold, FinalHandOver, FinalUnbound, FinalExit
  <2> QED BY <1>1, <2>1
<1> QED BY <1>2, <1>3, <1>4, <1>5, <1>6, <1>7 DEF Next, Submit, Worker

(* No task is queued for, runs on or has run on a node that is gone.         *)
LEMMA ServedStep == ASSUME TaskInv, [Next]_vars PROVE Served'
<1> USE DEF cfgVars, notVars, subVars, runVars
<1>a. TaskTypesOK /\ QueueTypes /\ OrderInv /\ Phases /\ OnePlace /\ Routes /\ Served
  BY DEF TaskInv
<1>b. /\ made \in Nat /\ 1 .. made \subseteq Tasks
      /\ dispQ \subseteq 1 .. made /\ poolQ \in Seq(1 .. made)
      /\ work \in [Workers -> [st : {"idle", "run", "queue", "listen", "exited"},
                               t : (1 .. made) \cup {NoTask}, n : Nodes \cup {"none"}]]
      /\ task \in [Tasks -> [todo : Seq(Nodes), status : Statuses, note : Statuses]]
      /\ ran \in [Tasks -> Seq(Nodes)] /\ entry \in [Nodes -> {"none", "live", "gone"}]
  BY <1>a, NotificationAssumption DEF TaskTypesOK, QueueTypes, Tasks
<1>c. \A t \in Tasks : InPool(t) => t \in 1 .. made
  BY <1>b DEF InPool
<1>1. ASSUME UNCHANGED <<entry, ran, poolQ>>, \A t \in Tasks : InPool(t) => task'[t].todo = task[t].todo,
             \A w \in Workers : work'[w].st = "run" => work[w].st = "run" /\ work'[w].n = work[w].n
      PROVE  Served'
  <2>1. \A t \in Tasks : (InPool(t)' <=> InPool(t)) /\ RanOn(t)' = RanOn(t)
    BY <1>1 DEF InPool, RanOn
  <2> QED BY <1>a, <1>1, <2>1 DEF Served
<1>2. ASSUME NEW n \in Nodes, AddPipeNode(n) PROVE Served'
  <2>1. entry' = [entry EXCEPT ![n] = "live"] /\ UNCHANGED <<ran, poolQ, work, task>>
    BY <1>2 DEF AddPipeNode
  <2>2. \A m : entry'[m] = "gone" => m \notin Nodes \/ entry[m] = "gone"
    BY <1>b, <2>1
  <2>3. \A t \in Tasks : (InPool(t)' <=> InPool(t)) /\ RanOn(t)' = RanOn(t)
    BY <2>1 DEF InPool, RanOn
  <2>4. ctl = "config"
    BY <1>2 DEF AddPipeNode
  <2>5. poolQ = <<>> /\ (\A w \in Workers : work[w].st # "run") /\ \A t \in Tasks : ran[t] = <<>>
    BY <1>a, <2>4 DEF Phases
  <2>6. \A t \in Tasks : ~InPool(t) /\ RanOn(t) = {}
    BY <2>5 DEF InPool, RanOn
  <2> QED BY <2>1, <2>3, <2>5, <2>6 DEF Served
<1>3. ASSUME NEW n \in Nodes, ReplacePipeNode(n) PROVE Served'
  <2>1. ctl = "config" /\ UNCHANGED <<ran, poolQ, work, task>>
    BY <1>3 DEF ReplacePipeNode
  <2>2. poolQ = <<>> /\ (\A w \in Workers : work[w].st # "run") /\ \A t \in Tasks : ran[t] = <<>>
    BY <1>a, <2>1 DEF Phases
  <2>3. \A t \in Tasks : ~InPool(t)' /\ RanOn(t)' = {}
    BY <2>1, <2>2 DEF InPool, RanOn
  <2> QED BY <2>1, <2>2, <2>3 DEF Served
<1>4. ASSUME SubmitQueue PROVE Served'
  <2>1. /\ \E p : task' = [task EXCEPT ![made + 1].todo = p]
        /\ UNCHANGED <<entry, ran, poolQ, work>>
    BY <1>4 DEF SubmitQueue
  <2>2. \A t \in 1 .. made : t # made + 1
    BY <1>b
  <2>3. \A t \in Tasks : InPool(t) => task'[t] = task[t]
    BY <1>b, <1>c, <2>1, <2>2
  <2> QED BY <1>1, <2>1, <2>3
<1>5. ASSUME Dispatch PROVE Served'
  <2>1. PICK t \in dispQ :
          /\ t \in Tasks
          /\ ToPool(t) \/ \E status \in Statuses : ToFinals(t, status)
          /\ UNCHANGED <<entry, work, ran>>
    BY <1>a, <1>5, Dispatched
  <2>2. CASE ToPool(t)
    <3>1. task' = task /\ poolQ' = Append(poolQ, t) /\ entry[Head(task[t].todo)] # "gone"
      BY <2>2 DEF ToPool
    <3>2. \A x : InPool(x)' <=> InPool(x) \/ x = t
      <4> DEFINE S == 1 .. made
      <4>1. poolQ \in Seq(S) /\ t \in S
        BY <1>b
      <4> HIDE DEF S
      <4> QED BY <3>1, <4>1, PoolAppended
    <3>3. \A x \in Tasks : RanOn(x)' = RanOn(x)
      BY <2>1 DEF RanOn
    <3> QED BY <1>a, <2>1, <3>1, <3>2, <3>3 DEF Served
  <2>3. CASE \E status \in Statuses : ToFinals(t, status)
    <3>1. poolQ' = poolQ /\ (task' = task \/ \E status \in Statuses : task' = [task EXCEPT ![t].note = status])
      BY <2>3 DEF ToFinals
    <3>2. \A x \in Tasks : task'[x].todo = task[x].todo
      <4>1. CASE task' = task
        BY <4>1
      <4>2. ASSUME NEW status, task' = [task EXCEPT ![t].note = status], NEW x \in Tasks
            PROVE  task'[x].todo = task[x].todo
        BY <1>b, <4>2
      <4> QED BY <3>1, <4>1, <4>2
    <3> QED BY <1>1, <2>1, <3>1, <3>2
  <2> QED BY <2>1, <2>2, <2>3
<1>6. ASSUME NEW w \in Workers, WorkTake(w) PROVE Served'
  <2> DEFINE h == Head(poolQ)
             r == [st |-> "run", t |-> h, n |-> Head(task[h].todo)]
  <2>1. /\ poolQ # <<>> /\ work' = [work EXCEPT ![w] = r] /\ poolQ' = Tail(poolQ)
        /\ UNCHANGED <<entry, task, ran>>
    BY <1>6 DEF WorkTake
  <2>2. r.n = Head(task[h].todo)
    OBVIOUS
  <2>3. (\A x : InPool(x)' <=> InPool(x) /\ x # h) /\ InPool(h)
    <3> DEFINE S == 1 .. made
    <3>1. poolQ \in Seq(S) /\ \A i, j \in DOMAIN poolQ : poolQ[i] = poolQ[j] => i = j
      BY <1>a, <1>b DEF OnePlace
    <3> HIDE DEF S
    <3> QED BY <2>1, <3>1, PoolTaken
  <2>4. h \in Tasks
    <3>1. poolQ[1] \in 1 .. made /\ h = poolQ[1]
      BY <1>b, <2>1
    <3> QED BY <1>b, <3>1
  <2>5. \A x \in Tasks : RanOn(x)' = RanOn(x)
    BY <2>1 DEF RanOn
  <2> HIDE DEF r, h
  <2> QED BY <1>a, <1>b, <2>1, <2>2, <2>3, <2>4, <2>5 DEF Served
<1>7. ASSUME NEW w \in Workers, WorkRun(w) PROVE Served'
  <2>1. PICK t : t = work[w].t
    OBVIOUS
  <2>2. PICK n : n = work[w].n
    OBVIOUS
  <2>3. work[w].st = "run" /\ work' = [work EXCEPT ![w].st = "queue"] /\ UNCHANGED <<entry, poolQ>>
    BY <1>7 DEF WorkRun
  <2>4. /\ t \in Tasks /\ ~InPool(t)
    BY <2>1, <2>3, RunsNext
  <2>5. \A x \in RanOn(t)' : x \in RanOn(t) \/ x = n
    BY <1>7, <2>1, <2>2, CallbackOnPath
  <2>6. \A x \in Tasks \ {t} : task'[x] = task[x] /\ ran'[x] = ran[x]
    BY <1>b, <1>7, <2>1, <2>3, <2>4 DEF WorkRun
  <2>7. \A x \in Tasks : InPool(x)' <=> InPool(x)
    BY <2>3 DEF InPool
  <2>8. \A x \in Tasks \ {t} : RanOn(x)' = RanOn(x)
    BY <2>6 DEF RanOn
  <2>9. entry[n] # "gone"
    BY <1>a, <2>2, <2>3 DEF Served
  <2>10. \A v \in Workers : work'[v].st = "run" => work[v].st = "run" /\ work'[v].n = work[v].n
    BY <1>b, <2>3
  <2>11. \A x \in Tasks : \A m \in RanOn(x)' : entry[m] # "gone"
    BY <1>a, <2>5, <2>8, <2>9 DEF Served
  <2> QED BY <1>a, <2>3, <2>4, <2>6, <2>7, <2>10, <2>11 DEF Served
<1>8. ASSUME NEW w \in Workers, WorkExit(w) \/ WorkThrow(w) \/ WorkQueue(w) \/ WorkListen(w) PROVE Served'
  <2>1. UNCHANGED <<entry, ran, poolQ>>
    BY <1>8 DEF WorkExit, WorkThrow, WorkQueue, WorkListen
  <2>2. \A x \in Tasks : task'[x].todo = task[x].todo
    <3>1. task' = task \/ task' = [task EXCEPT ![work[w].t].note = "ERROR"]
      BY <1>8 DEF WorkExit, WorkThrow, WorkQueue, WorkListen
    <3>2. CASE task' = task
      BY <3>2
    <3>3. CASE task' = [task EXCEPT ![work[w].t].note = "ERROR"]
      BY <1>b, <3>3
    <3> QED BY <3>1, <3>2, <3>3
  <2>3. work' = [work EXCEPT ![w] = NoWork] \/ work' = [work EXCEPT ![w].st = "exited"]
        \/ work' = [work EXCEPT ![w].st = "listen"]
    BY <1>8 DEF WorkExit, WorkThrow, WorkQueue, WorkListen
  <2>4. \A v \in Workers : work'[v].st = "run" => work[v].st = "run" /\ work'[v].n = work[v].n
    <3>1. CASE work' = [work EXCEPT ![w] = NoWork]
      BY <1>b, <3>1 DEF NoWork
    <3>2. CASE work' = [work EXCEPT ![w].st = "exited"]
      BY <1>b, <3>2
    <3>3. CASE work' = [work EXCEPT ![w].st = "listen"]
      BY <1>b, <3>3
    <3> QED BY <2>3, <3>1, <3>2, <3>3
  <2> QED BY <1>1, <2>1, <2>2, <2>4
<1>9. ASSUME \/ UNCHANGED vars \/ Start \/ (\E l \in Listeners : AddListener(l)) \/ (\E f \in Finals : AddFinal(f))
             \/ SubmitCount \/ SubmitWait \/ SubmitWake \/ DispExit \/ Stop
             \/ \E f \in Finals : FinalLoop(f)
      PROVE Served'
  <2>1. UNCHANGED <<entry, ran, poolQ, work, task>>
    BY <1>9 DEF vars, AddFinal, AddListener, Start,
                SubmitCount, SubmitWait, SubmitWake, DispExit,
                Stop, StopNodes, StopPool, StopDisp, DispJoined, StopFinal, StopEnd,
                FinalLoop, FinalHold, FinalHandOver, FinalUnbound, FinalExit
  <2> QED BY <1>1, <2>1
<1> QED BY <1>2, <1>3, <1>4, <1>5, <1>6, <1>7, <1>8, <1>9 DEF Next, Submit, Worker, Configuration

(* The pipeline is stopped once, and a node that is gone stays so.           *)
LEMMA StopStays == ASSUME TaskInv, [Next]_vars PROVE (IsStop => IsStop') /\ (PathGone => PathGone')
<1> USE DEF cfgVars, notVars, subVars, runVars
<1>a. entry \in [Nodes -> {"none", "live", "gone"}] /\ Path \in Seq(Nodes)
  BY NotificationAssumption DEF TaskInv, TaskTypesOK
<1>1. ASSUME NEW n \in Nodes, AddPipeNode(n) \/ ReplacePipeNode(n) PROVE (IsStop => IsStop') /\ (PathGone => PathGone')
  <2>1. UNCHANGED ctl
        /\ ((entry' = [entry EXCEPT ![n] = "live"] /\ entry[n] = "none") \/ entry' = [entry EXCEPT ![n] = "gone"])
    BY <1>1 DEF AddPipeNode, ReplacePipeNode
  <2>2. \A m \in Nodes : entry[m] = "gone" => entry'[m] = "gone"
    BY <1>a, <2>1
  <2>3. \A i \in DOMAIN Path : Path[i] \in Nodes
    BY <1>a
  <2> QED BY <2>1, <2>2, <2>3 DEF IsStop, PathGone
<1>2. ASSUME \/ StopNodes \/ StopPool \/ StopDisp \/ DispJoined \/ StopEnd \/ Start
      PROVE (IsStop => IsStop') /\ (PathGone => PathGone')
  <2>1. UNCHANGED entry
    BY <1>2 DEF StopNodes, StopPool, StopDisp, DispJoined, StopEnd, Start
  <2>2. IsStop => IsStop'
    BY <1>2 DEF StopNodes, StopPool, StopDisp, DispJoined, StopEnd, Start, IsStop, Stopping
  <2> QED BY <2>1, <2>2 DEF PathGone
<1>3. ASSUME \/ UNCHANGED vars \/ (\E l \in Listeners : AddListener(l)) \/ (\E f \in Finals : AddFinal(f))
             \/ Submit \/ Dispatch \/ DispExit \/ (\E w \in Workers : Worker(w)) \/ (\E f \in Finals : StopFinal(f))
             \/ \E f \in Finals : FinalLoop(f)
      PROVE (IsStop => IsStop') /\ (PathGone => PathGone')
  <2>1. UNCHANGED <<entry, ctl>>
    BY <1>3 DEF vars, AddFinal, AddListener,
                Submit, SubmitQueue, SubmitCount, SubmitWait, SubmitWake, Dispatch, DispExit, StopFinal,
                Worker, WorkTake, WorkExit, WorkRun, WorkThrow, WorkQueue, WorkListen,
                FinalLoop, FinalHold, FinalHandOver, FinalUnbound, FinalExit
  <2> QED BY <2>1 DEF IsStop, PathGone
<1> QED BY <1>1, <1>2, <1>3 DEF Next, Configuration, Stop

(* Steps that give a notifier no task and hand none over.                    *)
LEMMA NotesKept ==
  ASSUME Notes, VerdictHasCause, Served', IsStop => IsStop', PathGone => PathGone',
         UNCHANGED <<verdict, delivered>>,
         \A t \in Tasks : /\ task[t].status = "ERROR" => task'[t].status = "ERROR"
                          /\ task'[t].note = "ERROR" =>
                               task[t].note = "ERROR" \/ IsStop' \/ task'[t].status = "ERROR" \/ PathGone',
         \A f \in Finals : \A t \in Tasks :
           /\ t \in notQ'[f] \/ t \in pending'[f] => t \in notQ[f] \/ t \in pending[f]
           /\ Has(f, t) => /\ ran'[t] = ran[t] /\ ended'[t] = ended[t] /\ (t \in early' <=> t \in early)
                           /\ task'[t].note = "OK" => task[t].note = "OK"
  PROVE  Notes' /\ VerdictHasCause'
<1>1. \A t \in Tasks : task'[t].note = "ERROR" => IsStop' \/ task'[t].status = "ERROR" \/ PathGone'
  BY DEF Notes
<1>2. \A f \in Finals : \A t \in Tasks :
        (t \in notQ'[f] \/ t \in pending'[f]) /\ task'[t].note = "OK" =>
           ran'[t] = IF t \in early' THEN <<>> ELSE Path
  BY DEF Notes, Has
<1>3. \A f \in Finals : \A t \in Tasks : verdict[f][t] # "none" => Has(f, t)
  BY DEF Notes, Has
<1>4. Notes'
  BY <1>1, <1>2 DEF Notes
<1>5. ASSUME NEW f \in Finals, NEW t \in Tasks
      PROVE  /\ verdict'[f][t] = "ERROR" => IsStop' \/ ended'[t] # RanOn(t)' \/ PathGone'
             /\ verdict'[f][t] = "OK" =>
                  /\ ran'[t] = IF t \in early' THEN <<>> ELSE Path
                  /\ \A n \in RanOn(t)' : entry'[n] # "gone"
  <2>1. CASE verdict[f][t] \in {"ERROR", "OK"}
    <3>1. ran'[t] = ran[t] /\ ended'[t] = ended[t] /\ (t \in early' <=> t \in early)
      BY <1>3, <2>1
    <3>2. RanOn(t)' = RanOn(t)
      BY <3>1 DEF RanOn
    <3>3. \A n \in RanOn(t)' : entry'[n] # "gone"
      BY DEF Served
    <3>4. verdict[f][t] = "ERROR" => IsStop \/ ended[t] # RanOn(t) \/ PathGone
      BY DEF VerdictHasCause, PathGone
    <3>5. verdict[f][t] = "OK" => ran[t] = IF t \in early THEN <<>> ELSE Path
      BY DEF VerdictHasCause
    <3> QED BY <3>1, <3>2, <3>3, <3>4, <3>5
  <2> QED BY <2>1
<1>6. VerdictHasCause'
  BY <1>5 DEF VerdictHasCause, PathGone
<1> QED BY <1>4, <1>6

(* A task that is told OK has all of its path behind it, or never had one;   *)
(* one that failed has been at a node whose callback did not succeed.        *)
LEMMA RouteEnds ==
  ASSUME TaskInv, NEW t \in 1 .. made
  PROVE  /\ task[t].todo = <<>> /\ task[t].status = "OK" => ran[t] = IF t \in early THEN <<>> ELSE Path
         /\ task[t].status = "ERROR" => ended[t] # RanOn(t)
         /\ task[t].todo # <<>> => \E i \in DOMAIN Path : Path[i] = Head(task[t].todo)
<1>a. /\ t \in Tasks /\ ran[t] \in Seq(Nodes) /\ task[t].todo \in Seq(Nodes) /\ Path \in Seq(Nodes)
      /\ task[t].status \in {"OK", "ERROR"}
      /\ \A i, j \in DOMAIN Path : Path[i] = Path[j] => i = j
  BY NotificationAssumption DEF TaskInv, TaskTypesOK, Tasks, Statuses
<1>1. IF t \notin early THEN OnPath(t) ELSE Fresh(t)
  BY <1>a DEF TaskInv, Routes
<1>2. CASE t \in early
  <2>1. task[t].todo = <<>> /\ task[t].status = "OK" /\ ran[t] = <<>>
    BY <1>1, <1>2 DEF Fresh
  <2> QED BY <1>2, <2>1
<1>3. CASE t \notin early
  <2>1. PICK p \in Nat : p = Len(Path) /\ DOMAIN Path = 1 .. p
    BY <1>a
  <2>2. PICK k \in Nat : k = Len(ran[t]) /\ DOMAIN ran[t] = 1 .. k
    BY <1>a
  <2>3. /\ k <= p /\ \A i \in 1 .. k : ran[t][i] = Path[i]
        /\ task[t].status = "OK" =>
             /\ Len(task[t].todo) = p - k
             /\ \A i \in 1 .. p - k : task[t].todo[i] = Path[k + i]
        /\ task[t].status = "ERROR" =>
             k < p /\ task[t].todo = <<>> /\ ended[t] = RanOn(t) \cup {Path[k + 1]}
    BY <1>1, <1>3, <2>1, <2>2 DEF OnPath
  <2>4. ASSUME task[t].todo = <<>>, task[t].status = "OK" PROVE ran[t] = Path
    <3>1. Len(task[t].todo) = 0
      BY <2>4
    <3>2. k = p
      BY <2>3, <2>4, <3>1
    <3> QED BY <1>a, <2>1, <2>2, <2>3, <3>2
  <2>5. ASSUME task[t].status = "ERROR" PROVE ended[t] # RanOn(t)
    <3>1. \A i \in 1 .. k : i \in DOMAIN Path /\ k + 1 \in DOMAIN Path /\ i # k + 1
      BY <2>1, <2>3, <2>5
    <3>2. \A i \in 1 .. k : ran[t][i] # Path[k + 1]
      BY <1>a, <2>3, <3>1
    <3>3. Path[k + 1] \notin RanOn(t)
      BY <2>2, <3>2 DEF RanOn
    <3> QED BY <2>3, <2>5, <3>3
  <2>6. ASSUME task[t].todo # <<>> PROVE \E i \in DOMAIN Path : Path[i] = Head(task[t].todo)
    <3>1. task[t].status = "OK"
      BY <1>a, <2>3, <2>6
    <3>2. PICK m \in Nat \ {0} : m = Len(task[t].todo)
      BY <1>a, <2>6
    <3>3. m = p - k
      BY <2>3, <3>1, <3>2
    <3>4. 1 \in 1 .. p - k /\ k + 1 \in 1 .. p
      BY <3>3
    <3>5. Head(task[t].todo) = task[t].todo[1]
      BY <1>a, <2>6
    <3> QED BY <2>1, <2>3, <3>1, <3>4, <3>5
  <2> QED BY <1>3, <2>4, <2>5, <2>6
<1> QED BY <1>2, <1>3

(* What tasks tell, and what notifiers were told, has its cause.             *)
LEMMA NotesStep == ASSUME TaskInv, [Next]_vars, Served' PROVE Notes' /\ VerdictHasCause'
<1> USE DEF cfgVars, notVars, subVars, runVars
<1> DEFINE Good == Notes' /\ VerdictHasCause'
<1>a. TaskTypesOK /\ QueueTypes /\ OrderInv /\ OnePlace /\ Notes /\ VerdictHasCause
  BY DEF TaskInv
<1>b. /\ made \in Nat /\ 1 .. made \subseteq Tasks /\ dispQ \subseteq 1 .. made
      /\ task \in [Tasks -> [todo : Seq(Nodes), status : Statuses, note : Statuses]]
      /\ ran \in [Tasks -> Seq(Nodes)] /\ ended \in [Tasks -> SUBSET Nodes]
      /\ \A f \in Finals : pending[f] \subseteq 1 .. made /\ Len(delivered[f]) <= made
      /\ notQ \in [Finals -> SUBSET (1 .. made)] /\ pending \in [Finals -> SUBSET Tasks]
      /\ delivered \in [Finals -> Seq(Tasks)]
      /\ verdict \in [Finals -> [Tasks -> Statuses \cup {"none"}]]
  BY <1>a, NotificationAssumption DEF TaskTypesOK, QueueTypes, OrderInv, NotifierTypes, Tasks
<1>c. \A f \in Finals : \A t \in Tasks : Has(f, t) => t \in 1 .. made
  BY <1>b DEF Has, Tasks
<1>d. (IsStop => IsStop') /\ (PathGone => PathGone')
  BY StopStays
<1>1. ASSUME UNCHANGED <<task, ran, ended, early, verdict, delivered, notQ, pending>> PROVE Good
  BY <1>a, <1>d, <1>1, NotesKept
<1>2. ASSUME SubmitQueue PROVE Good
  <2>1. /\ \E p : task' = [task EXCEPT ![made + 1].todo = p]
        /\ early' \subseteq early \cup {made + 1} /\ early \subseteq early'
        /\ UNCHANGED <<ran, ended, verdict, delivered, notQ, pending>>
    BY <1>2 DEF SubmitQueue
  <2>2. \A t \in Tasks : task'[t].status = task[t].status /\ task'[t].note = task[t].note
    BY <1>b, <2>1
  <2>3. \A t \in 1 .. made : t # made + 1
    BY <1>b
  <2> QED BY <1>a, <1>c, <1>d, <2>1, <2>2, <2>3, NotesKept
<1>3. ASSUME Dispatch PROVE Good
  <2>1. PICK t \in dispQ :
          /\ t \in Tasks
          /\ ToPool(t) \/ \E status \in Statuses : ToFinals(t, status)
          /\ UNCHANGED <<ran, ended, early, verdict, delivered, pending>>
    BY <1>a, <1>3, Dispatched
  <2>2. CASE ToPool(t)
    BY <1>1, <2>1, <2>2 DEF ToPool
  <2>3. ASSUME NEW status \in Statuses, ToFinals(t, status) PROVE Good
    <3>1. \A f \in Finals : ~Has(f, t)
      BY <1>a, <2>1 DEF OnePlace
    <3>2. /\ \/ task[t].todo = <<>> /\ status = task[t].status
             \/ /\ task[t].todo # <<>> /\ status = "ERROR"
                /\ entry[Head(task[t].todo)] = "gone" \/ IsStop
          /\ task' = IF Registered = {} THEN task ELSE [task EXCEPT ![t].note = status]
          /\ notQ' = [f \in Finals |-> IF f \in Notified THEN notQ[f] \cup {t} ELSE notQ[f]]
      BY <2>3 DEF ToFinals
    <3>3. /\ task[t].todo = <<>> /\ task[t].status = "OK" => ran[t] = IF t \in early THEN <<>> ELSE Path
          /\ task[t].todo # <<>> => \E i \in DOMAIN Path : Path[i] = Head(task[t].todo)
      BY <1>b, RouteEnds
    <3>4. status = "ERROR" => IsStop \/ task[t].status = "ERROR" \/ PathGone
      BY <3>2, <3>3 DEF PathGone
    <3>5. status = "OK" => ran[t] = IF t \in early THEN <<>> ELSE Path
      BY <3>2, <3>3
    <3>6. \A x \in Tasks : /\ task'[x].status = task[x].status
                           /\ task'[x].note = task[x].note \/ (x = t /\ task'[x].note = status)
      <4>1. CASE task' = task
        BY <4>1
      <4>2. CASE task' = [task EXCEPT ![t].note = status]
        BY <1>b, <4>2
      <4> QED BY <3>2, <4>1, <4>2
    <3>7. \A f \in Finals : \A x \in Tasks : Has(f, x) => x # t
      BY <3>1
    <3>8. CASE Registered = {}
      <4>1. task' = task /\ notQ' = notQ
        BY <1>b, <3>2, <3>8 DEF Notified
      <4> QED BY <1>1, <2>1, <4>1
    <3>9. CASE Registered # {}
      <4>1. \A x \in Tasks : task'[x].note = IF x = t THEN status ELSE task[x].note
        BY <1>b, <3>2, <3>9
      <4>2. \A x \in Tasks : task'[x].note = "ERROR" => IsStop' \/ task'[x].status = "ERROR" \/ PathGone'
        BY <1>a, <1>d, <2>1, <3>4, <3>6, <4>1 DEF Notes
      <4>3. \A f \in Finals : \A x \in Tasks :
              (x \in notQ'[f] \/ x \in pending'[f]) /\ task'[x].note = "OK" =>
                 ran'[x] = IF x \in early' THEN <<>> ELSE Path
        <5>1. ASSUME NEW f \in Finals, NEW x \in Tasks, x \in notQ'[f] \/ x \in pending'[f],
                     task'[x].note = "OK"
              PROVE  ran[x] = IF x \in early THEN <<>> ELSE Path
          <6>1. CASE x = t
            BY <3>5, <4>1, <5>1, <6>1
          <6>2. CASE x # t
            BY <1>a, <1>b, <2>1, <3>2, <4>1, <5>1, <6>2 DEF Notes
          <6> QED BY <6>1, <6>2
        <5> QED BY <2>1, <5>1
      <4>4. Notes'
        BY <1>a, <2>1, <4>2, <4>3 DEF Notes
      <4>5. \A x \in Tasks : RanOn(x)' = RanOn(x)
        BY <2>1 DEF RanOn
      <4>6. \A x \in Tasks : \A n \in RanOn(x)' : entry'[n] # "gone"
        BY DEF Served
      <4>7. VerdictHasCause'
        BY <1>a, <1>d, <2>1, <4>5, <4>6 DEF VerdictHasCause, PathGone
      <4> QED BY <4>4, <4>7
    <3> QED BY <3>8, <3>9
  <2> QED BY <2>1, <2>2, <2>3
<1>4. ASSUME NEW w \in Workers, WorkRun(w) PROVE Good
  <2>1. PICK t : t = work[w].t
    OBVIOUS
  <2>2. work[w].st = "run" /\ UNCHANGED <<early, verdict, delivered, notQ, pending>>
    BY <1>4 DEF WorkRun
  <2>3. t \in Tasks /\ \A f \in Finals : ~Has(f, t)
    BY <2>1, <2>2, RunsNext
  <2>4. \A x \in Tasks \ {t} : task'[x] = task[x] /\ ran'[x] = ran[x] /\ ended'[x] = ended[x]
    BY <1>b, <1>4, <2>1, <2>3 DEF WorkRun
  <2>5. PICK r \in Outcomes \ {"throw"} : task' = [task EXCEPT ![t] = AfterCallback(@, r = "ok")]
    BY <1>4, <2>1 DEF WorkRun
  <2>6. task'[t] = AfterCallback(task[t], r = "ok")
    BY <1>b, <2>3, <2>5
  <2>7. task'[t].note = task[t].note /\ (task[t].status = "ERROR" => task'[t].status = "ERROR")
    <3>1. task[t] \in [todo : Seq(Nodes), status : Statuses, note : Statuses]
      BY <1>b, <2>3
    <3>2. CASE r = "ok"
      BY <2>6, <3>1, <3>2 DEF AfterCallback
    <3>3. CASE r # "ok"
      BY <2>6, <3>1, <3>3 DEF AfterCallback
    <3> QED BY <3>2, <3>3
  <2>8. \A x \in Tasks : task'[x].note = task[x].note /\ (task[x].status = "ERROR" => task'[x].status = "ERROR")
    BY <2>4, <2>7
  <2>9. \A f \in Finals : \A x \in Tasks : Has(f, x) => ran'[x] = ran[x] /\ ended'[x] = ended[x]
    BY <2>3, <2>4
  <2> QED BY <1>a, <1>d, <2>2, <2>8, <2>9, NotesKept
<1>5. ASSUME NEW w \in Workers, WorkListen(w) PROVE Good
  <2>1. UNCHANGED <<ran, ended, early, verdict, delivered, notQ, pending>>
    BY <1>5 DEF WorkListen
  <2>2. PICK t : t = work[w].t
    OBVIOUS
  <2>3. task' = IF heard # {} /\ (PoolStop \/ task[t].status = "ERROR")
                THEN [task EXCEPT ![t].note = "ERROR"] ELSE task
    BY <1>5, <2>2 DEF WorkListen
  <2>4. CASE task' = task
    BY <1>1, <2>1, <2>4
  <2>5. CASE task' = [task EXCEPT ![t].note = "ERROR"] /\ (PoolStop \/ task[t].status = "ERROR")
    <3>1. PoolStop => IsStop
      BY DEF PoolStop, IsStop, Stopping
    <3>2. \A x \in Tasks : /\ task'[x].status = task[x].status
                           /\ task'[x].note = IF x = t THEN "ERROR" ELSE task[x].note
      BY <1>b, <2>5
    <3> QED BY <1>a, <1>d, <2>1, <2>5, <3>1, <3>2, NotesKept
  <2> QED BY <2>3, <2>4, <2>5
<1>6. ASSUME NEW f \in Finals, FinalHold(f) PROVE Good
  <2>1. PICK t \in Tasks : Takes(f, t) /\ pending' = [pending EXCEPT ![f] = @ \cup {t}]
    BY <1>6 DEF FinalHold
  <2>2. t \in notQ[f] /\ notQ' = [notQ EXCEPT ![f] = @ \ {t}]
    BY <2>1, SchedulableIn DEF Takes
  <2>3. UNCHANGED <<task, ran, ended, early, verdict, delivered>>
    BY <1>6 DEF FinalHold
  <2>4. \A g \in Finals : \A x \in Tasks :
          x \in notQ'[g] \/ x \in pending'[g] => x \in notQ[g] \/ x \in pending[g]
    BY <1>b, <2>1, <2>2
  <2> QED BY <1>a, <1>d, <2>3, <2>4, NotesKept
<1>7. ASSUME NEW f \in Finals, FinalHandOver(f) \/ FinalUnbound(f), disp # "crashed" PROVE Good
  <2>1. PICK t \in 1 .. made, u \in 1 .. made :
          /\ t <= u /\ t = Len(delivered[f]) + 1 /\ t \in notQ[f] /\ t + 1 .. u \subseteq pending[f]
          /\ notQ' = [notQ EXCEPT ![f] = @ \ {t}]
          /\ Len(delivered'[f]) = u /\ \A g \in Finals \ {f} : delivered'[g] = delivered[g]
          /\ verdict' = [verdict EXCEPT ![f] = [v \in Tasks |-> IF v \in t .. u THEN task[v].note
                                                               ELSE @[v]]]
          /\ pending' = pending \/ pending' = [pending EXCEPT ![f] = @ \ (t .. u)]
          /\ UNCHANGED <<entry, early, task, ran, ended>>
    BY <1>a, <1>7, HandedOver
  <2>2. \A g \in Finals : \A x \in Tasks :
          x \in notQ'[g] \/ x \in pending'[g] => x \in notQ[g] \/ x \in pending[g]
    BY <1>b, <2>1
  <2>3. \A g \in Finals : \A x \in Tasks : \/ verdict'[g][x] = verdict[g][x]
                                           \/ g = f /\ x \in t .. u /\ verdict'[g][x] = task[x].note
    BY <1>b, <2>1
  <2>4. \A x \in t .. u : x <= u /\ (x = t \/ x \in t + 1 .. u)
    BY <1>b
  <2>5. \A x \in Tasks : x <= Len(delivered[f]) => x <= u
    BY <1>b, <2>1 DEF Tasks
  <2>6. \A g \in Finals : \A x \in Tasks : verdict'[g][x] # "none" => x <= Len(delivered'[g])
    BY <1>a, <2>1, <2>3, <2>4, <2>5 DEF Notes
  <2>7. Notes'
    BY <1>a, <1>d, <2>1, <2>2, <2>6 DEF Notes
  <2>8. \A x \in Tasks : RanOn(x)' = RanOn(x)
    BY <2>1 DEF RanOn
  <2>9. \A x \in Tasks : \A n \in RanOn(x)' : entry'[n] # "gone"
    BY DEF Served
  <2>10. ASSUME NEW x \in Tasks, x \in t .. u
         PROVE  /\ task[x].note = "ERROR" => IsStop \/ ended[x] # RanOn(x) \/ PathGone
                /\ task[x].note = "OK" => ran[x] = IF x \in early THEN <<>> ELSE Path
    <3>1. x \in 1 .. made /\ (x \in notQ[f] \/ x \in pending[f])
      BY <1>b, <2>1, <2>4, <2>10
    <3>2. task[x].status = "ERROR" => ended[x] # RanOn(x)
      BY <3>1, RouteEnds
    <3> QED BY <1>a, <3>1, <3>2 DEF Notes
  <2>11. ASSUME NEW g \in Finals, NEW x \in Tasks
         PROVE  /\ verdict'[g][x] = "ERROR" => IsStop \/ ended[x] # RanOn(x) \/ PathGone
                /\ verdict'[g][x] = "OK" => ran[x] = IF x \in early THEN <<>> ELSE Path
    <3>1. CASE verdict'[g][x] = verdict[g][x]
      BY <1>a, <3>1 DEF VerdictHasCause, PathGone
    <3>2. CASE x \in t .. u /\ verdict'[g][x] = task[x].note
      BY <2>10, <3>2
    <3> QED BY <2>3, <3>1, <3>2
  <2>12. VerdictHasCause'
    BY <1>d, <2>1, <2>8, <2>9, <2>11 DEF VerdictHasCause, PathGone
  <2> QED BY <2>7, <2>12
<1>8. ASSUME StopEnd PROVE Good
  <2>1. pending' = [f \in Finals |-> {}] /\ UNCHANGED <<task, ran, ended, early, verdict, delivered, notQ>>
    BY <1>8 DEF StopEnd
  <2> QED BY <1>a, <1>d, <2>1, NotesKept
<1>9. ASSUME \/ UNCHANGED vars \/ Configuration
             \/ SubmitCount \/ SubmitWait \/ SubmitWake \/ DispExit
             \/ StopNodes \/ StopPool \/ StopDisp \/ DispJoined
             \/ (\E f \in Finals : FinalExit(f) \/ StopFinal(f))
             \/ \E w \in Workers : WorkTake(w) \/ WorkExit(w) \/ WorkThrow(w) \/ WorkQueue(w)
      PROVE Good
  <2>1. UNCHANGED <<task, ran, ended, early, verdict, delivered, notQ, pending>>
    BY <1>9 DEF vars, Configuration, AddPipeNode, ReplacePipeNode, AddFinal, AddListener, Start,
                SubmitCount, SubmitWait, SubmitWake, DispExit,
                StopNodes, StopPool, StopDisp, DispJoined, StopFinal, FinalExit,
                WorkTake, WorkExit, WorkThrow, WorkQueue
  <2> QED BY <1>1, <2>1
<1> QED BY <1>2, <1>3, <1>4, <1>5, <1>6, <1>7, <1>8, <1>9 DEF Next, Submit, Worker, FinalLoop, Stop

(* What holds at the start, and what every step keeps.                       *)
LEMMA TaskInit == Init => TaskInv
<1> SUFFICES ASSUME Init PROVE TaskInv
  OBVIOUS
<1>1. OrderInv
  BY DEF Init, OrderInv, NotifierTypes, LoopsRun, ExpectsNext, EachFinalInOrder, Stopping,
         DoneCallbacks
<1>2. TaskTypesOK
  <2>1. /\ task \in [Tasks -> [todo : Seq(Nodes), status : Statuses, note : Statuses]]
        /\ ran \in [Tasks -> Seq(Nodes)]
    <3>1. <<>> \in Seq(Nodes)
      OBVIOUS
    <3> QED BY <3>1 DEF Init, Statuses
  <2>2. early \subseteq 1 .. made /\ made \in 0 .. MaxTask
    BY NotificationAssumption DEF Init
  <2> QED BY <2>1, <2>2 DEF Init, TaskTypesOK
<1>3. QueueTypes
  <2>1. poolQ \in Seq(1 .. made)
    BY DEF Init
  <2>2. \A f \in Finals : Len(delivered[f]) <= made
    BY DEF Init
  <2> QED BY <2>1, <2>2 DEF Init, QueueTypes, NoWork, NoTask, Registered
<1>4. Phases
  BY DEF Init, Phases, DispStop, PoolStop, NoWork, Registered
<1>5. \A t \in Tasks : ~InPool(t) /\ ~Held(t) /\ \A f \in Finals : ~Has(f, t)
  BY NotificationAssumption DEF Init, InPool, Held, Holds, Has, NoWork, Tasks
<1>6. OnePlace
  BY <1>5 DEF Init, OnePlace, Held
<1>7. NoneDropped
  BY DEF Init, NoneDropped
<1>8. NotPending
  BY DEF Init, NotPending
<1>9. Routes
  BY <1>5 DEF Init, Routes, Fresh, NoWork
<1>10. Served
  BY <1>5 DEF Init, Served, RanOn, NoWork
<1>11. Notes
  BY DEF Init, Notes
<1>12. VerdictHasCause
  BY DEF Init, VerdictHasCause
<1> QED BY <1>1, <1>2, <1>3, <1>4, <1>6, <1>7, <1>8, <1>9, <1>10, <1>11, <1>12 DEF TaskInv

(* Every step keeps the inductive invariant.                                 *)
LEMMA TaskStep == ASSUME TaskInv, [Next]_vars PROVE TaskInv'
<1>1. OrderInv'
  BY OrderStep DEF TaskInv
<1>2. Served'
  BY ServedStep
<1> QED
  BY <1>1, <1>2, TaskTypesStep, QueueTypesStep, PhasesStep, PlacesStep, NotPendingStep, RoutesStep, NotesStep
     DEF TaskInv

(* A FINAL notifier is told ERROR or OK only when there is a cause for it.   *)
THEOREM VerdictsCaused == Spec => []VerdictHasCause
<1>1. TaskInv => VerdictHasCause
  BY DEF TaskInv
<1> QED BY <1>1, TaskInit, TaskStep, PTL DEF Spec

(* Each listener is told of a node once, however the workers interleave.     *)
LEMMA ToldStep == ASSUME TaskInv, ListenersTold, [Next]_vars PROVE ListenersTold'
<1> USE DEF cfgVars, notVars, subVars, runVars
<1> DEFINE In(w, t, n) == work[w].st \in {"queue", "listen"} /\ work[w].t = t /\ work[w].n = n
<1>a. TaskTypesOK /\ QueueTypes /\ Phases /\ Routes
  BY DEF TaskInv
<1>b. /\ made \in Nat /\ 1 .. made \subseteq Tasks
      /\ work \in [Workers -> [st : {"idle", "run", "queue", "listen", "exited"},
                               t : (1 .. made) \cup {NoTask}, n : Nodes \cup {"none"}]]
      /\ \A w \in Workers : work[w].st \in {"run", "queue", "listen"} => work[w].t \in 1 .. made
      /\ told \in [Tasks -> [Wanted -> Nat]] /\ ended \in [Tasks -> SUBSET Nodes]
  BY <1>a, NotificationAssumption DEF TaskTypesOK, QueueTypes, Tasks
<1>1. ASSUME UNCHANGED <<told, heard, ended>>, \A w \in Workers : \A t \in Tasks : \A n : In(w, t, n)' <=> In(w, t, n)
      PROVE ListenersTold'
  <2>1. \A t \in Tasks : \A n : Telling(t, n)' <=> Telling(t, n)
    BY <1>1 DEF Telling
  <2> QED BY <1>1, <2>1 DEF ListenersTold
<1>2. ASSUME NEW l \in Listeners, AddListener(l) PROVE ListenersTold'
  <2>1. ctl = "config" /\ UNCHANGED <<told, ended>>
    BY <1>2 DEF AddListener
  <2>2. \A t \in Tasks : ended[t] = {}
    BY <1>a, <2>1 DEF Phases
  <2> QED BY <2>1, <2>2 DEF ListenersTold
<1>3. ASSUME NEW w \in Workers, WorkRun(w) PROVE ListenersTold'
  <2>1. PICK t : t = work[w].t
    OBVIOUS
  <2>2. PICK n : n = work[w].n
    OBVIOUS
  <2>3. work[w].st = "run" /\ work' = [work EXCEPT ![w].st = "queue"] /\ UNCHANGED <<told, heard>>
        /\ ended' = [ended EXCEPT ![t] = @ \cup {n}]
    BY <1>3, <2>1, <2>2 DEF WorkRun
  <2>4. t \in Tasks /\ n \notin ended[t]
    BY <2>1, <2>2, <2>3, RunsNext
  <2>5. \A x \in Tasks : \A m : Telling(x, m)' <=> Telling(x, m) \/ (x = t /\ m = n)
    <3>1. \A v \in Workers : /\ work'[v].t = work[v].t /\ work'[v].n = work[v].n
                             /\ work'[v].st = IF v = w THEN "queue" ELSE work[v].st
      BY <1>b, <2>3
    <3> QED BY <2>1, <2>2, <2>3, <3>1 DEF Telling
  <2>6. \A x \in Tasks : \A m : m \in ended'[x] <=> m \in ended[x] \/ (x = t /\ m = n)
    BY <1>b, <2>3
  <2> QED BY <2>3, <2>4, <2>5, <2>6 DEF ListenersTold
<1>4. ASSUME NEW w \in Workers, WorkListen(w) PROVE ListenersTold'
  <2>1. PICK t : t = work[w].t
    OBVIOUS
  <2>2. PICK n : n = work[w].n
    OBVIOUS
  <2> DEFINE by == [x \in Wanted |-> told[t][x] + (IF x \in Called(t, n) THEN 1 ELSE 0)]
  <2>3. work[w].st = "listen" /\ work' = [work EXCEPT ![w] = NoWork] /\ UNCHANGED <<ended, heard>>
        /\ told' = [told EXCEPT ![t] = by]
    BY <1>4, <2>1, <2>2 DEF WorkListen
  <2>4. t \in Tasks /\ n \in ended[t] /\ Telling(t, n)
    <3>1. t \in Tasks
      BY <1>b, <2>1, <2>3
    <3>2. n \in ended[t]
      BY <1>a, <2>1, <2>2, <2>3 DEF Routes
    <3> QED BY <2>1, <2>2, <2>3, <3>1, <3>2 DEF Telling
  <2>5. \A x \in Tasks : \A m : Telling(x, m)' <=> Telling(x, m) /\ ~(x = t /\ m = n)
    <3>1. \A v \in Workers : work'[v] = IF v = w THEN NoWork ELSE work[v]
      BY <1>b, <2>3
    <3>2. NoWork.st = "idle"
      BY DEF NoWork
    <3>3. \A v \in Workers : (work[v].st \in {"queue", "listen"} /\ work[v].t = t /\ work[v].n = n) => v = w
      BY <1>a, <2>1, <2>2, <2>3 DEF Routes
    <3> QED BY <2>1, <2>2, <3>1, <3>2, <3>3 DEF Telling
  <2>6. \A x \in Wanted : by[x] = told[t][x] + IF x[1] = n /\ x[2] \in heard THEN 1 ELSE 0
    BY DEF Called
  <2> HIDE DEF by
  <2>7. \A y \in Tasks : told'[y] = IF y = t THEN by ELSE told[y]
    BY <1>b, <2>3
  <2>8. ASSUME NEW x \in Wanted
        PROVE  told'[t][x] = IF x[2] \in heard /\ x[1] \in ended[t] /\ ~Telling(t, x[1])' THEN 1 ELSE 0
    <3>1. told[t][x] = IF x[2] \in heard /\ x[1] \in ended[t] /\ ~Telling(t, x[1]) THEN 1 ELSE 0
      BY <2>4 DEF ListenersTold
    <3>2. told'[t][x] = told[t][x] + IF x[1] = n /\ x[2] \in heard THEN 1 ELSE 0
      BY <2>4, <2>6, <2>7
    <3>3. CASE x[1] = n
      BY <2>4, <2>5, <3>1, <3>2, <3>3
    <3>4. CASE x[1] # n
      BY <2>4, <2>5, <3>1, <3>2, <3>4
    <3> QED BY <3>3, <3>4
  <2>9. \A y \in Tasks \ {t} : \A x \in Wanted :
          told'[y][x] = IF x[2] \in heard /\ x[1] \in ended[y] /\ ~Telling(y, x[1])' THEN 1 ELSE 0
    BY <2>5, <2>7 DEF ListenersTold
  <2> QED BY <2>3, <2>8, <2>9 DEF ListenersTold
<1>5. ASSUME NEW w \in Workers, WorkTake(w) PROVE ListenersTold'
  <2> DEFINE r == [st |-> "run", t |-> Head(poolQ), n |-> Head(task[Head(poolQ)].todo)]
  <2>1. work[w].st = "idle" /\ work' = [work EXCEPT ![w] = r] /\ UNCHANGED <<told, heard, ended>>
    BY <1>5 DEF WorkTake
  <2>2. r.st = "run"
    OBVIOUS
  <2> HIDE DEF r
  <2>3. \A v \in Workers : work'[v] = IF v = w THEN r ELSE work[v]
    BY <1>b, <2>1
  <2> QED BY <1>1, <2>1, <2>2, <2>3
<1>6. ASSUME NEW w \in Workers, WorkExit(w) \/ WorkThrow(w) \/ WorkQueue(w) PROVE ListenersTold'
  <2>1. UNCHANGED <<told, heard, ended>>
    BY <1>6 DEF WorkExit, WorkThrow, WorkQueue
  <2>2. CASE WorkExit(w)
    <3>1. work[w].st = "idle" /\ work' = [work EXCEPT ![w].st = "exited"]
      BY <2>2 DEF WorkExit
    <3>2. \A v \in Workers : /\ work'[v].t = work[v].t /\ work'[v].n = work[v].n
                             /\ work'[v].st = IF v = w THEN "exited" ELSE work[v].st
      BY <1>b, <3>1
    <3> QED BY <1>1, <2>1, <3>1, <3>2
  <2>3. CASE WorkThrow(w)
    <3>1. work[w].st = "run" /\ work' = [work EXCEPT ![w] = NoWork]
      BY <2>3 DEF WorkThrow
    <3>2. NoWork.st = "idle" /\ \A v \in Workers : work'[v] = IF v = w THEN NoWork ELSE work[v]
      BY <1>b, <3>1 DEF NoWork
    <3> QED BY <1>1, <2>1, <3>1, <3>2
  <2>4. CASE WorkQueue(w)
    <3>1. work[w].st = "queue" /\ work' = [work EXCEPT ![w].st = "listen"]
      BY <2>4 DEF WorkQueue
    <3>2. \A v \in Workers : /\ work'[v].t = work[v].t /\ work'[v].n = work[v].n
                             /\ work'[v].st = IF v = w THEN "listen" ELSE work[v].st
      BY <1>b, <3>1
    <3> QED BY <1>1, <2>1, <3>1, <3>2
  <2> QED BY <1>6, <2>2, <2>3, <2>4
<1>7. ASSUME \/ UNCHANGED vars \/ Start \/ (\E f \in Finals : AddFinal(f))
             \/ (\E n \in Nodes : AddPipeNode(n) \/ ReplacePipeNode(n))
             \/ Submit \/ Dispatch \/ DispExit \/ Stop
             \/ \E f \in Finals : FinalLoop(f)
      PROVE ListenersTold'
  <2>1. UNCHANGED <<told, heard, ended, work>>
    BY <1>7 DEF vars, AddPipeNode, ReplacePipeNode, AddFinal, Start,
                Submit, SubmitQueue, SubmitCount, SubmitWait, SubmitWake, Dispatch, DispExit,
                Stop, StopNodes, StopPool, StopDisp, DispJoined, StopFinal, StopEnd,
                FinalLoop, FinalHold, FinalHandOver, FinalUnbound, FinalExit
  <2> QED BY <1>1, <2>1
<1> QED BY <1>2, <1>3, <1>4, <1>5, <1>6, <1>7 DEF Next, Worker, Configuration

(* A TASK_LISTEN notifier is called once for each node a task asked for it at.*)
THEOREM ListenersToldOnce == Spec => []ListenersTold
<1>1. Init => ListenersTold
  BY DEF Init, ListenersTold
<1>2. TaskInv /\ ListenersTold /\ [Next]_vars => TaskInv' /\ ListenersTold'
  BY TaskStep, ToldStep
<1> QED BY <1>1, <1>2, TaskInit, PTL DEF Spec

(* When stop() ends, each notifier has been handed what came before the      *)
(* first task an exception lost.                                             *)
LEMMA DrainedAtEnd ==
  ASSUME TaskInv, ctl = "notif", disp = "ended", NEW f \in Registered, loop[f] = "ended"
  PROVE  {delivered[f][i] : i \in DOMAIN delivered[f]} = {t \in 1 .. made : (1 .. t) \cap lost = {}}
<1>a. TaskTypesOK /\ QueueTypes /\ OrderInv /\ Phases /\ OnePlace /\ NoneDropped /\ NotPending
  BY DEF TaskInv
<1>b. /\ made \in Nat /\ 1 .. made \subseteq Tasks /\ f \in Finals
      /\ delivered[f] \in Seq(Tasks) /\ Len(delivered[f]) <= made /\ pending[f] \subseteq 1 .. made
  BY <1>a, NotificationAssumption DEF TaskTypesOK, QueueTypes, OrderInv, NotifierTypes, Tasks, Registered
<1>1. PICK l \in Nat : l = Len(delivered[f]) /\ DOMAIN delivered[f] = 1 .. l
  BY <1>b
<1>2. dispQ = {} /\ poolQ = <<>> /\ notQ[f] = {} /\ \A w \in Workers : work[w].st = "exited"
  BY <1>a, <1>b, NotificationAssumption DEF Phases, DispStop
<1>3. \A t \in 1 .. made : t \in lost \/ t \in pending[f] \/ t <= l
  <2>1. \A t \in Tasks : ~InPool(t) /\ ~Held(t)
    BY <1>2 DEF InPool, Held, Holds
  <2> QED BY <1>a, <1>b, <1>1, <1>2, <2>1 DEF NoneDropped, Has
<1>4. l + 1 \notin pending[f]
  BY <1>a, <1>b, <1>1 DEF NotPending, OrderInv, ExpectsNext
<1>5. \A t \in 1 .. l : t \notin lost /\ t \in 1 .. made
  <2>1. \A t \in 1 .. l : t \in 1 .. made /\ Has(f, t)
    BY <1>b, <1>1 DEF Has
  <2> QED BY <1>a, <1>b, <2>1 DEF OnePlace
<1>6. {delivered[f][i] : i \in DOMAIN delivered[f]} = 1 .. l
  BY <1>a, <1>b, <1>1 DEF OrderInv, EachFinalInOrder
<1>7. ASSUME NEW t \in 1 .. l PROVE t \in 1 .. made /\ (1 .. t) \cap lost = {}
  <2>1. \A s \in 1 .. t : s \in 1 .. l
    OBVIOUS
  <2> QED BY <1>5, <2>1
<1>8. ASSUME NEW t \in 1 .. made, (1 .. t) \cap lost = {} PROVE t \in 1 .. l
  <2>1. CASE t <= l
    BY <2>1
  <2>2. CASE t > l
    <3>1. l + 1 \in 1 .. t /\ l + 1 \in 1 .. made /\ ~(l + 1 <= l)
      BY <1>b, <1>1, <2>2
    <3>2. l + 1 \in lost
      BY <1>3, <1>4, <3>1
    <3> QED BY <1>8, <3>1, <3>2
  <2> QED BY <2>1, <2>2, <1>b, <1>1
<1> QED BY <1>6, <1>7, <1>8

(* No step drops a task between stop() and the end of the dispatcher.         *)
LEMMA DrainStep == ASSUME TaskInv, StopDrains, [Next]_vars PROVE StopDrains'
<1> USE DEF cfgVars, notVars, subVars, runVars
<1>a. TaskTypesOK /\ QueueTypes /\ OrderInv /\ Phases
  BY DEF TaskInv
<1> DEFINE drainVars == <<ctl, disp, dispQ, poolQ, notQ, done, delivered, made, lost>>
<1>0. ASSUME UNCHANGED drainVars PROVE StopDrains'
  BY <1>0 DEF StopDrains, Registered
<1>1. CASE ctl' # "stopped" \/ disp' # "ended"
  BY <1>1 DEF StopDrains
<1>2. CASE UNCHANGED vars
  BY <1>0, <1>2 DEF vars
<1>3. ASSUME StopEnd, disp' = "ended" PROVE StopDrains'
  <2>1. /\ ctl = "notif" /\ disp = "ended" /\ \A f \in Registered : loop[f] = "ended"
        /\ UNCHANGED <<disp, dispQ, poolQ, notQ, done, delivered, made, lost>>
    BY <1>3 DEF StopEnd, Joined
  <2>2. dispQ = {} /\ poolQ = <<>> /\ \A f \in Registered : notQ[f] = {}
    BY <1>a, <2>1, NotificationAssumption DEF Phases, DispStop, Registered
  <2>3. \A f \in Registered :
          {delivered[f][i] : i \in DOMAIN delivered[f]} = {t \in 1 .. made : (1 .. t) \cap lost = {}}
    BY <2>1, DrainedAtEnd
  <2> QED BY <2>1, <2>2, <2>3 DEF StopDrains, Registered
<1>4. CASE ctl = "stopped" /\ disp = "ended"
  <2>1. \A w \in Workers : work[w].st = "exited"
    BY <1>a, <1>4 DEF Phases, DispStop
  <2>2. \A f \in Finals : loop[f] # "on"
    BY <1>a, <1>4 DEF OrderInv, LoopsRun
  <2>3. IsStop
    BY <1>4 DEF IsStop
  <2>4. ASSUME NEW w \in Workers PROVE ~Worker(w)
    BY <2>1 DEF Worker, WorkTake, WorkExit, WorkRun, WorkThrow, WorkQueue, WorkListen
  <2>5. ASSUME NEW f \in Finals PROVE ~FinalLoop(f)
    BY <2>2 DEF FinalLoop, FinalHold, FinalHandOver, FinalUnbound, FinalExit, Takes
  <2>6. ~Dispatch /\ ~DispExit /\ ~Stop /\ ~Configuration /\ ~SubmitQueue
    BY <1>4, <2>3 DEF Dispatch, DispExit, Stop, StopNodes, StopPool, StopDisp, DispJoined, StopFinal, StopEnd,
       Configuration, AddPipeNode, ReplacePipeNode, AddFinal, AddListener, Start, SubmitQueue
  <2>7. CASE SubmitCount \/ SubmitWait \/ SubmitWake
    BY <1>0, <2>7 DEF SubmitCount, SubmitWait, SubmitWake
  <2> QED BY <1>2, <2>4, <2>5, <2>6, <2>7 DEF Next, Submit
<1>5. CASE disp = "ended" /\ ctl # "stopped" /\ ~StopEnd
  <2>1. ctl' # "stopped" \/ UNCHANGED drainVars
    BY <1>5 DEF Next, vars, Configuration, AddPipeNode, ReplacePipeNode, AddFinal, AddListener, Start,
                Submit, SubmitQueue, SubmitCount, SubmitWait, SubmitWake, Dispatch, DispExit,
                Stop, StopNodes, StopPool, StopDisp, DispJoined, StopFinal,
                Worker, WorkTake, WorkExit, WorkRun, WorkThrow, WorkQueue, WorkListen,
                FinalLoop, FinalHold, FinalHandOver, FinalUnbound, FinalExit
  <2> QED BY <1>0, <1>1, <2>1
<1>6. CASE disp # "ended" /\ disp' = "ended"
  <2>1. DispExit /\ ctl' = ctl /\ disp = "on"
    BY <1>6 DEF Next, vars, Configuration, AddPipeNode, ReplacePipeNode, AddFinal, AddListener, Start,
                Submit, SubmitQueue, SubmitCount, SubmitWait, SubmitWake, Dispatch, DispExit,
                Stop, StopNodes, StopPool, StopDisp, DispJoined, StopFinal, StopEnd,
                Worker, WorkTake, WorkExit, WorkRun, WorkThrow, WorkQueue, WorkListen,
                FinalLoop, FinalHold, FinalHandOver, FinalUnbound, FinalExit
  <2>2. ctl' # "stopped"
    BY <1>a, <2>1 DEF Phases
  <2> QED BY <1>1, <2>2
<1> QED BY <1>1, <1>3, <1>4, <1>5, <1>6

(* After stop() nothing is queued, and each FINAL notifier has what came     *)
(* before the first task an exception lost.                                  *)
THEOREM StopDrainsAll == Spec => []StopDrains
<1>1. Init => StopDrains
  BY DEF Init, StopDrains
<1>2. TaskInv /\ StopDrains /\ [Next]_vars => TaskInv' /\ StopDrains'
  BY TaskStep, DrainStep
<1> QED BY <1>1, <1>2, TaskInit, PTL DEF Spec

(* A pipeline that has reported its first task and been stopped has no FINAL *)
(* notifier without a done callback.                                         *)
THEOREM SurvivorsBound == Spec => []SurvivorsAreBound
<1>1. Init => StopDrains
  BY DEF Init, StopDrains
<1>2. TaskInv /\ StopDrains /\ [Next]_vars => TaskInv' /\ StopDrains'
  BY TaskStep, DrainStep
<1>3. ASSUME TaskInv, StopDrains PROVE SurvivorsAreBound
  <2> SUFFICES ASSUME ctl = "stopped", disp = "ended", made > 0, 1 \notin lost,
                      NEW f \in Finals, done[f] = "none"
               PROVE  FALSE
    BY DEF SurvivorsAreBound
  <2>1. f \in Registered
    BY DEF Registered
  <2>2. {delivered[f][i] : i \in DOMAIN delivered[f]} = {t \in 1 .. made : (1 .. t) \cap lost = {}}
    BY <1>3, <2>1 DEF StopDrains
  <2>3. 1 \in 1 .. made /\ (1 .. 1) \cap lost = {}
    BY <1>3, NotificationAssumption DEF TaskInv, TaskTypesOK
  <2>4. delivered[f] # <<>>
    BY <2>2, <2>3
  <2> QED BY <1>3, <2>4 DEF TaskInv, Phases
<1> QED BY <1>1, <1>2, <1>3, TaskInit, PTL DEF Spec

----------------------------------------------------------------------------
(* The count. *)

(* Division with remainder.                                                  *)
LEMMA DivMod ==
  ASSUME NEW a \in Int, NEW w \in Nat \ {0}
  PROVE  a \div w \in Int /\ a % w \in 0 .. w - 1 /\ a = w * (a \div w) + (a % w)
OBVIOUS

(* A multiple of w that is not 0 is at least w.                               *)
LEMMA MulBound ==
  ASSUME NEW w \in Nat \ {0}, NEW d \in Nat \ {0}
  PROVE  w * d >= w
OBVIOUS

(* The remainder is the only value in its range that a multiple of w can be   *)
(* added to.                                                                 *)
LEMMA ModUnique ==
  ASSUME NEW a \in Int, NEW w \in Nat \ {0}, NEW q \in Int, NEW r \in 0 .. w - 1, a = w * q + r
  PROVE  a % w = r
<1> DEFINE p == a \div w
           s == a % w
<1>1. p \in Int /\ s \in 0 .. w - 1 /\ a = w * p + s
  BY DivMod
<1> HIDE DEF p, s
<1>2. w * (q - p) = s - r /\ w * (p - q) = r - s
  BY <1>1
<1>3. CASE q - p \in Nat \ {0}
  BY <1>1, <1>2, <1>3, MulBound
<1>4. CASE p - q \in Nat \ {0}
  BY <1>1, <1>2, <1>4, MulBound
<1>5. CASE p = q
  BY <1>1, <1>5 DEF s
<1> QED BY <1>1, <1>3, <1>4, <1>5

(* Taking the remainder before an addition does not change the sum's.         *)
LEMMA ModShift ==
  ASSUME NEW x \in Int, NEW n \in Int, NEW w \in Nat \ {0}
  PROVE  ((x % w) + n) % w = (x + n) % w
<1> DEFINE q == x \div w
           r == x % w
           z == r + n
           p == z \div w
           s == z % w
<1>1. q \in Int /\ r \in 0 .. w - 1 /\ x = w * q + r
  BY DivMod
<1> HIDE DEF q, r
<1>2. z \in Int
  BY <1>1
<1> HIDE DEF z
<1>3. p \in Int /\ s \in 0 .. w - 1 /\ z = w * p + s
  BY <1>2, DivMod
<1> HIDE DEF p, s
<1> DEFINE k == q + p
           y == x + n
<1>4. k \in Int /\ y \in Int /\ y = w * k + s
  BY <1>1, <1>3 DEF z
<1> HIDE DEF k, y
<1>5. y % w = s
  BY <1>3, <1>4, ModUnique
<1> QED BY <1>5 DEF r, s, y, z

\* The calls of the done callback are finitely many.
CountInv == IsFiniteSet(DoneCalls) /\ CountLedger

(* Handing over tasks t to u calls the done callback of that notifier for    *)
(* each, if it is the pipeline's.                                            *)
LEMMA CallsGrow ==
  ASSUME OrderInv, IsFiniteSet(DoneCalls), NEW f \in Finals, NEW t \in Nat \ {0}, NEW u \in Nat, t <= u,
         t = Len(delivered[f]) + 1, Len(delivered'[f]) = u, delivered' \in [Finals -> Seq(Tasks)],
         \A g \in Finals \ {f} : delivered'[g] = delivered[g], UNCHANGED done
  PROVE  /\ IsFiniteSet(DoneCalls')
         /\ Cardinality(DoneCalls') =
              Cardinality(DoneCalls) + IF f \in Counting THEN u - t + 1 ELSE 0
<1>a. Counting' = Counting /\ Counting \subseteq Finals /\ delivered \in [Finals -> Seq(Tasks)]
  BY DEF Counting, OrderInv, NotifierTypes
<1>1. DOMAIN delivered[f] = 1 .. t - 1 /\ DOMAIN delivered'[f] = 1 .. u
  BY <1>a
<1>2. \A g \in Finals \ {f} : DOMAIN delivered'[g] = DOMAIN delivered[g]
  OBVIOUS
<1>3. CASE f \notin Counting
  <2>1. DoneCalls' = DoneCalls
    BY <1>a, <1>2, <1>3 DEF DoneCalls
  <2>2. Cardinality(DoneCalls) \in Nat
    BY FS_CardinalityType
  <2> QED BY <1>3, <2>1, <2>2
<1>4. CASE f \in Counting
  <2> DEFINE N == {f} \X (t .. u)
  <2>1. 1 .. u = (1 .. t - 1) \cup (t .. u) /\ \A i \in t .. u : i \notin 1 .. t - 1
    OBVIOUS
  <2>2. DoneCalls' = DoneCalls \cup N
    <3>1. ASSUME NEW c \in DoneCalls' PROVE c \in DoneCalls \cup N
      <4>1. PICK g \in Counting : c \in {g} \X DOMAIN delivered'[g]
        BY <1>a, <3>1 DEF DoneCalls
      <4>2. CASE g = f
        BY <1>1, <1>4, <2>1, <4>1, <4>2 DEF DoneCalls
      <4>3. CASE g # f
        BY <1>a, <1>2, <4>1, <4>3 DEF DoneCalls
      <4> QED BY <4>2, <4>3
    <3>2. ASSUME NEW c \in DoneCalls PROVE c \in DoneCalls'
      <4>1. PICK g \in Counting : c \in {g} \X DOMAIN delivered[g]
        BY <3>2 DEF DoneCalls
      <4>2. DOMAIN delivered[g] \subseteq DOMAIN delivered'[g]
        BY <1>a, <1>1, <1>2, <2>1
      <4> QED BY <1>a, <4>1, <4>2 DEF DoneCalls
    <3>3. ASSUME NEW c \in N PROVE c \in DoneCalls'
      BY <1>a, <1>1, <1>4, <2>1, <3>3 DEF DoneCalls
    <3> QED BY <3>1, <3>2, <3>3
  <2>3. DoneCalls \cap N = {}
    <3> SUFFICES ASSUME NEW c \in DoneCalls, c \in N PROVE FALSE
      OBVIOUS
    <3>1. PICK g \in Counting : c \in {g} \X DOMAIN delivered[g]
      BY DEF DoneCalls
    <3>2. g = f
      BY <3>1
    <3> QED BY <1>1, <2>1, <3>1, <3>2
  <2>4. IsFiniteSet(N) /\ Cardinality(N) = u - t + 1
    <3>1. IsFiniteSet(t .. u) /\ Cardinality(t .. u) = u - t + 1
      <4>1. t \in Int /\ u \in Int /\ ~(t > u)
        OBVIOUS
      <4> QED BY <4>1, FS_Interval
    <3>2. IsFiniteSet({f}) /\ Cardinality({f}) = 1
      BY FS_Singleton
    <3>3. IsFiniteSet(N) /\ Cardinality(N) = Cardinality({f}) * Cardinality(t .. u)
      BY <3>1, <3>2, FS_Product
    <3> QED BY <3>1, <3>2, <3>3
  <2> HIDE DEF N
  <2>5. Cardinality(DoneCalls \cap N) = 0
    BY <2>3, FS_EmptySet
  <2>6. Cardinality(DoneCalls) \in Nat
    BY FS_CardinalityType
  <2>7. IsFiniteSet(DoneCalls \cup N)
        /\ Cardinality(DoneCalls \cup N) = Cardinality(DoneCalls) + Cardinality(N) - Cardinality(DoneCalls \cap N)
    BY <2>4, FS_Union
  <2> QED BY <1>4, <2>2, <2>4, <2>5, <2>6, <2>7
<1> QED BY <1>3, <1>4

(* Steps that neither submit nor report.                                     *)
LEMMA CallsKept ==
  ASSUME \A f \in Counting : done'[f] = done[f] /\ delivered'[f] = delivered[f],
         \A f \in Finals : done'[f] = "pipeline" => f \in Counting \/ DOMAIN delivered'[f] = {}
  PROVE  DoneCalls' = DoneCalls
<1>1. ASSUME NEW c \in DoneCalls' PROVE c \in DoneCalls
  <2>1. PICK g \in Finals : done'[g] = "pipeline" /\ c \in {g} \X DOMAIN delivered'[g]
    BY <1>1 DEF DoneCalls, Counting
  <2>2. g \in Counting
    BY <2>1
  <2> QED BY <2>1, <2>2 DEF DoneCalls
<1>2. ASSUME NEW c \in DoneCalls PROVE c \in DoneCalls'
  <2>1. PICK g \in Counting : c \in {g} \X DOMAIN delivered[g]
    BY <1>2 DEF DoneCalls
  <2>2. g \in Counting'
    BY <2>1 DEF Counting
  <2> QED BY <2>1, <2>2 DEF DoneCalls
<1> QED BY <1>1, <1>2

(* The count is kept by every step: submit() adds one, a done callback takes *)
(* one off for every task handed over.                                       *)
LEMMA CountStep == ASSUME TaskInv, CountInv, [Next]_vars PROVE CountInv'
<1> USE DEF cfgVars, notVars, subVars, runVars
<1> DEFINE d == Cardinality(DoneCalls)
<1>a. TaskTypesOK /\ QueueTypes /\ OrderInv /\ Phases /\ OrderInv'
  BY TaskStep DEF TaskInv
<1>b. W \in Nat \ {0} /\ made \in Nat /\ Counted \in Int /\ count = (Counted - d) % W
  BY <1>a, NotificationAssumption DEF CountInv, CountLedger, TaskTypesOK, Counted
<1>c. d \in Nat /\ IsFiniteSet(DoneCalls)
  BY FS_CardinalityType DEF CountInv
<1> HIDE DEF d
<1>0. ASSUME DoneCalls' = DoneCalls, count' = count, Counted' = Counted PROVE CountInv'
  BY <1>b, <1>c, <1>0 DEF CountInv, CountLedger, d
<1>1. ASSUME UNCHANGED <<done, delivered>> PROVE DoneCalls' = DoneCalls
  BY <1>1 DEF DoneCalls, Counting
<1>2. ASSUME NEW f \in Finals, AddFinal(f) PROVE CountInv'
  <2>1. /\ done[f] = "absent" /\ UNCHANGED <<count, client, made, delivered>>
        /\ \E k \in DoneCallbacks : done' = [done EXCEPT ![f] = k]
    BY <1>2 DEF AddFinal, Built
  <2>2. \A g \in Finals \ {f} : done'[g] = done[g]
    BY <1>a, <2>1 DEF OrderInv, NotifierTypes
  <2>3. DOMAIN delivered'[f] = {}
    <3>1. delivered[f] = <<>>
      BY <1>a, <2>1 DEF Phases
    <3> QED BY <2>1, <3>1
  <2>4. DoneCalls' = DoneCalls
    BY <2>1, <2>2, <2>3, CallsKept DEF Counting
  <2> QED BY <1>0, <2>1, <2>4 DEF Counted
<1>3. ASSUME SubmitQueue \/ SubmitWait \/ SubmitWake PROVE CountInv'
  <2>1. UNCHANGED <<done, delivered, count>> /\ Counted' = Counted
    BY <1>b, <1>3 DEF SubmitQueue, SubmitWait, SubmitWake, Counted
  <2> QED BY <1>0, <1>1, <2>1
<1>4. ASSUME SubmitCount PROVE CountInv'
  <2>1. UNCHANGED <<done, delivered>> /\ count' = (count + 1) % W
    BY <1>4 DEF SubmitCount
  <2>2. Counted' = Counted + 1
    BY <1>b, <1>4 DEF SubmitCount, Counted
  <2>3. count' = ((Counted - d) + 1) % W
    <3> DEFINE x == Counted - d
    <3>1. x \in Int /\ count = x % W
      BY <1>b, <1>c
    <3> HIDE DEF x
    <3>2. ((x % W) + 1) % W = (x + 1) % W
      <4>1. \A n \in Int : ((x % W) + n) % W = (x + n) % W
        BY <1>b, <3>1, ModShift
      <4>2. 1 \in Int
        OBVIOUS
      <4> QED BY <4>1, <4>2
    <3> QED BY <2>1, <3>1, <3>2 DEF x
  <2>4. (Counted - d) + 1 = Counted' - d
    BY <1>b, <1>c, <2>2
  <2>5. DoneCalls' = DoneCalls
    BY <1>1, <2>1
  <2> QED BY <1>c, <2>3, <2>4, <2>5 DEF CountInv, CountLedger, d
<1>5. ASSUME NEW f \in Finals, FinalHandOver(f) \/ FinalUnbound(f), disp # "crashed" PROVE CountInv'
  <2>1. PICK t \in 1 .. made, u \in 1 .. made :
          /\ t <= u /\ t = Len(delivered[f]) + 1
          /\ Len(delivered'[f]) = u /\ \A g \in Finals \ {f} : delivered'[g] = delivered[g]
          /\ count' = IF done[f] = "pipeline" THEN Decremented(u - t + 1) ELSE count
          /\ UNCHANGED <<done, client, made>>
    <3>1. PICK t \in 1 .. made, u \in 1 .. made :
            /\ t <= u /\ t = Len(delivered[f]) + 1
            /\ Len(delivered'[f]) = u /\ \A g \in Finals \ {f} : delivered'[g] = delivered[g]
            /\ \/ count' = IF done[f] = "pipeline" THEN Decremented(u - t + 1) ELSE count
               \/ done[f] = "none" /\ count' = count
            /\ UNCHANGED <<done, client, made>>
      BY <1>a, <1>5, HandedOver
    <3> QED BY <3>1
  <2>2. t \in Nat \ {0} /\ u \in Nat
    BY <1>b
  <2>3. IsFiniteSet(DoneCalls')
        /\ Cardinality(DoneCalls') = d + IF f \in Counting THEN u - t + 1 ELSE 0
    BY <1>a, <1>c, <2>1, <2>2, CallsGrow DEF OrderInv, NotifierTypes, d
  <2>4. Counted' = Counted
    BY <2>1 DEF Counted
  <2>5. CASE f \notin Counting
    <3>1. Cardinality(DoneCalls') = d
      BY <1>c, <2>3, <2>5
    <3> QED BY <1>b, <2>1, <2>3, <2>4, <2>5, <3>1 DEF CountInv, CountLedger, Counting
  <2>6. CASE f \in Counting
    <3>1. PICK n \in Int : n = -(u - t + 1)
      BY <2>2
    <3>2. count' = (count + n) % W
      <4>1. count' = (count - (u - t + 1)) % W
        BY <2>1, <2>6 DEF Counting, Decremented
      <4>2. count \in Int
        <5> DEFINE x == Counted - d
        <5>1. x \in Int
          BY <1>b, <1>c
        <5> HIDE DEF x
        <5>2. x % W \in 0 .. W - 1
          BY <1>b, <5>1, DivMod
        <5> QED BY <1>b, <5>2 DEF x
      <4>3. count - (u - t + 1) = count + n
        BY <2>2, <3>1, <4>2
      <4> QED BY <4>1, <4>3
    <3> DEFINE x == Counted - d
    <3>3. x \in Int /\ count = x % W
      BY <1>b, <1>c
    <3>4. x + n = Counted' - Cardinality(DoneCalls')
      BY <1>b, <1>c, <2>2, <2>3, <2>4, <2>6, <3>1
    <3> HIDE DEF x
    <3>5. ((x % W) + n) % W = (x + n) % W
      BY <1>b, <3>3, ModShift
    <3> QED BY <2>3, <3>2, <3>3, <3>4, <3>5 DEF CountInv, CountLedger
  <2> QED BY <2>5, <2>6
<1>6. ASSUME \/ UNCHANGED vars \/ Start \/ (\E l \in Listeners : AddListener(l))
             \/ (\E n \in Nodes : AddPipeNode(n) \/ ReplacePipeNode(n))
             \/ Dispatch \/ DispExit \/ Stop \/ (\E w \in Workers : Worker(w))
             \/ \E f \in Finals : FinalHold(f) \/ FinalExit(f)
      PROVE CountInv'
  <2>1. UNCHANGED <<done, delivered, count, client, made>>
    BY <1>6 DEF vars, AddPipeNode, ReplacePipeNode, AddListener, Start, Dispatch, DispExit,
                Stop, StopNodes, StopPool, StopDisp, DispJoined, StopFinal, StopEnd,
                Worker, WorkTake, WorkExit, WorkRun, WorkThrow, WorkQueue, WorkListen,
                FinalHold, FinalExit
  <2> QED BY <1>0, <1>1, <2>1 DEF Counted
<1> QED BY <1>2, <1>3, <1>4, <1>5, <1>6 DEF Next, Configuration, Submit, FinalLoop

(* At first nothing is counted and no done callback was called.              *)
LEMMA CountInit == Init => CountInv
<1> SUFFICES ASSUME Init PROVE CountInv
  OBVIOUS
<1>1. DoneCalls = {}
  BY DEF Init, DoneCalls, Counting
<1>2. IsFiniteSet(DoneCalls) /\ Cardinality(DoneCalls) = 0
  BY <1>1, FS_EmptySet
<1>3. Counted = 0 /\ count = 0
  BY DEF Init, Counted
<1>4. (0 - 0) % W = 0
  <2>1. W \in Nat \ {0} /\ 0 \in 0 .. W - 1 /\ 0 = W * 0 + 0 /\ 0 - 0 = 0
    BY NotificationAssumption
  <2> QED BY <2>1, ModUnique
<1> QED BY <1>2, <1>3, <1>4 DEF CountInv, CountLedger

(* The count is what was submitted less what was reported to notifiers with  *)
(* the pipeline's callback, in its own width.                                *)
THEOREM CountCorrect == Spec => []CountLedger
<1>1. TaskInv /\ CountInv /\ [Next]_vars => TaskInv' /\ CountInv'
  BY TaskStep, CountStep
<1>2. CountInv => CountLedger
  BY DEF CountInv
<1> QED BY <1>1, <1>2, TaskInit, CountInit, PTL DEF Spec

=============================================================================
