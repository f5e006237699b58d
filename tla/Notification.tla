---------------------------- MODULE Notification ----------------------------
(***************************************************************************)
(* How a pipeline is put together and how it tells about its tasks:        *)
(* addPipeNode and addNotifier, several FINAL notifiers, TASK_LISTEN       *)
(* notifiers, the order the Scheduler of each ThreadLoop serves tasks in,  *)
(* and node callbacks that throw.                                          *)
(*                                                                         *)
(* One client submits each task as soon as it is built, so identifiers are *)
(* submitted in order and without a gap; several clients that queue before *)
(* they are counted, and tasks built but not submitted, are Pipeline's.    *)
(* What the dispatcher does with one task is one step (the moments inside  *)
(* it at which stop() can strike are Pipeline's), and so is what a FINAL   *)
(* notifier's thread does with one task.  m_mutex needs no variable: it is *)
(* held while client = "check" or ctl \in Stopping.                        *)
(***************************************************************************)
EXTENDS Integers, Sequences, FiniteSets, Scheduler

CONSTANTS
  Workers,       \* threads of the pool
  Nodes,         \* nodes of the configure table
  Path,          \* the nodes of the scenario, in order
  Finals,        \* FINAL notifiers
  Listeners,     \* TASK_LISTEN notifiers
  Wanted,        \* what tasks asked for: pairs given to addNotifierForNode
  MaxTask,       \* bound: tasks submitted in one behaviour
  MaxTaskShared, \* bound: the same with more than one FINAL notifier
  MaxProcessing, \* maxProcessingSize
  W,             \* number of values of m_processingTaskCount
  Kinds,         \* types and priorities tasks are given
  Outcomes       \* what a node's callback may do: subset of {"ok", "fail", "throw"}

ASSUME NotificationAssumption ==
  /\ MaxTask \in Nat /\ MaxTaskShared \in 0 .. MaxTask
  /\ MaxProcessing \in Nat /\ W \in Nat /\ MaxProcessing < W
  /\ IsFiniteSet(Finals) /\ Workers # {}
  /\ Path \in Seq(Nodes) /\ \A i, j \in DOMAIN Path : Path[i] = Path[j] => i = j
  /\ Wanted \subseteq Nodes \X Listeners
  /\ Kinds \subseteq TaskTypes \X TaskPriorities
  /\ Outcomes \subseteq {"ok", "fail", "throw"}

Tasks == 1 .. MaxTask
NoTask == 0

VARIABLES
  ctl,       \* the controlling thread
  entry,     \* m_pipeNodeMaps of the dispatcher: what its weak_ptr leads to
  done,      \* per FINAL notifier: absent, or whose done callback it has
  heard,     \* TASK_LISTEN notifiers of the dispatcher
  client,    \* where submit() is
  made,      \* tasks built so far; the last one is the one given to submit()
  early,     \* history: the tasks submitted before start()
  count,     \* m_processingTaskCount
  kind,      \* per task: m_taskType and m_priority
  task,      \* per task: nodes left, status, notify status
  dispQ,     \* scheduler of the dispatcher's ThreadLoop
  disp,      \* its thread: off, on, ended; or crashed: the process is gone
  poolQ,     \* ThreadPool::m_tasks
  work,      \* per worker: where it is, its task, its node
  notQ,      \* per FINAL notifier: scheduler of its ThreadLoop
  loop,      \* its thread: off, on, ended
  notStop,   \* FINAL notifiers whose m_isStop is set
  pending,   \* m_pendingItemMap
  expect,    \* m_expectItemId
  ran,       \* history: per task, the nodes whose callback returned true
  ended,     \* history: per task, the nodes whose callback returned
  lost,      \* history: tasks whose callback threw
  told,      \* history: per task, calls of each wanted listener
  delivered, \* history: per FINAL notifier, the tasks handed over, in order
  verdict    \* history: per FINAL notifier and task, the status it saw

cfgVars == <<entry, done, heard>>
subVars == <<client, made, early, kind>>
notVars == <<notQ, loop, notStop, pending, expect, delivered, verdict>>
runVars == <<ran, ended, lost, told>>
vars == <<ctl, cfgVars, subVars, count, task, dispQ, disp, poolQ, work, notVars, runVars>>

Stopping == {"nodes", "pool", "disp", "notif"}
IsStop   == ctl \in Stopping \cup {"stopped"}
PoolStop == ctl \in {"pool", "disp", "notif", "stopped"}
DispStop == ctl \in {"disp", "notif", "stopped"}

MutexFree == client # "check" /\ ctl \notin Stopping

Registered == {f \in Finals : done[f] # "absent"}

NoWork == [st |-> "idle", t |-> NoTask, n |-> "none"]

Init ==
  /\ ctl = "config" /\ entry = [n \in Nodes |-> "none"]
  /\ done = [f \in Finals |-> "absent"] /\ heard = {}
  /\ client = "idle" /\ made = 0 /\ early = {} /\ count = 0 /\ kind = [t \in Tasks |-> <<2, 2>>]
  /\ task = [t \in Tasks |-> [todo |-> <<>>, status |-> "OK", note |-> "OK"]]
  /\ dispQ = {} /\ disp = "off" /\ poolQ = <<>> /\ work = [w \in Workers |-> NoWork]
  /\ notQ = [f \in Finals |-> {}] /\ loop = [f \in Finals |-> "off"] /\ notStop = {}
  /\ pending = [f \in Finals |-> {}] /\ expect = [f \in Finals |-> 1]
  /\ ran = [t \in Tasks |-> <<>>] /\ ended = [t \in Tasks |-> {}] /\ lost = {}
  /\ told = [t \in Tasks |-> [x \in Wanted |-> 0]]
  /\ delivered = [f \in Finals |-> <<>>]
  /\ verdict = [f \in Finals |-> [t \in Tasks |-> "none"]]

----------------------------------------------------------------------------
(* Configuration, in the order generatePipeLineByConfigureTable has: nodes, *)
(* notifiers, connections (PipelineConfig), then start().                   *)

\* A node with a new identifier.
AddPipeNode(n) ==
  /\ ctl = "config" /\ entry[n] = "none"
  /\ entry' = [entry EXCEPT ![n] = "live"]
  /\ UNCHANGED <<ctl, done, heard, subVars, count, task, dispQ, disp, poolQ, work, notVars,
                 runVars>>

\* An identifier that is there already: PipeLine::m_pipeNodeMaps takes the
\* new node and releases the one before, the dispatcher keeps the weak_ptr it
\* has.  That one leads nowhere now: the caller of the first addPipeNode has
\* not kept what it returned.
ReplacePipeNode(n) ==
  /\ ctl = "config" /\ entry[n] = "live"
  /\ entry' = [entry EXCEPT ![n] = "gone"]
  /\ UNCHANGED <<ctl, done, heard, subVars, count, task, dispQ, disp, poolQ, work, notVars,
                 runVars>>

\* addNotifier of a create info binds notifyDone; a Notifier built by the
\* caller has the done callback the caller gave it, or none.
DoneCallbacks == {"pipeline", "caller", "none"}

\* build(): the callbacks that were set are copied into the new Notifier.
Built(f, d) == [done EXCEPT ![f] = d]

\* Its thread is started at once.
AddFinal(f) ==
  /\ ctl = "config" /\ done[f] = "absent"
  /\ \E d \in DoneCallbacks : done' = Built(f, d)
  /\ loop' = [loop EXCEPT ![f] = "on"]
  /\ UNCHANGED <<ctl, entry, heard, subVars, count, task, dispQ, disp, poolQ, work, notQ, notStop,
                 pending, expect, delivered, verdict, runVars>>

AddListener(l) ==
  /\ ctl = "config" /\ l \notin heard
  /\ heard' = heard \cup {l}
  /\ UNCHANGED <<ctl, entry, done, subVars, count, task, dispQ, disp, poolQ, work, notVars,
                 runVars>>

\* The connections make Path the path of the scenario.
Start ==
  /\ ctl = "config" /\ MutexFree /\ \A n \in Nodes : entry[n] # "none"
  /\ ctl' = "running" /\ disp' = "on"
  /\ UNCHANGED <<cfgVars, subVars, count, task, dispQ, poolQ, work, notVars, runVars>>

----------------------------------------------------------------------------
(* The client: PipeLine::submit. *)

Bound == IF Cardinality(Registered) > 1 THEN MaxTaskShared ELSE MaxTask

\* Build a task of some type and priority, and submit it at once, up to
\* queueInDispacther.
SubmitQueue ==
  /\ client = "idle" /\ made < Bound /\ MutexFree /\ ~IsStop
  /\ LET t == made + 1 IN
       /\ made' = t
       /\ early' = IF ctl = "config" THEN early \cup {t} ELSE early
       /\ \E k \in Kinds : kind' = [kind EXCEPT ![t] = k]
       /\ task' = [task EXCEPT ![t].todo = IF ctl = "config" THEN <<>> ELSE Path]
       /\ dispQ' = Emplaced(dispQ, t)
  /\ client' = "check"
  /\ UNCHANGED <<ctl, cfgVars, count, disp, poolQ, work, notVars, runVars>>

Admit == count < MaxProcessing

\* The test and the increment: a notifyDone between the two could as well
\* come after both.
SubmitCount ==
  /\ client = "check" /\ Admit
  /\ count' = (count + 1) % W
  /\ client' = "idle"
  /\ UNCHANGED <<ctl, cfgVars, made, early, kind, task, dispQ, disp, poolQ, work, notVars, runVars>>

SubmitWait ==
  /\ client = "check" /\ ~Admit
  /\ client' = "wait"
  /\ UNCHANGED <<ctl, cfgVars, made, early, kind, count, task, dispQ, disp, poolQ, work, notVars, runVars>>

\* Woken by notifyDone, or spuriously.
SubmitWake ==
  /\ client = "wait" /\ MutexFree
  /\ client' = "check"
  /\ UNCHANGED <<ctl, cfgVars, made, early, kind, count, task, dispQ, disp, poolQ, work, notVars, runVars>>

----------------------------------------------------------------------------
(* The dispatcher's thread. *)

Types == [t \in Tasks |-> kind[t][1]]
Priorities == [t \in Tasks |-> kind[t][2]]

\* The FINAL notifiers whose ThreadLoop still takes items.
Notified == Registered \ notStop

\* PipeNodeDispatcher::notifyFinal.
NotifyFinal(t, status) ==
  /\ task' = IF Registered = {} THEN task ELSE [task EXCEPT ![t].note = status]
  /\ notQ' = [f \in Finals |-> IF f \in Notified THEN Emplaced(notQ[f], t) ELSE notQ[f]]

FinalStatus(t) == task[t].status

\* mutant: a node that is gone counts as done
GoneIsFine(n) == entry[n] # "none" /\ ~IsStop

\* lock() finds a node, and stop() has not stopped it.
NodeServes(n) == entry[n] # "gone" /\ ~IsStop

\* dispatch(): report the task, or hand it to the pool.
Dispatch ==
  /\ disp = "on"
  /\ \E t \in Schedulable(dispQ, Types, Priorities) :
       /\ dispQ' = dispQ \ {t}
       /\ IF task[t].todo = <<>>
          THEN NotifyFinal(t, FinalStatus(t)) /\ poolQ' = poolQ
          ELSE IF NodeServes(Head(task[t].todo))
               THEN poolQ' = Append(poolQ, t) /\ UNCHANGED <<task, notQ>>
               ELSE NotifyFinal(t, "ERROR") /\ poolQ' = poolQ
  /\ UNCHANGED <<ctl, cfgVars, subVars, count, disp, work, loop, notStop, pending, expect,
                 delivered, verdict, runVars>>

DispExit ==
  /\ disp = "on" /\ DispStop /\ NothingQueued(dispQ)
  /\ disp' = "ended"
  /\ UNCHANGED <<ctl, cfgVars, subVars, count, task, dispQ, poolQ, work, notVars, runVars>>

----------------------------------------------------------------------------
(* A worker: PipeNode::process inside a packaged_task. *)

WorkTake(w) ==
  /\ work[w].st = "idle" /\ poolQ # <<>>
  /\ work' = [work EXCEPT ![w] = [st |-> "run", t |-> Head(poolQ),
                                  n |-> Head(task[Head(poolQ)].todo)]]
  /\ poolQ' = Tail(poolQ)
  /\ UNCHANGED <<ctl, cfgVars, subVars, count, task, dispQ, disp, notVars, runVars>>

WorkExit(w) ==
  /\ work[w].st = "idle" /\ PoolStop /\ poolQ = <<>>
  /\ work' = [work EXCEPT ![w].st = "exited"]
  /\ UNCHANGED <<ctl, cfgVars, subVars, count, task, dispQ, disp, poolQ, notVars, runVars>>

AfterCallback(r, ok) ==
  IF ok THEN [r EXCEPT !.todo = Tail(@)] ELSE [r EXCEPT !.todo = <<>>, !.status = "ERROR"]

\* The callback returns.
WorkRun(w) ==
  /\ work[w].st = "run"
  /\ \E r \in Outcomes \ {"throw"} :
       /\ task' = [task EXCEPT ![work[w].t] = AfterCallback(@, r = "ok")]
       /\ ran' = IF r = "ok" THEN [ran EXCEPT ![work[w].t] = Append(@, work[w].n)] ELSE ran
  /\ ended' = [ended EXCEPT ![work[w].t] = @ \cup {work[w].n}]
  /\ work' = [work EXCEPT ![w].st = "queue"]
  /\ UNCHANGED <<ctl, cfgVars, subVars, count, dispQ, disp, poolQ, notVars, lost, told>>

\* The callback throws: the packaged_task keeps the exception in a future
\* nobody asks, and the rest of process() is not executed.
WorkThrow(w) ==
  /\ work[w].st = "run" /\ "throw" \in Outcomes
  /\ lost' = lost \cup {work[w].t}
  /\ work' = [work EXCEPT ![w] = NoWork]
  /\ UNCHANGED <<ctl, cfgVars, subVars, count, task, dispQ, disp, poolQ, notVars, ran, ended,
                 told>>

WorkQueue(w) ==
  /\ work[w].st = "queue"
  /\ dispQ' = IF DispStop THEN dispQ ELSE Emplaced(dispQ, work[w].t)
  /\ work' = [work EXCEPT ![w].st = "listen"]
  /\ UNCHANGED <<ctl, cfgVars, subVars, count, task, disp, poolQ, notVars, runVars>>

\* mutant: nobody is told of a node that failed
CalledOnSuccess(t, n) == {x \in Wanted : x[1] = n /\ x[2] \in heard /\ task[t].status = "OK"}

\* getNotifiersByNodeId, and the listeners of the dispatcher that are in it.
Called(t, n) == {x \in Wanted : x[1] = n /\ x[2] \in heard}

\* notifyNotFinal, in the worker's thread.
WorkListen(w) ==
  /\ work[w].st = "listen"
  /\ LET t == work[w].t IN
       /\ told' = [told EXCEPT ![t] = [x \in Wanted |-> @[x] + (IF x \in Called(t, work[w].n)
                                                                THEN 1 ELSE 0)]]
       /\ task' = IF heard # {} /\ (PoolStop \/ task[t].status = "ERROR")
                  THEN [task EXCEPT ![t].note = "ERROR"] ELSE task
  /\ work' = [work EXCEPT ![w] = NoWork]
  /\ UNCHANGED <<ctl, cfgVars, subVars, count, dispQ, disp, poolQ, notVars, ran, ended, lost>>

----------------------------------------------------------------------------
(* The thread of a FINAL notifier: Notifier::threadLoop. *)

\* mutant: whatever arrives is handed over at once
AnyExpected(f, t) == t \in Tasks

Expected(f, t) == t = expect[f]

\* u is the last one of the run of pending tasks that follows t.
Released(f, t, u) == t <= u /\ t + 1 .. u \subseteq pending[f] /\ u + 1 \notin pending[f]

\* The callback for each task from t to u.
HandOver(f, t, u) ==
  /\ delivered' = [delivered EXCEPT ![f] = @ \o [i \in 1 .. u - t + 1 |-> t + i - 1]]
  /\ verdict' = [verdict EXCEPT ![f] = [v \in Tasks |-> IF v \in t .. u THEN task[v].note ELSE @[v]]]

\* mutant: notifyDone is called for the first of them only
DecrementedOnce(n) == (count - 1) % W

Decremented(n) == (count - n) % W

\* ThreadLoop::_threadLoop takes what its scheduler returns.
Takes(f, t) ==
  /\ loop[f] = "on" /\ t \in Schedulable(notQ[f], Types, Priorities)
  /\ notQ' = [notQ EXCEPT ![f] = @ \ {t}]

\* A task that is not expected yet.
FinalHold(f) ==
  /\ \E t \in Tasks : /\ Takes(f, t) /\ ~Expected(f, t)
                      /\ pending' = [pending EXCEPT ![f] = @ \cup {t}]
  /\ UNCHANGED <<ctl, cfgVars, subVars, count, task, dispQ, disp, poolQ, work, loop, notStop,
                 expect, delivered, verdict, runVars>>

\* The task expected, and the pending ones that follow it: callback, done
\* callback and m_expectItemId for each.  The callback returns true (Pipeline
\* has the thread one ends by returning false).
FinalHandOver(f) ==
  /\ done[f] # "none"
  /\ \E t, u \in Tasks :
       /\ Takes(f, t) /\ Expected(f, t) /\ Released(f, t, u)
       /\ HandOver(f, t, u)
       /\ pending' = [pending EXCEPT ![f] = @ \ (t .. u)]
       /\ expect' = [expect EXCEPT ![f] = u + 1]
       /\ count' = IF done[f] = "pipeline" THEN Decremented(u - t + 1) ELSE count
  /\ UNCHANGED <<ctl, cfgVars, subVars, task, dispQ, disp, poolQ, work, loop, notStop, runVars>>

\* Without a done callback the first task expected ends the process: calling
\* an empty std::function throws in the notifier's thread.
FinalUnbound(f) ==
  /\ done[f] = "none"
  /\ \E t \in Tasks : Takes(f, t) /\ Expected(f, t) /\ HandOver(f, t, t)
  /\ disp' = "crashed"
  /\ UNCHANGED <<ctl, cfgVars, subVars, count, task, dispQ, poolQ, work, loop, notStop, pending,
                 expect, runVars>>

\* mutant: the thread leaves although tasks are queued
EndsAtOnce(f) == f \in notStop

MayEnd(f) == f \in notStop /\ NothingQueued(notQ[f])

FinalExit(f) ==
  /\ loop[f] = "on" /\ MayEnd(f)
  /\ loop' = [loop EXCEPT ![f] = "ended"]
  /\ UNCHANGED <<ctl, cfgVars, subVars, count, task, dispQ, disp, poolQ, work, notQ, notStop,
                 pending, expect, delivered, verdict, runVars>>

----------------------------------------------------------------------------
(* PipeLine::stop. *)

StopNodes ==
  /\ ctl \in {"config", "running"} /\ MutexFree
  /\ ctl' = "nodes"
  /\ UNCHANGED <<cfgVars, subVars, count, task, dispQ, disp, poolQ, work, notVars, runVars>>

StopPool ==
  /\ ctl = "nodes" /\ ctl' = "pool"
  /\ UNCHANGED <<cfgVars, subVars, count, task, dispQ, disp, poolQ, work, notVars, runVars>>

StopDisp ==
  /\ ctl = "pool" /\ \A w \in Workers : work[w].st = "exited"
  /\ ctl' = "disp"
  /\ UNCHANGED <<cfgVars, subVars, count, task, dispQ, disp, poolQ, work, notVars, runVars>>

DispJoined ==
  /\ ctl = "disp" /\ disp \in {"off", "ended"}
  /\ ctl' = "notif"
  /\ UNCHANGED <<cfgVars, subVars, count, task, dispQ, disp, poolQ, work, notVars, runVars>>

Joined(f) == f \in notStop /\ loop[f] = "ended"

\* Notifier::stop of one after the other: set the flag, join.  A TASK_LISTEN
\* notifier has no thread.
StopFinal(f) ==
  /\ ctl = "notif" /\ f \in Registered \ notStop /\ \A g \in notStop : Joined(g)
  /\ notStop' = notStop \cup {f}
  /\ UNCHANGED <<ctl, cfgVars, subVars, count, task, dispQ, disp, poolQ, work, notQ, loop, pending,
                 expect, delivered, verdict, runVars>>

\* What is pending is dropped; then stop() returns.
StopEnd ==
  /\ ctl = "notif" /\ \A f \in Registered : Joined(f)
  /\ pending' = [f \in Finals |-> {}] /\ expect' = [f \in Finals |-> 1]
  /\ ctl' = "stopped"
  /\ UNCHANGED <<cfgVars, subVars, count, task, dispQ, disp, poolQ, work, notQ, loop, notStop,
                 delivered, verdict, runVars>>

----------------------------------------------------------------------------
Configuration ==
  \/ \E n \in Nodes : AddPipeNode(n) \/ ReplacePipeNode(n)
  \/ \E f \in Finals : AddFinal(f)
  \/ \E l \in Listeners : AddListener(l)
  \/ Start

Submit ==
  SubmitQueue \/ SubmitCount \/ SubmitWait \/ SubmitWake

Worker(w) ==
  WorkTake(w) \/ WorkExit(w) \/ WorkRun(w) \/ WorkThrow(w) \/ WorkQueue(w) \/ WorkListen(w)

FinalLoop(f) == FinalHold(f) \/ FinalHandOver(f) \/ FinalUnbound(f) \/ FinalExit(f)

Stop == StopNodes \/ StopPool \/ StopDisp \/ DispJoined \/ StopEnd
        \/ \E f \in Finals : StopFinal(f)

Next ==
  /\ disp # "crashed"
  /\ \/ Configuration \/ Submit \/ Dispatch \/ DispExit \/ Stop
     \/ \E w \in Workers : Worker(w)
     \/ \E f \in Finals : FinalLoop(f)

Spec == Init /\ [][Next]_vars

----------------------------------------------------------------------------
(* Properties. *)

Counted == IF client = "idle" THEN made ELSE made - 1

Counting == {f \in Finals : done[f] = "pipeline"}

\* The calls of notifyDone: by which notifier, for its how manieth task.
DoneCalls == UNION {{f} \X DOMAIN delivered[f] : f \in Counting}

(* The count is one up for every task submit() has let through and one down *)
(* for every task of every FINAL notifier that addNotifier made, modulo its *)
(* width: two such notifiers take it down twice per task, none never.       *)
CountLedger == count = (Counted - Cardinality(DoneCalls)) % W

(* Each FINAL notifier sees the tasks in the order of their identifiers and *)
(* without a gap, although its own scheduler serves urgent types first.     *)
EachFinalInOrder == \A f \in Finals : \A i \in DOMAIN delivered[f] : delivered[f][i] = i

Telling(t, n) == \E w \in Workers : work[w].st \in {"queue", "listen"} /\ work[w].t = t /\ work[w].n = n

(* A TASK_LISTEN notifier is called once for each node a task asked for it  *)
(* at, when that node's callback has returned, with success or without, and *)
(* at no other node; its call is over when the worker is free again.        *)
ListenersTold ==
  \A t \in Tasks : \A x \in Wanted :
    told[t][x] = IF x[2] \in heard /\ x[1] \in ended[t] /\ ~Telling(t, x[1]) THEN 1 ELSE 0

RanOn(t) == {ran[t][i] : i \in DOMAIN ran[t]}

(* A FINAL notifier is told ERROR only if a node failed, the pipeline is    *)
(* being stopped, or a node of the path was replaced and is gone.  It is    *)
(* told OK only if every node of the path ran with success, in order, and   *)
(* none of them is gone, or if the task was submitted before start(), when  *)
(* there was no path for it: then it went through no node at all.           *)
VerdictHasCause ==
  \A t \in Tasks : \A f \in Finals :
    /\ verdict[f][t] = "ERROR" =>
         IsStop \/ ended[t] # RanOn(t) \/ \E i \in DOMAIN Path : entry[Path[i]] = "gone"
    /\ verdict[f][t] = "OK" =>
         /\ ran[t] = IF t \in early THEN <<>> ELSE Path
         /\ \A n \in RanOn(t) : entry[n] # "gone"

(* After stop() nothing is queued, and every FINAL notifier was handed      *)
(* every task up to the first one that a node's exception lost; that one    *)
(* and all later ones are reported to none.  An exception is the only thing *)
(* that takes an identifier out here, where tasks are submitted as they are *)
(* built; Pipeline's StopReports is about those built and not submitted.    *)
StopDrains ==
  (ctl = "stopped" /\ disp = "ended") =>
    /\ dispQ = {} /\ poolQ = <<>>
    /\ \A f \in Registered :
         /\ notQ[f] = {}
         /\ {delivered[f][i] : i \in DOMAIN delivered[f]} = {t \in 1 .. made : (1 .. t) \cap lost = {}}

(* A FINAL notifier without a done callback is not survived: a pipeline     *)
(* that has reported its first task and been stopped has none.              *)
SurvivorsAreBound ==
  (ctl = "stopped" /\ disp = "ended" /\ made > 0 /\ 1 \notin lost) =>
    \A f \in Finals : done[f] # "none"
=============================================================================
