------------------------------ MODULE Pipeline ------------------------------
(***************************************************************************)
(* The run-time core of C-Flow's pipeline: PipeLine::submit, notifyDone,   *)
(* start and stop, the dispatcher thread (PipeNodeDispatcher on top of     *)
(* ThreadLoop), the worker threads of its ThreadPool, PipeNode::process,   *)
(* and the FINAL notifier's thread (Notifier on top of ThreadLoop).        *)
(*                                                                         *)
(* Every thread has a program counter.  A step is the code between two     *)
(* points where another thread can see or change what it uses: a mutex     *)
(* taken or released, an atomic read or written, a queue used.  Three      *)
(* mutexes of the code protect one queue each (dispatcher, pool, notifier) *)
(* and are held only inside one step; PipeLine::m_mutex spans steps and is *)
(* the variable mutex.                                                     *)
(*                                                                         *)
(* A task is the number its constructor draws from the IDGenerator: the    *)
(* notifier compares these numbers.                                        *)
(***************************************************************************)
EXTENDS Integers, Sequences, FiniteSets

CONSTANTS
  Clients,       \* threads that build tasks and call PipeLine::submit
  Workers,       \* threads of the dispatcher's ThreadPool
  Nodes,         \* pipe nodes
  Paths,         \* what the scenario map and the task's skip list may select
  ListenNodes,   \* nodes for which a task has a TASK_LISTEN notifier
  MaxTask,       \* bound: tasks built in one behaviour
  MaxProcessing, \* maxProcessingSize of the configure table
  W,             \* number of values of the unsigned m_processingTaskCount
  ProcResults,   \* what a node's callback may return
  NotifyResults  \* what the FINAL notifier's callback may return

ASSUME SizesAssumption ==
  /\ MaxTask \in Nat
  /\ MaxProcessing \in Nat
  /\ W \in Nat
  /\ MaxProcessing < W
  /\ IsFiniteSet(Clients) /\ Cardinality(Clients) < W

ASSUME PathsAssumption == Paths \subseteq Seq(Nodes) /\ ListenNodes \subseteq Nodes

ASSUME ResultsAssumption == ProcResults \subseteq BOOLEAN /\ NotifyResults \subseteq BOOLEAN

ASSUME WorkersAssumption == Workers # {}

ASSUME OwnersAssumption == Clients \cap {"free", "ctl"} = {}

Tasks == 1 .. MaxTask
NoTask == 0

VARIABLES
  ctl,       \* the thread that calls start() and stop(): where it is
  mutex,     \* holder of PipeLine::m_mutex: a client, "ctl" or "free"
  isStop,    \* PipeLine::m_isStop
  nodeStop,  \* nodes whose m_isStop is set
  pc,        \* where each client is
  cur,       \* the task each client works on
  nextId,    \* what IDGenerator::generate returns next
  count,     \* m_processingTaskCount
  task,      \* per task: nodes left (head: current node), status, notify status
  dispQ,     \* scheduler of the dispatcher's ThreadLoop
  disp,      \* where the dispatcher thread is
  dispTask,  \* the task it dispatches
  dispStop,  \* its m_isStop
  poolQ,     \* ThreadPool::m_tasks
  work,      \* per worker: where it is, its task, the node it runs
  poolStop,  \* ThreadPool::isStop
  notQ,      \* scheduler of the FINAL notifier's ThreadLoop
  notif,     \* where the notifier thread is
  pending,   \* m_pendingItemMap
  expect,    \* m_expectItemId
  notStop,   \* its m_isStop
  path,      \* history: the path constructDependency gave the task
  ran,       \* history: nodes whose callback succeeded on the task
  submitted, \* history: tasks submit() has queued
  counted,   \* history: tasks submit() has counted, so submit() returned true
  delivered, \* history: tasks handed to the FINAL callback, in order
  verdict    \* history: notify status the FINAL callback saw

ctlVars   == <<ctl, mutex, isStop, nodeStop>>
cliVars   == <<pc, cur, nextId, count>>
dispVars  == <<dispQ, disp, dispTask, dispStop>>
poolVars  == <<poolQ, work, poolStop>>
notVars   == <<notQ, notif, pending, expect, notStop>>
subVars   == <<path, submitted, counted>>
endVars   == <<delivered, verdict>>
vars == <<ctlVars, cliVars, task, dispVars, poolVars, notVars, subVars, ran, endVars>>

----------------------------------------------------------------------------
(* Types and the initial state: a configured pipeline before start().  The *)
(* FINAL notifier's thread runs since addNotifier, the pool's threads      *)
(* since the dispatcher was constructed, the dispatcher's own not yet.     *)

NoNode == "none"

NoWork == [st |-> "idle", t |-> NoTask, n |-> NoNode]

NewTaskRecord == [todo |-> <<>>, status |-> "OK", note |-> "OK"]

TaskRecord == [todo : Seq(Nodes), status : {"OK", "ERROR"}, note : {"OK", "ERROR"}]

WorkRecord == [st : {"idle", "run", "queue", "listen", "exited"},
               t : Tasks \cup {NoTask}, n : Nodes \cup {NoNode}]

\* The dispatcher's threadLoop threw: std::terminate ends the process.
Crashed == disp = "crashed"

Init ==
  /\ ctl = "new" /\ mutex = "free" /\ isStop = FALSE /\ nodeStop = {}
  /\ pc = [c \in Clients |-> "idle"] /\ cur = [c \in Clients |-> NoTask]
  /\ nextId = 1 /\ count = 0
  /\ task = [t \in Tasks |-> NewTaskRecord]
  /\ dispQ = {} /\ disp = "off" /\ dispTask = NoTask /\ dispStop = FALSE
  /\ poolQ = <<>> /\ work = [w \in Workers |-> NoWork] /\ poolStop = FALSE
  /\ notQ = {} /\ notif = "wait" /\ pending = {} /\ expect = 1 /\ notStop = FALSE
  /\ path = [t \in Tasks |-> <<>>] /\ ran = [t \in Tasks |-> <<>>]
  /\ submitted = {} /\ counted = {} /\ delivered = <<>>
  /\ verdict = [t \in Tasks |-> "none"]

----------------------------------------------------------------------------
(* Queues shared by the threads. *)

\* PipeNodeDispatcher::queueInDispacther: ThreadLoop::queueItem drops the
\* task once the loop is stopped.
QueueInDispatcher(t) == dispQ' = IF dispStop THEN dispQ ELSE dispQ \cup {t}

\* PipeNodeDispatcher::notifyFinal: the status is written into the task, then
\* the task is queued for the FINAL notifier.
NotifyFinal(t, status) ==
  /\ task' = [task EXCEPT ![t].note = status]
  /\ notQ' = IF notStop THEN notQ ELSE notQ \cup {t}

Blocked == {c \in Clients : pc[c] = "wait"}

\* condition_variable::notify_one on m_processingTaskCV.
NotifyOne ==
  IF Blocked = {} THEN pc' = pc
  ELSE \E c \in Blocked : pc' = [pc EXCEPT ![c] = "woken"]

AcquireBy(owner) == mutex = "free" /\ mutex' = owner

----------------------------------------------------------------------------
(* A client thread: the PipeTask constructor, then PipeLine::submit. *)

\* Task(): the identifier is drawn when the task is built, not when it is
\* submitted.
NewTask(c) ==
  /\ pc[c] = "idle" /\ nextId <= MaxTask
  /\ cur' = [cur EXCEPT ![c] = nextId]
  /\ nextId' = nextId + 1
  /\ pc' = [pc EXCEPT ![c] = "built"]
  /\ UNCHANGED <<ctlVars, count, task, dispVars, poolVars, notVars, subVars, ran, endVars>>

\* checkValid() fails: submit returns false and the task is dropped.
SubmitRefused(c) ==
  /\ pc[c] = "built" /\ mutex = "free" /\ isStop
  /\ pc' = [pc EXCEPT ![c] = "idle"]
  /\ cur' = [cur EXCEPT ![c] = NoTask]
  /\ UNCHANGED <<ctlVars, nextId, count, task, dispVars, poolVars, notVars, subVars, ran, endVars>>

\* Before start() no scenario has a path; later the scenario and the skip
\* list choose one, possibly the empty one (unknown scenario).
PathsNow == IF ctl \in {"new", "built"} THEN {<<>>} ELSE Paths

\* submit up to queueInDispacther: lock, checkValid, constructDependency, queue.
SubmitQueue(c) ==
  /\ pc[c] = "built" /\ AcquireBy(c) /\ ~isStop
  /\ \E p \in PathsNow :
       /\ task' = [task EXCEPT ![cur[c]].todo = p]
       /\ path' = [path EXCEPT ![cur[c]] = p]
  /\ QueueInDispatcher(cur[c])
  /\ submitted' = submitted \cup {cur[c]}
  /\ pc' = [pc EXCEPT ![c] = "check"]
  /\ UNCHANGED <<ctl, isStop, nodeStop, cur, nextId, count, disp, dispTask, dispStop,
                 poolVars, notVars, counted, ran, endVars>>

\* mutant: the comparison is off by one
AdmitOneMore == count <= MaxProcessing

Admit == count < MaxProcessing

\* The test of the count; it is also the predicate a woken client evaluates.
SubmitCheck(c) ==
  /\ pc[c] = "check"
  /\ pc' = [pc EXCEPT ![c] = IF Admit THEN "count" ELSE "block"]
  /\ UNCHANGED <<ctlVars, cur, nextId, count, task, dispVars, poolVars, notVars, subVars, ran, endVars>>

\* condition_variable::wait registers the waiter and releases m_mutex; a
\* notify_one sent between the test and this step finds no waiter.
SubmitBlock(c) ==
  /\ pc[c] = "block"
  /\ pc' = [pc EXCEPT ![c] = "wait"] /\ mutex' = "free"
  /\ UNCHANGED <<ctl, isStop, nodeStop, cur, nextId, count, task, dispVars, poolVars, notVars,
                 subVars, ran, endVars>>

SpuriousWake(c) ==
  /\ pc[c] = "wait"
  /\ pc' = [pc EXCEPT ![c] = "woken"]
  /\ UNCHANGED <<ctlVars, cur, nextId, count, task, dispVars, poolVars, notVars, subVars, ran, endVars>>

SubmitRelock(c) ==
  /\ pc[c] = "woken" /\ AcquireBy(c)
  /\ pc' = [pc EXCEPT ![c] = "check"]
  /\ UNCHANGED <<ctl, isStop, nodeStop, cur, nextId, count, task, dispVars, poolVars, notVars,
                 subVars, ran, endVars>>

Incremented == IF count = W - 1 THEN 0 ELSE count + 1

\* m_processingTaskCount++, then submit returns true and unlocks.
SubmitCount(c) ==
  /\ pc[c] = "count"
  /\ count' = Incremented
  /\ counted' = counted \cup {cur[c]}
  /\ pc' = [pc EXCEPT ![c] = "idle"] /\ cur' = [cur EXCEPT ![c] = NoTask]
  /\ mutex' = "free"
  /\ UNCHANGED <<ctl, isStop, nodeStop, nextId, task, dispVars, poolVars, notVars, path,
                 submitted, ran, endVars>>

----------------------------------------------------------------------------
(* The dispatcher thread: ThreadLoop::_threadLoop and dispatch(). *)

\* mutant: the verdict ignores the task's own status
BlindVerdict(t) == IF task[t].todo = <<>> THEN "OK" ELSE "ERROR"

\* mutant: the test of the status is inverted
InvertedVerdict(t) ==
  IF task[t].todo = <<>> /\ task[t].status = "ERROR" THEN "OK" ELSE "ERROR"

\* The status notifyFinal is given for a task that is not dispatched further.
FinalVerdict(t) ==
  IF task[t].todo = <<>> /\ task[t].status = "OK" THEN "OK" ELSE "ERROR"

\* Take a task: any of them, so whatever types and priorities tasks may have,
\* the scheduler's choice is among these.  dispatch() reports a task that has no node left, and
\* every task once the pool is stopped.
DispTake ==
  /\ disp = "wait"
  /\ \E t \in dispQ :
       /\ dispQ' = dispQ \ {t}
       /\ IF task[t].todo = <<>> \/ poolStop
          THEN /\ NotifyFinal(t, FinalVerdict(t))
               /\ UNCHANGED <<disp, dispTask>>
          ELSE /\ disp' = "check" /\ dispTask' = t
               /\ UNCHANGED <<task, notQ>>
  /\ UNCHANGED <<ctlVars, cliVars, dispStop, poolVars, notif, pending, expect, notStop,
                 subVars, ran, endVars>>

\* The second look at the pool and at the node's stop flag.
DispCheck ==
  /\ disp = "check"
  /\ IF ~poolStop /\ Head(task[dispTask].todo) \notin nodeStop
     THEN /\ disp' = "emplace"
          /\ UNCHANGED <<dispTask, task, notQ>>
     ELSE /\ NotifyFinal(dispTask, "ERROR")
          /\ disp' = "wait" /\ dispTask' = NoTask
  /\ UNCHANGED <<ctlVars, cliVars, dispQ, dispStop, poolVars, notif, pending, expect, notStop,
                 subVars, ran, endVars>>

\* ThreadPool::emplace throws if the pool was stopped after the test; nothing
\* catches it in the thread.
DispEmplace ==
  /\ disp = "emplace"
  /\ IF poolStop
     THEN disp' = "crashed" /\ UNCHANGED <<dispTask, poolQ>>
     ELSE /\ poolQ' = Append(poolQ, dispTask)
          /\ disp' = "wait" /\ dispTask' = NoTask
  /\ UNCHANGED <<ctlVars, cliVars, task, dispQ, dispStop, work, poolStop, notVars, subVars,
                 ran, endVars>>

DispExit ==
  /\ disp = "wait" /\ dispStop /\ dispQ = {}
  /\ disp' = "exited"
  /\ UNCHANGED <<ctlVars, cliVars, task, dispQ, dispTask, dispStop, poolVars, notVars, subVars,
                 ran, endVars>>

----------------------------------------------------------------------------
(* A worker of the pool: the loop of ThreadPool and PipeNode::process. *)

\* mutant: the front element is read and not popped
FrontKept == poolQ

FrontPopped == Tail(poolQ)

WorkTake(w) ==
  /\ work[w].st = "idle" /\ poolQ # <<>>
  /\ work' = [work EXCEPT ![w] = [st |-> "run", t |-> Head(poolQ),
                                  n |-> Head(task[Head(poolQ)].todo)]]
  /\ poolQ' = FrontPopped
  /\ UNCHANGED <<ctlVars, cliVars, task, dispVars, poolStop, notVars, subVars, ran, endVars>>

\* mutant: the loop leaves as soon as the pool is stopped
MayExitAtOnce == poolStop

\* mutant: the loop never looks at the flag
NeverExit == FALSE

MayExit == poolStop /\ poolQ = <<>>

WorkExit(w) ==
  /\ work[w].st = "idle" /\ MayExit
  /\ work' = [work EXCEPT ![w].st = "exited"]
  /\ UNCHANGED <<ctlVars, cliVars, task, dispVars, poolQ, poolStop, notVars, subVars, ran, endVars>>

MarkError(r) == [todo |-> <<>>, status |-> "ERROR", note |-> r.note]

MarkCurrentNodeReady(r) == [r EXCEPT !.todo = Tail(@)]

\* The node's callback, then markCurrentNodeReady or markError.
WorkRun(w) ==
  /\ work[w].st = "run"
  /\ LET t == work[w].t IN
       \E ok \in ProcResults :
         /\ task' = [task EXCEPT ![t] = IF ok THEN MarkCurrentNodeReady(@) ELSE MarkError(@)]
         /\ ran' = IF ok THEN [ran EXCEPT ![t] = Append(@, work[w].n)] ELSE ran
  /\ work' = [work EXCEPT ![w].st = "queue"]
  /\ UNCHANGED <<ctlVars, cliVars, dispVars, poolQ, poolStop, notVars, subVars, endVars>>

WorkQueue(w) ==
  /\ work[w].st = "queue"
  /\ QueueInDispatcher(work[w].t)
  /\ work' = [work EXCEPT ![w].st = "listen"]
  /\ UNCHANGED <<ctlVars, cliVars, task, disp, dispTask, dispStop, poolQ, poolStop, notVars,
                 subVars, ran, endVars>>

\* notifyNotFinal, after the task is queued for its next node: whatever node
\* the listener belongs to, a stopped pool or a failed task turns the task's
\* notify status to ERROR.
WorkListen(w) ==
  /\ work[w].st = "listen"
  /\ IF ListenNodes # {} /\ (poolStop \/ task[work[w].t].status = "ERROR")
     THEN task' = [task EXCEPT ![work[w].t].note = "ERROR"]
     ELSE task' = task
  /\ work' = [work EXCEPT ![w] = NoWork]
  /\ UNCHANGED <<ctlVars, cliVars, dispVars, poolQ, poolStop, notVars, subVars, ran, endVars>>

----------------------------------------------------------------------------
(* The FINAL notifier's thread: ThreadLoop::_threadLoop, Notifier::threadLoop *)

\* mutant: whatever arrives is handed over at once
AnyIsExpected(t) == t \in Tasks

IsExpected(t) == t = expect

\* mutant: the count is decremented below zero
DecrementedSigned == count - 1

\* An atomic_uint32_t wraps at both ends.
Decremented == IF count = 0 THEN W - 1 ELSE count - 1

\* The callback sees the task and its notify status; notifyDone decrements
\* the count (unsigned) and notifies one waiting client, without m_mutex.
Deliver(t) ==
  /\ delivered' = Append(delivered, t)
  /\ verdict' = [verdict EXCEPT ![t] = task[t].note]
  /\ count' = Decremented
  /\ NotifyOne
  /\ expect' = t + 1

\* A result FALSE ends the thread once the pending tasks have been looked at.
NotTake ==
  /\ notif = "wait"
  /\ \E t \in notQ :
       /\ notQ' = notQ \ {t}
       /\ IF IsExpected(t)
          THEN /\ Deliver(t)
               /\ \E ok \in NotifyResults : notif' = IF ok THEN "drain" ELSE "drainLast"
               /\ UNCHANGED pending
          ELSE /\ pending' = pending \cup {t}
               /\ UNCHANGED <<pc, count, notif, expect, endVars>>
  /\ UNCHANGED <<ctlVars, cur, nextId, task, dispVars, poolVars, notStop, subVars, ran>>

\* mutant: the entry after the expected one is looked for
PendingAfterNext(t) == t = expect + 1 /\ \A u \in pending : t <= u

\* The first entry of the ordered map is the next one expected.
PendingReady(t) == t = expect /\ \A u \in pending : t <= u

NotDrain ==
  /\ notif \in {"drain", "drainLast"}
  /\ \E t \in pending :
       /\ PendingReady(t)
       /\ Deliver(t)
       /\ pending' = pending \ {t}
  /\ UNCHANGED <<ctlVars, cur, nextId, task, dispVars, poolVars, notQ, notif, notStop, subVars, ran>>

NotDrained ==
  /\ notif \in {"drain", "drainLast"}
  /\ ~ \E t \in pending : PendingReady(t)
  /\ notif' = IF notif = "drain" THEN "wait" ELSE "exited"
  /\ UNCHANGED <<ctlVars, cliVars, task, dispVars, poolVars, notQ, pending, expect, notStop,
                 subVars, ran, endVars>>

NotExit ==
  /\ notif = "wait" /\ notStop /\ notQ = {}
  /\ notif' = "exited"
  /\ UNCHANGED <<ctlVars, cliVars, task, dispVars, poolVars, notQ, pending, expect, notStop,
                 subVars, ran, endVars>>

----------------------------------------------------------------------------
(* The controlling thread: PipeLine::start and PipeLine::stop. *)

\* constructPipelinesByScenario, under m_mutex.
StartBuild ==
  /\ ctl = "new" /\ mutex = "free" /\ ~isStop
  /\ ctl' = "built"
  /\ UNCHANGED <<mutex, isStop, nodeStop, cliVars, task, dispVars, poolVars, notVars, subVars,
                 ran, endVars>>

\* The dispatcher's ThreadLoop::start.
StartThread ==
  /\ ctl = "built"
  /\ ctl' = "running" /\ disp' = "wait"
  /\ UNCHANGED <<mutex, isStop, nodeStop, cliVars, task, dispQ, dispTask, dispStop, poolVars,
                 notVars, subVars, ran, endVars>>

\* stop() holds m_mutex to its end, so a client that waits to relock it waits
\* for the whole shutdown.
StopBegin ==
  /\ ctl \in {"new", "running"} /\ AcquireBy("ctl")
  /\ isStop' = TRUE
  /\ ctl' = "nodes"
  /\ UNCHANGED <<nodeStop, cliVars, task, dispVars, poolVars, notVars, subVars, ran, endVars>>

\* PipeNode::stop of one node.
StopNode(n) ==
  /\ ctl = "nodes" /\ n \notin nodeStop
  /\ nodeStop' = nodeStop \cup {n}
  /\ UNCHANGED <<ctl, mutex, isStop, cliVars, task, dispVars, poolVars, notVars, subVars, ran, endVars>>

\* ThreadPool::stop, called by PipeNodeDispatcher::stop: the flag.
StopPool ==
  /\ ctl = "nodes" /\ nodeStop = Nodes
  /\ poolStop' = TRUE
  /\ ctl' = "pool"
  /\ UNCHANGED <<mutex, isStop, nodeStop, cliVars, task, dispVars, poolQ, work, notVars, subVars,
                 ran, endVars>>

\* mutant: the pool's threads are not joined
NoJoin == TRUE

WorkersJoined == \A w \in Workers : work[w].st = "exited"

\* The workers are joined, then ThreadLoop::stop sets the dispatcher's flag.
StopDisp ==
  /\ ctl = "pool" /\ WorkersJoined
  /\ dispStop' = TRUE
  /\ ctl' = "disp"
  /\ UNCHANGED <<mutex, isStop, nodeStop, cliVars, task, dispQ, disp, dispTask, poolVars, notVars,
                 subVars, ran, endVars>>

\* The dispatcher's thread, if start() made one, is joined; Notifier::stop
\* sets the notifier's flag.
StopNotif ==
  /\ ctl = "disp" /\ disp \in {"off", "exited"}
  /\ notStop' = TRUE
  /\ ctl' = "notif"
  /\ UNCHANGED <<mutex, isStop, nodeStop, cliVars, task, dispVars, poolVars, notQ, notif, pending,
                 expect, subVars, ran, endVars>>

\* The notifier's thread is joined, its pending tasks are dropped, the maps
\* are cleared and m_mutex is released.
StopEnd ==
  /\ ctl = "notif" /\ notif = "exited"
  /\ pending' = {} /\ expect' = 1
  /\ ctl' = "stopped" /\ mutex' = "free"
  /\ UNCHANGED <<isStop, nodeStop, cliVars, task, dispVars, poolVars, notQ, notif, notStop, subVars,
                 ran, endVars>>

----------------------------------------------------------------------------
Client(c) ==
  \/ NewTask(c) \/ SubmitRefused(c) \/ SubmitQueue(c) \/ SubmitCheck(c)
  \/ SubmitBlock(c) \/ SpuriousWake(c) \/ SubmitRelock(c) \/ SubmitCount(c)

Dispatcher == DispTake \/ DispCheck \/ DispEmplace \/ DispExit

Worker(w) == WorkTake(w) \/ WorkExit(w) \/ WorkRun(w) \/ WorkQueue(w) \/ WorkListen(w)

NotifierLoop == NotTake \/ NotDrain \/ NotDrained \/ NotExit

Stopping ==
  \/ \E n \in Nodes : StopNode(n)
  \/ StopPool \/ StopDisp \/ StopNotif \/ StopEnd

Controller == StartBuild \/ StartThread \/ StopBegin \/ Stopping

\* std::terminate stops every thread.
Next ==
  /\ ~Crashed
  /\ \/ \E c \in Clients : Client(c)
     \/ Dispatcher
     \/ \E w \in Workers : Worker(w)
     \/ NotifierLoop
     \/ Controller

Spec == Init /\ [][Next]_vars

\* The threads are scheduled: each goes on whenever it has work, and a woken
\* client that competes for m_mutex gets it in the end.  Nobody is obliged to
\* build or submit a task or to call stop(), and a wait need not end unless
\* notify_one ends it.
Fairness ==
  /\ WF_vars(~Crashed /\ Dispatcher)
  /\ \A w \in Workers : WF_vars(~Crashed /\ Worker(w))
  /\ WF_vars(~Crashed /\ NotifierLoop)
  /\ WF_vars(~Crashed /\ (StartThread \/ Stopping))
  /\ \A c \in Clients : /\ WF_vars(~Crashed /\ (SubmitCheck(c) \/ SubmitBlock(c) \/ SubmitCount(c)))
                        /\ SF_vars(~Crashed /\ SubmitRelock(c))

FairSpec == Spec /\ Fairness

----------------------------------------------------------------------------
(* Properties. *)

CtlTypes ==
  /\ ctl \in {"new", "built", "running", "nodes", "pool", "disp", "notif", "stopped"}
  /\ mutex \in Clients \cup {"free", "ctl"}
  /\ isStop \in BOOLEAN /\ nodeStop \subseteq Nodes

ClientTypes ==
  /\ pc \in [Clients -> {"idle", "built", "check", "block", "wait", "woken", "count"}]
  /\ cur \in [Clients -> Tasks \cup {NoTask}]
  /\ nextId \in 1 .. MaxTask + 1 /\ count \in 0 .. W - 1

DispTypes ==
  /\ dispQ \subseteq Tasks
  /\ disp \in {"off", "wait", "check", "emplace", "crashed", "exited"}
  /\ dispTask \in Tasks \cup {NoTask} /\ dispStop \in BOOLEAN

PoolTypes ==
  /\ poolQ \in Seq(Tasks) /\ work \in [Workers -> WorkRecord] /\ poolStop \in BOOLEAN

NotTypes ==
  /\ notQ \subseteq Tasks /\ notif \in {"wait", "drain", "drainLast", "exited"}
  /\ pending \subseteq Tasks /\ expect \in 1 .. MaxTask + 1 /\ notStop \in BOOLEAN

HistoryTypes ==
  /\ path \in [Tasks -> Seq(Nodes)] /\ ran \in [Tasks -> Seq(Nodes)]
  /\ submitted \subseteq Tasks /\ counted \subseteq Tasks
  /\ delivered \in Seq(Tasks) /\ verdict \in [Tasks -> {"none", "OK", "ERROR"}]

(* Every variable keeps its type: the count its width, whatever order it is *)
(* incremented and decremented in, and a worker in no state but these.      *)
TypeOK ==
  /\ CtlTypes /\ ClientTypes /\ task \in [Tasks -> TaskRecord]
  /\ DispTypes /\ PoolTypes /\ NotTypes /\ HistoryTypes

DeliveredSet == {delivered[i] : i \in DOMAIN delivered}

\* The places in which a task waits or is worked on.
InHand(t)       == disp \in {"check", "emplace", "crashed"} /\ dispTask = t
InDispatcher(t) == t \in dispQ \/ InHand(t)
InPool(t)       == \E i \in DOMAIN poolQ : poolQ[i] = t
AtWorker(w, t)  == work[w].st \in {"run", "queue"} /\ work[w].t = t
AtWork(t)       == \E w \in Workers : AtWorker(w, t)
InNotifier(t)   == t \in notQ \/ t \in pending
Delivered(t)    == t \in DeliveredSet

(* One owner.  Between submit() and the FINAL callback a task is in one     *)
(* place at most: no two threads run nodes on it at once, it is not queued  *)
(* twice, and a task that is being reported or was reported is run by       *)
(* nobody.                                                                  *)
OneOwner ==
  /\ \A i, j \in DOMAIN poolQ : poolQ[i] = poolQ[j] => i = j
  /\ \A t \in Tasks :
       /\ \A v, w \in Workers : AtWorker(v, t) /\ AtWorker(w, t) => v = w
       /\ ~ (t \in dispQ /\ InHand(t)) /\ ~ (t \in notQ /\ t \in pending)
       /\ InDispatcher(t) => ~ (InPool(t) \/ AtWork(t) \/ InNotifier(t) \/ Delivered(t))
       /\ InPool(t)       => ~ (AtWork(t) \/ InNotifier(t) \/ Delivered(t))
       /\ AtWork(t)       => ~ (InNotifier(t) \/ Delivered(t))
       /\ InNotifier(t)   => ~ Delivered(t)

(* The FINAL callback sees the tasks in the order of their identifiers,     *)
(* without a gap and each once, whatever order clients submit them in and   *)
(* the pool finishes them in.                                               *)
InOrderDelivery == \A i \in DOMAIN delivered : delivered[i] = i

(* A task reported OK has been through every node of its path, in order,    *)
(* each once.                                                               *)
OKMeansComplete == \A t \in Tasks : verdict[t] = "OK" => ran[t] = path[t]

(* A task is reported ERROR only if one of its nodes failed, so that it is  *)
(* short of its path, or the pipeline is being stopped.                     *)
ErrorHasCause == \A t \in Tasks : verdict[t] = "ERROR" => ran[t] # path[t] \/ isStop

InFlight == submitted \ DeliveredSet

(* What maxProcessingSize really bounds: the tasks submitted and not yet    *)
(* reported never exceed it by more than one per client, because submit()   *)
(* queues a task before it looks at the count.                              *)
InFlightBound == Cardinality(InFlight) <= MaxProcessing + Cardinality(Clients)

\* The task waits in the dispatcher for its first node.
FirstWait(t) == t \in dispQ /\ ran[t] = <<>> /\ task[t].status = "OK"

(* The scheduler may prefer tasks of a more urgent type to one that waits,   *)
(* but no more of those built after it can have begun than the limit and the *)
(* other clients allow: none of them is reported before it, so they are in   *)
(* flight as long as it is, and InFlightBound is about all of these.         *)
(* Tasks built before it and submitted later are not counted: it cannot be   *)
(* reported before they are, however many they are.                          *)
OvertakeBound ==
  \A t \in Tasks : FirstWait(t) =>
    Cardinality({u \in submitted : u > t /\ ~FirstWait(u)})
      <= MaxProcessing + Cardinality(Clients) - 1

Started == disp # "off"

(* After stop() nothing is left in a queue, and a task that was accepted    *)
(* has been reported if every task built before it was accepted too.        *)
StopReports ==
  (ctl = "stopped" /\ Started) =>
    /\ dispQ = {} /\ poolQ = <<>>
    /\ NotifyResults = {TRUE} =>
         \A t \in submitted : 1 .. t \subseteq submitted => t \in DeliveredSet

(* After stop() every task submit() accepted has been reported.             *)
StopReportsAll == (ctl = "stopped" /\ Started) => submitted \subseteq DeliveredSet

(* stop() does not bring the process down.                                  *)
NoCrash == ~Crashed

(* Every accepted task is reported in the end, if the tasks built before it *)
(* are accepted too: no order of finishing can leave it pending.            *)
EventuallyReported ==
  \A t \in Tasks : (Started /\ 1 .. t \subseteq submitted) ~> (t \in DeliveredSet \/ Crashed)

(* stop() returns, unless the dispatcher's thread throws.                   *)
StopReturns == isStop ~> (ctl = "stopped" \/ Crashed)

(* submit() returns.                                                        *)
SubmitReturns == \A c \in Clients : (pc[c] = "check") ~> (pc[c] = "idle")
=============================================================================
