# C-Flow in TLA+

TLA+ modules, TLC model checks and TLAPS proofs for C-Flow, a C++17 framework
for pipelines of nodes that run in threads and for flows of tasks that depend
on each other. Paths below are relative to the repository's `src/`.

Contents: [the system](#the-system), [the modules](#the-modules),
[the runs](#the-runs), [fairness](#fairness), [the proofs](#the-proofs),
[findings](#findings), [what is not modelled](#what-is-not-modelled),
[plan](#plan), [running it](#running-it).

## The system

C-Flow offers two services. A **PipeLine** takes tasks from client threads,
sends each along a path of nodes, and reports every task, in order, to each of
its FINAL notifiers. A **TaskFlowCtl** takes tasks that are connected to each other
and runs them level by level. Both use the same DAG; tasks of both can use
buffers of a BufferManager.

| Component | State | Operations | Correct when |
|---|---|---|---|
| `PipeLine` run time (`pipeline/include/pipeline.h`) | `m_mutex`, `m_isStop`, `m_processingTaskCount` (unsigned atomic), a condition variable | `submit`, `notifyDone`, `start`, `stop` | the count throttles; no accepted task is lost; `submit` and `stop` return |
| `PipeLine` configuration (same file) | node map, scenario counts, scenario → path, notifiers | `addPipeNode`, `connectNode`, `addNotifier`, `constructPipelinesByScenario` | a scenario's path has all its nodes, in the order of the connections |
| `PipeNodeDispatcher` (`pipeline/include/pipenode_dispatcher.h`) | a `ThreadLoop`, a `ThreadPool`, maps of nodes and notifiers | `dispatch`, `queueInDispacther`, `notifyFinal`, `notifyNotFinal`, `stop` | a task has one owner at a time and ends at the FINAL notifier |
| `PipeNode` (`pipenode.h`) | callbacks, `m_isStop` | `process`, `stop` | a failed node ends the task as an error |
| `PipeTask` (`pipe_task.h/.cpp`) | dependencies, current and next node, status, notify status, buffers | `constructDependency`, `markCurrentNodeReady`, `markError`, `setCurrentNodeIO` | nodes run in path order, each once; a buffer has one user and goes back |
| `Task`, `IDGenerator` | identifier, status; an atomic counter | constructor | identifiers are unique and dense |
| `Notifier` (`common/include/notifier.h`) | a `ThreadLoop`, `m_pendingItemMap`, `m_expectItemId`, a done callback | `threadLoop`, `notify`, `stop` | FINAL: delivery in identifier order, without gap or repetition; TASK_LISTEN: one call per node it was asked for at |
| `ThreadLoop`, `ThreadPool` (`utils/include`) | a queue, a mutex, a condition variable, a stop flag, threads | `queueItem`, `start`, `stop`; `emplace`, `stop` | what was queued before `stop` is processed |
| `Scheduler` (`common/include/scheduler.h`) | a priority queue per task type | `emplace`, `schedule` | types in order; no more tasks built later begin before one that waits than the admission limit and the other clients allow |
| `BufferManager`, `RingQueue` (`utils/include`) | two rings, a count, a mutex, a condition variable | `popBuffer`, `pushBuffer`, `addUserOfBuffer`, destructor | no buffer is lost, given twice or leaked; nobody waits in vain |
| `BufferManagerFactory` | specification → manager | `create`, `get` | one manager per specification |
| `DAG`, `DAGNode` (`common/src/dag.cpp`) | nodes, edges, in-degrees, a cache | `addNode`, `connect`, two sorts | the levels are the longest-chain layering |
| `TaskFlowCtl`, `TaskThreadPool`, `TFTask` (`task/`) | tasks, levels, a priority queue, a pool | `addTask`, `connect`, `start`, destructor | a task runs once, after those it depends on |
| `BlockingQueue`, `LockFreeQueue`, busy thread pool | – | – | used by no other component, or compiled out |
| log, trace, dump, time and string helpers | – | – | no other component's state depends on them |

**How they interact at run time.** A client calls `submit`: under `m_mutex`
it gives the task its path, queues it for the dispatcher, and only then looks
at the count, waits if it is at its limit, and counts the task. The dispatcher's
thread takes a task and either puts it into the pool's queue, if it has a node
left and nothing is stopped, or hands it to the FINAL notifier with a verdict.
A worker runs the node's callback, marks the task, puts it back into the
dispatcher's queue, and *then* calls TASK_LISTEN notifiers, which write into a
task that may already be somewhere else. The notifier's thread holds a task
back until all with smaller identifiers were delivered; each delivery
decrements the count, without `m_mutex`, and wakes one client. `stop` holds
`m_mutex` from beginning to end and stops nodes, pool, dispatcher and notifier
in this order, joining each thread.

**What is hard here.** There are five kinds of threads and four queues; the
count is tested and changed at three places under different locks; flags are
read one after the other while `stop` sets them; the workers finish in any
order; a task is written to after it was passed on; the buffers' ring keeps
elements after they were popped; a worker may wait for a buffer while its task
holds others; every queue reorders by type and priority while the notifiers
have to keep the order of the identifiers; a task of a flow can be queued
twice. The list
`hazards` in `PROJECT.json` has each at its line with the properties that would
notice it going wrong. Nothing is persisted or sent over a network, so there
are no crashes with recovery, lost messages or timeouts.

## The modules

| Module | Models | Uses |
|---|---|---|
| `Pipeline` | the run-time core: clients, dispatcher, workers, notifier, the controlling thread | |
| `PipelineInv` | its inductive invariant, in named parts | `Pipeline` |
| `TaskService` | abstract: what a pipeline promises, without threads or queues | |
| `PipelineService` | the refinement mapping from `Pipeline` to `TaskService` | `PipelineInv` |
| `PipelineProofs`, `PipelineSafety` | theorems: types and owners; delivery, verdicts, count, overtaking and the refinement | `PipelineInv`, `PipelineService` |
| `RingQueue` | the ring of `ring_queue.h`, as operators on a record | |
| `Scheduler` | the queue of a `ThreadLoop`: which item is served next | |
| `Notification` | putting a pipeline together, several FINAL notifiers, listeners, priorities, callbacks that throw | `Scheduler` |
| `NotificationProofs` | theorems on the order, the verdicts, listeners, `stop()` and the count | `Notification` |
| `BufferPool` | abstract: what a buffer manager promises its users | |
| `BufferManager` | pops, returns, shares and the destructor; the mapping to `BufferPool` | `RingQueue`, `BufferPool` |
| `BufferManagerProofs` | lemmas on the ring, theorems on the manager and the refinement | `BufferManager` |
| `TaskBuffers` | the buffers a `PipeTask` takes, hands on and returns; the factory; the mapping of each manager's use to `BufferPool` | `BufferPool` |
| `TaskBuffersProofs` | theorems on the use and the return of buffers | `TaskBuffers` |
| `Dag` | the sorts of `dag.cpp`, as operators on a set of edges, with reference definitions | |
| `DagProofs` | theorems on the sorts, for every graph | `Dag` |
| `TaskFlow` | `TaskFlowCtl` and its pool | `Dag` |
| `TaskFlowProofs` | theorems on `TaskFlow` | `TaskFlow`, `DagProofs` |
| `PipelineConfig` | how scenarios get paths | `Dag` |
| `PipelineConfigProofs` | theorems on the paths | `PipelineConfig`, `DagProofs` |
| `MC...` | instances for TLC | |

### Pipeline

One program counter per thread. A step is the code between two points where
another thread can see or change what it uses. The mutexes of the three queues
are held for one step, so they are not variables; `m_mutex` is held over
several and is.

| Variable | Code |
|---|---|
| `ctl` | where the thread in `start()`/`stop()` is: `new`, `built`, `running`, then `nodes`, `pool`, `disp`, `notif` inside `stop()`, `stopped` |
| `mutex`, `isStop`, `nodeStop`, `poolStop`, `dispStop`, `notStop` | `m_mutex` and the stop flags |
| `pc`, `cur` | a client: `idle`, `built` (has a task), then inside `submit`: `check`, `block`, `wait`, `woken`, `count` |
| `nextId` | the `IDGenerator`; identifiers are drawn when a task is *built* |
| `count` | `m_processingTaskCount`, modulo `W` |
| `task` | nodes left on the path, `m_status`, notify status |
| `dispQ`, `disp`, `dispTask` | the dispatcher's queue, thread and task |
| `poolQ`, `work` | the pool's queue; each worker: `idle`, `run`, `queue`, `listen`, `exited` |
| `notQ`, `notif`, `pending`, `expect` | the notifier's queue and thread, `m_pendingItemMap`, `m_expectItemId` |
| `path`, `ran`, `submitted`, `counted`, `delivered`, `verdict` | history variables: no action reads them |

| Action | Code |
|---|---|
| `NewTask`, `SubmitRefused` | `Task::Task`; `submit` after `stop` began |
| `SubmitQueue`, `SubmitCheck`, `SubmitBlock`, `SubmitRelock`, `SubmitCount` | `PipeLine::submit`, cut where it queues, tests, waits and counts |
| `DispTake`, `DispCheck`, `DispEmplace`, `DispExit` | `_threadLoop` and `dispatch`; the two tests of the pool's flag and the throw in `emplace` are separate steps |
| `WorkTake`, `WorkRun`, `WorkQueue`, `WorkListen`, `WorkExit` | the pool's loop and `PipeNode::process` |
| `NotTake`, `NotDrain`, `NotDrained`, `NotExit` | `Notifier::threadLoop`; each delivery is a step, with the decrement and `notify_one` |
| `StartBuild`, `StartThread`, `StopBegin`, `StopNode`, `StopPool`, `StopDisp`, `StopNotif`, `StopEnd` | `start` and `stop` |
| `SpuriousWake` | a `condition_variable` may wake without a notification |

A node is a model value and its callback a boolean result; a path is a member
of `Paths`, or empty before `start()`. The scheduler may return any queued task:
this includes every order the real one can produce, whatever the types and
priorities. There is one FINAL notifier, made by `addNotifier`.

### Scheduler and Notification

`Notification` looks at the same pipeline for what `Pipeline` leaves out, and
leaves out in turn the moments *inside* `dispatch` at which `stop()` can strike
and the other clients: what the dispatcher or a FINAL notifier does with one
task is one step. Its client submits a task as it builds it, so there is no
gap in the identifiers, and no two clients are in `submit` at once. What depends on
gaps (`StopReports`, `StopReportsAll`) or on several clients that queue before
they test the count (`InFlightBound`, `OvertakeBound`) is a property of
`Pipeline`. `m_mutex` is held exactly while `client = "check"` or
`stop()` runs.

`Scheduler` is operators on sets. `schedule()` serves the first task type that
has items; within a type `ItemPriorityComp` orders by `<`, so the top of the
`std::priority_queue` is the *largest* `TaskPriority` number, which is the
least urgent one. Items that compare equal come in any order.

| Variable | Code |
|---|---|
| `entry` | per node, what the dispatcher's `weak_ptr` leads to: `none`, `live`, `gone` |
| `done` | per FINAL notifier: not added, or its done callback: `notifyDone` of the pipeline, one of the caller's, none |
| `heard` | TASK_LISTEN notifiers of the dispatcher |
| `kind` | `m_taskType`, `m_priority` |
| `notQ`, `loop`, `notStop`, `pending`, `expect` | per FINAL notifier: its scheduler, thread, stop flag, `m_pendingItemMap`, `m_expectItemId` |
| `early`, `ran`, `ended`, `lost`, `told`, `delivered`, `verdict` | history variables |

| Action | Code |
|---|---|
| `AddPipeNode`, `ReplacePipeNode`, `AddFinal`, `AddListener`, `Start` | `addPipeNode` with a new and with a known identifier, `addNotifier`, `start` |
| `SubmitQueue`, `SubmitCount`, `SubmitWait`, `SubmitWake` | `PipeLine::submit` |
| `Dispatch`, `DispExit` | the dispatcher's loop with `dispatch` and `notifyFinal` |
| `WorkTake`, `WorkRun`, `WorkThrow`, `WorkQueue`, `WorkListen`, `WorkExit` | the pool's loop and `PipeNode::process`; a callback returns true, false, or throws into the `packaged_task` |
| `FinalHold`, `FinalHandOver`, `FinalUnbound`, `FinalExit` | `Notifier::threadLoop`: hold back, hand over with all that follow, a missing done callback, the end |
| `StopNodes`, `StopPool`, `StopDisp`, `DispJoined`, `StopFinal`, `StopEnd` | `PipeLine::stop`, one notifier after the other |

### BufferManager and RingQueue

Every member function holds `m_bufferLock` throughout except while it waits, so
each is one step and a `popBuffer` that waits is three. A buffer number stands
for one allocation; numbers are used again once a buffer is freed *and* no ring
slot points to it, which keeps the state space finite without bounding how long
the manager lives. `shares` counts what each user has to return; a user returns
only what it holds and does not use a destroyed manager. The ring's slots keep
popped elements, because the destructor walks them.

`BufferPool` has no rings, counts, waiting or temporary buffers: a buffer is
popped when nobody uses it, shared, pushed back share by share, and at most
`maxQueueSize` are out. Under `held <- shares, closed <- exited` a successful
pop of either kind is `Pop`, `PushBuffer` is `Push`, `AddUser` is `Share`,
`Destroy` is `Close`, and a `popBuffer` that begins or ends to wait stutters.

### TaskBuffers

`constructIO` declares, per node, specifications of input and output buffers.
A node's outputs are popped before its callback and put down as the inputs of
the next node; afterwards the *declared* inputs, and at the last or a failing
node the declared outputs, are looked up by name in those lists and pushed back.

| Variable | Code |
|---|---|
| `design` | what `constructIO` declares: chosen once from `Mixes` |
| `st`, `pos` | who has the task; its current node |
| `inp`, `outp` | `NodeBufferInfo::input` and `output` of the current node |
| `rel` | what `releaseCurrentNodeBuffer` has still to push; `NoBuffer` for a name it found nothing under |
| `managers` | `m_bufferManagerMap` of the factory |
| `free`, `users` | buffers a manager can give, and `numOfUser` modulo `W` |

| Action | Code |
|---|---|
| `Submit` | `constructDependency`, `addInputForNode`, `addOutputForNode`, `getBufferManager`, `createBufferManager` |
| `Dispatch`, `Take` | `dispatch`, the pool's loop |
| `Pop` | one `popBuffer` of `setCurrentNodeIO`; disabled while it would wait |
| `Run`, `Throw` | the callback returns or throws; `markCurrentNodeReady`, `markError` |
| `Push`, `Pushed` | one `pushBuffer`; then `queueInDispacther` |
| `Stop` | nodes and pool are stopped |

### Dag, TaskFlow and PipelineConfig

`Dag` computes in-degrees, levels and chains the way `dag.cpp` does; the loop
is a recursive function. Its reference definitions say what a layering, a chain
and a circle are, and two properties of the modules that use it compare them:
`OrderIsLayering` and `ChainsAreSound`. TLC compares them for the graphs of the
two runs, `DagProofs` for every finite graph.

In `TaskFlow`, one thread adds, connects and starts; the pool's threads take
the most urgent task. `emplaceTask` replaces the task's function by a
`packaged_task` around it, so a second `start()` adds a *layer*: `layers[t]` is
the list of their states, innermost first. A task that a first, failed
`start()` left queued is later called through the newer layer.

In `PipelineConfig`, one thread adds nodes (also under an identifier that
exists), connects them and constructs the paths, more than once.
`m_pipelineScenarioMap` is never cleared, so `counts` accumulates. The variable
`basis` remembers the graph each path was constructed from.

## The runs

"Violation" runs check one statement of the documentation that the code does
not keep; see [findings](#findings).

| Run | Instance | Shows |
|---|---|---|
| `pipeline` | 2 clients, 2 workers, 2 tasks, paths of 2 and 1 nodes, nodes succeed or fail, a listener, `stop()` at any time, wrap-around at `W` = 4 | `TypeOK`, `OneOwner`, `InOrderDelivery`, `OKMeansComplete`, `ErrorHasCause`, `StopReports`, `NoLoss`, and that `TaskService` is implemented (`IsService`) |
| `admission` | 2 clients, 1 worker, 4 tasks, limit 1, the FINAL callback may fail | `InFlightBound`, `OvertakeBound` |
| `live` | 2 clients, 1 worker, 2 tasks, limit 1, fair threads | `EventuallyReported`, `StopReturns` |
| `stop_crash` | as `pipeline` | violation of `NoCrash` |
| `stop_reports` | as `pipeline` | violation of `StopReportsAll` |
| `submit` | 1 client, 1 worker, 2 tasks, fair threads | violation of `SubmitReturns` |
| `buffers` | 2 users, 1 cached and 2 temporary buffers, at most 2 shares a user | `TypeOK`, `AllocatedIsLive`, `HeldOrCached`, `BackToMin`, `WaitsForReason`, `OnlyHeldSurvive`, `PopReturns`, and that `BufferPool` is implemented (`IsPool`) |
| `notify` | 3 tasks (2 with two FINAL notifiers) of three kinds, 1 node, 1 worker, 1 listener, limit 1, callbacks succeed, fail or throw, `stop()` at any time | `CountLedger`, `EachFinalInOrder`, `ListenersTold`, `VerdictHasCause`, `StopDrains`, `SurvivorsAreBound` |
| `task_buffers` | 3 tasks, 2 workers, managers of 2, 1 and 1 buffers, five mixes of declarations, callbacks succeed, fail or throw, `stop()` at any time | `BuffersAccounted`, `OneUser`, `TasksEnd`, and that each manager is used as a `BufferPool` (`UsesPools`) |
| `task_flow` | 3 tasks, any connections, 2 pool threads, exceptions, 2 starts, one urgent task | `TypeOK`, `OrderIsLayering`, `PredecessorsFirst`, `RunsOnce`, `ReturnedMeansDone`, `DestroyedMeansDone`, `StartEnds` |
| `config` | 4 nodes, 1 scenario, 4 additions, at most 5 connections, 2 constructions | `TypeOK`, `ChainsAreSound`, `PathIsComplete` |
| `config_chain` | 4 nodes, 1 construction | violation of `ScenarioLinked` |

Why these bounds. *Pipeline*: two clients and two workers are what it takes for
two tasks to overtake each other in the pool and for two clients to meet at
`m_mutex` and at the condition variable; two tasks with limit 1 make one
client wait and make the count wrap (a task delivered before it is counted);
`W` = 4 is more than the limit and the clients together, as 2^32 is; a path of
two nodes has a hand-over between nodes and a path of one is the skip list or a
last node. Four tasks with limit 1 let both clients pass the test again and
again; while one task waits, two built later can begin, one that is counted
and one whose client waits in `submit`, which is what `OvertakeBound` allows, and
there is a fourth task to exceed it. About 1,660,000 states. What a larger
instance could add to the safety properties is covered by
the proofs. *BufferManager*: with one cached and two temporary buffers both
rings wrap, a buffer of either kind is shared, and a pop waits. `PopReturns`
needs users × (`MaxHold` − 1) < `maxQueueSize`: otherwise all users may wait
while each holds a buffer, which no pool can prevent. *Notification*: three
tasks of three kinds (real-time, and two priorities of the normal type) let a
task overtake another by its type and by its priority; two FINAL notifiers, each
with any of the three done callbacks, are what it takes for the
count to fall twice and to wrap, and two tasks make each of them hold one back;
`W` = 8 tells all values from -4 to 3 apart; one worker is enough because
the races of several are `Pipeline`'s subject. About 1,090,000 states.
*TaskBuffers*: one buffer, two workers and three tasks is the smallest case in
which both workers wait for what the third task holds; two outputs popped in
opposite orders deadlock two tasks; the other mixes declare a name twice, use
a node identifier of 0, and leave an output nobody takes as input. `W` = 4 is
more than the users a buffer can have. About 98,000 states. *TaskFlow*: three tasks
give chains, forks, joins, circles and levels of two; two starts are what it
takes to queue a task twice. *PipelineConfig*: four nodes are what it
takes for two nodes of a level to continue in different nodes of the next, so
that a pick is cut, and for a chain that skips a level; five connections
are every acyclic graph of four nodes but the complete one; the fourth addition may replace one of
three nodes between the two constructions.

`CHECK_DEADLOCK` is off everywhere because each program may stop for good: the
pipeline after `stop()`, the manager after its destructor, the flow after its
own, the configuration when its bounds are used up. That threads do not wait
for each other for ever is stated by `StopReturns`, `EventuallyReported`,
`PopReturns`, `StartEnds` and `TasksEnd` instead.

`SYMMETRY` is used only in runs without liveness properties.

### Fairness

`Pipeline`: weak fairness for the dispatcher, each worker, the notifier, and for
what remains of `start()` and `stop()` once called: operating-system threads
that are not blocked go on, and callbacks return. A client inside `submit` gets
weak fairness for its own steps and strong fairness for taking `m_mutex` again:
a mutex other threads release again and again is got eventually. There is no
fairness for building or submitting tasks, for calling `start` or `stop`, or
for spurious wake-ups.

`BufferManager`: users return what they hold, and a woken `popBuffer` gets the
lock; strong fairness for getting a buffer, since another user may be faster
any finite number of times. `TaskFlow`: pool threads and a running `start()` or
destructor go on, tasks end. `TaskBuffers`: weak fairness per task for what the
dispatcher and a worker do with it; a task whose `popBuffer` waits is not
enabled, so nothing promises that it gets a buffer others take away; nobody is
obliged to submit or to stop. `Notification` states no fairness and has only
safety properties.

### What the properties assume

`TasksEnd` has premises, and each is one the code needs: without it TLC finds a
task that waits for ever.

- `Enough`: tasks in flight are fewer than workers and buffers of a
  specification together. Otherwise every worker can wait in `popBuffer` while
  the buffers lie with tasks in the queues, and no worker is left to run them.
- `Ascending`: nodes pop in one order. Two tasks that pop two buffers in opposite
  orders wait for each other.
- `Sound`: every output is declared as input of the next node, whose identifier
  is positive; otherwise nobody returns the buffer.
- `NoRepeats`: no node declares a name twice; the look-up by name would find the
  same buffer both times.
- `Undisturbed`: no callback threw and `stop()` took out no task between two
  nodes. What such a task holds stays out, and a worker that waits for it waits
  for ever, so `stop()` does not return either.

`BuffersAccounted`, `OneUser` and `UsesPools` need `NoRepeats` and nothing else:
they hold for whatever an exception or `stop()` leaves behind, and
`BuffersAccounted` names the outputs that a following node does not take
(`Stranded`) instead of excluding them. One mix of the run repeats a name;
without the premise TLC finds a buffer in two tasks' hands.

`OvertakeBound` counts the tasks built later (with greater identifiers) that
have begun while another waits for its first node: at most `maxProcessingSize`
and one per other client. The limit alone does not bound them: a client
queues its task before it tests the count and releases `m_mutex` while it waits, so each
client can have one more. Tasks built earlier and submitted later are
not counted: the waiting task cannot be reported before them anyway. It is about
one FINAL notifier made by `addNotifier`: with two the count says nothing
about tasks in process, as `CountLedger` shows. `CountLedger` says so in numbers: the
count is tasks let through less *deliveries of all notifiers made by
`addNotifier`*, so two of them take it down twice per task, and without one it
never falls and `submit` waits once the limit is reached.

## The proofs

### Pipeline

All hold for every set of clients, workers and nodes, every set of paths, every
number of tasks `MaxTask`, every limit and width, under the assumptions of
`Pipeline`:
`SizesAssumption` (the limit and the number of clients are below the count's
range, as they are below 2^32), `PathsAssumption`, `ResultsAssumption`,
`WorkersAssumption` (the pool has a thread) and `OwnersAssumption` (no client
is called `"free"` or `"ctl"`).

| Theorem | Module | Statement |
|---|---|---|
| `TypeCorrect` | `PipelineProofs` | `Spec => []TypeOK`; the count keeps its width |
| `SingleOwner` | `PipelineProofs` | `Spec => []OneOwner` |
| `DeliveredInOrder` | `PipelineSafety` | `Spec => []InOrderDelivery` |
| `NothingLost` | `PipelineSafety` | `Spec => []NoLoss` |
| `StopLeavesNone` | `PipelineSafety` | `Spec => []StopReports` |
| `InFlightBounded` | `PipelineSafety` | `Spec => []InFlightBound` |
| `OvertakingBounded` | `PipelineSafety` | `Spec => []OvertakeBound` |
| `OKIsComplete`, `ErrorIsCaused` | `PipelineSafety` | `Spec => []OKMeansComplete`, `Spec => []ErrorHasCause` |
| `PipelineIsService` | `PipelineSafety` | `Spec => IsService` |

The properties are not inductive by themselves. `PipelineInv` has what they
rest on:

- *Owners.* That a task is not queued twice depends on the client that holds it
  not having submitted it (`ClientsHold`), on what dispatcher, pool and workers
  hold having a node left (`HandsHold`), and on nothing unsubmitted being
  anywhere (`OwnedAreSubmitted`). Together with `OneOwner` they are inductive.
- *Order and loss.* `Expecting` ties `m_expectItemId` to the number delivered.
  That nothing is lost needs the order of `stop()`: `StopOrder` says that a
  flag is set only when the threads that feed the queue behind it have ended,
  so `queueItem`'s silent drop never meets a task, and `ThreadsDone` that a
  thread that has ended has emptied its queue and left no task pending that
  could be delivered.
- *Count.* `CountIs` gives the value of the wrapped count: tasks counted less
  tasks delivered, plus `W` if that is negative. `CountBounds` is the admission
  test, kept up to the moment of the increment because the client holds
  `m_mutex` (`MutexHeld`) and deliveries only help. Tasks in flight and not
  counted have a client each, hence limit plus clients. A task that began before
  one with a smaller identifier is in flight as long as that one waits, because the notifier
  holds it back; the waiting one is in flight as well, hence one less in
  `OvertakingBounded`.
- *Verdicts.* `Progress` says that nodes run and nodes left make up the path
  until one fails, and what the notify status of a task in the notifier means;
  `Reported` carries it over to what the callback saw. The one delicate step is
  `WorkListen`, which writes into a task that has moved on.
- *Refinement.* Each action accepts, completes or reports one task, opens or
  closes the service, or stutters, by the invariants above.

### Notification

For every set of nodes, finitely many FINAL notifiers, every set of listeners
and workers, every number of tasks, every limit and width, under
`NotificationAssumption`: the limit is below the count's range, the pool has a
thread, and the path has no node twice, which is what `PathsAreAsAssumed`
proves of the paths a pipeline constructs.

| Theorem | Statement |
|---|---|
| `FinalsInOrder` | `Spec => []EachFinalInOrder`: whatever the schedulers prefer and however wrongly several notifiers make the count admit tasks |
| `VerdictsCaused` | `Spec => []VerdictHasCause` |
| `ListenersToldOnce` | `Spec => []ListenersTold` |
| `StopDrainsAll`, `SurvivorsBound` | `Spec => []StopDrains`, `Spec => []SurvivorsAreBound` |
| `CountCorrect` | `Spec => []CountLedger` |

`OrderInv` makes the order of delivery inductive: types, `LoopsRun` (a thread
that runs belongs to a notifier that was added and not stopped) and
`ExpectsNext` (`m_expectItemId` is one more than what was handed over, until the
process or the pipeline ends: `stop()` sets it back to 1 with the thread gone).

`TaskInv` adds what happens to a task, and is inductive as a whole:

- `OnePlace`, `NoneDropped`: until `stop()` has returned, a task that was made
  is in the dispatcher's queue, in the pool's, in a worker's hands, lost to an
  exception, or queued, pending or delivered at *every* FINAL notifier that was
  added, and never at two of these. `NotPending`: what a notifier
  expects next never lies in its map.
- `Phases`: where `start()` and `stop()` are says which queues are empty and
  which threads have ended. This is what `StopDrains` needs: a notifier is
  stopped when nothing can reach it any more, so its thread ends with an empty
  queue.
- `Routes`, `Served`: the nodes a task has run and those left make up the path
  until a node fails or is missing; a node appears once because the path has
  it once, so a listener is called once.
- `Notes`: the notify status of a task with a notifier says whether it ran its
  path; it becomes the verdict.

`CountCorrect` needs an argument about numbers modulo `W` and one about finite
sets: the calls of `notifyDone` are pairs of a notifier and a place in what it
delivered.

### BufferManager

For every set of users, every `minQueueSize` above 0 and every `maxQueueSize`
from it upwards (`SizeAssumption`):

| Theorem | Statement |
|---|---|
| `PoolTypes`, `CountIsRight` | `Spec => []TypeOK`, `Spec => []AllocatedIsLive`: `m_alloctBufferCount` never drifts |
| `NoneLost`, `Shrinks` | `Spec => []HeldOrCached`, `Spec => []BackToMin` |
| `NoLostWakeup` | `Spec => []WaitsForReason` |
| `RestIsHeld` | `Spec => []OnlyHeldSurvive` |
| `PoolImplemented` | `Spec => IsPool` |

The inductive invariant `PoolInv` ties three views of a buffer together:
`UsersCounted` (`numOfUser` is the number of shares that are out, as the
cardinality of a set of numbered shares), `UnusedIsCached` (a cached buffer is
in an occupied slot exactly if that number is 0, a temporary one has memory
exactly if it is not), and `RingIsSound` (no buffer in two occupied slots; what
unoccupied slots still hold, if anything, are buffers of the constructor). It
rests on lemmas that are about the ring alone: `RingPopped` and
`RingPushed` say what the two operations do to the set of occupied slots across
the wrap-around, `RingSize` and `RingContents` relate indices and slots. Two
arguments are about numbers: `RingHasRoom` (unused cached buffers are mapped to
occupied slots one to one, so a push never meets a full ring) and `FreshBuffer`
(there is always a buffer number that is freed and in no slot, so numbering
does not restrict the manager).

### TaskBuffers

For every finite set of tasks, all specifications and sizes of their managers,
all mixes of declarations and paths of any length (`TaskBuffersAssumption`):

| Theorem | Statement |
|---|---|
| `BuffersUsedOnce` | `Spec => []OneUser` |
| `AllAccounted` | `Spec => []BuffersAccounted` |
| `PoolsUsed` | `Spec => UsesPools`: each `popBuffer` of a task is a `Pop` of the manager's `BufferPool`, each `pushBuffer` a `Push`, and everything else a stutter |

`PoolsUsed` and `PoolImplemented` meet at `BufferPool`: the first says that
tasks pop and push only as the pool allows, that is, what `BufferManager`
takes for granted of its users (one returns only what it holds); the second
that the manager keeps to the pool as long as they do, which is what
`TaskBuffers` takes for granted of a manager.

`BufferInv` consists of
`BufferTypes`; `Stages` (which lists a task can have in which hands); `UseInv`,
that is `Managed` (a buffer a manager can give has no user), `Owned` (what is in
a task's lists was popped by it and has it as its only user) and `Once` (no
buffer twice in its lists); and `HeldInv`: what was put down for a node are
inputs the node declares or `Stranded` (`InputsDeclared`), the outputs are popped in the order
they are declared (`OutputsDeclared`), and what a task popped and did not return
is in its lists unless it is `Stranded` (`AllListed`). `UseInv` and `HeldInv` have
the premise `NoRepeats`, as the properties have: see
[what the properties assume](#what-the-properties-assume).

### Dag

For every finite set of edges:

| Theorem | Statement |
|---|---|
| `SortIsLayering` | `TopologicalSort` returns nothing from a circle, and from any other graph the layering by longest chains |
| `ChainsOffered` | `MultiTopologicalSort` returns chains from nodes without predecessor, among them every chain as long as there are levels, and none from a circle |

What the loop computes is defined by a recursive function over the number of
turns. Induction is done by sets: a subset of `Nat` that contains 0 and with
each number the next one is `Nat`, because otherwise there is a least number
outside (`NatSubset`, from the library's minimum theorem for well-founded
relations). The same argument shows that the recursive function exists, by
extending it one turn at a time. The core is an invariant of the loop
(`DegreesCount`: after k turns a node's entry is the number of its
predecessors not yet erased) and, for circles, that a set all of whose nodes have a
predecessor in it is never touched (`CircleStays`), while what is left when no
entry is 0 is such a set.

### PipelineConfig

For every finite set of nodes and of scenarios and all bounds:

| Theorem | Statement |
|---|---|
| `ConfigTypeCorrect` | `Spec => []TypeOK` |
| `ConfigChains` | `Spec => []ChainsAreSound`, from `ChainsOffered` |
| `ConfigPaths` | `Spec => []PathIsComplete` |
| `PathsAreAsAssumed` | `Spec => []PathsFit`: a path is a sequence of nodes, as `Pipeline` assumes, without repetition, as `Notification` assumes |

`ConfigPaths` is where the accumulated counts matter: a path is accepted if its
length *equals* `m_pipelineScenarioMap`, which is at least the number of nodes
of the scenario in any chain; the path's nodes are among those, and different since
a chain has one node per level. So equality of the numbers makes the sets equal,
and a count that an earlier construction left behind can only refuse a path.

### TaskFlow

For every finite set of tasks, any threads, priorities and connections and any
number of calls of `start()` (`FlowAssumption`):

| Theorem | Statement |
|---|---|
| `CalledAtMostOnce` | `Spec => []RunsOnce` |
| `NothingLeftUndone` | `Spec => []DestroyedMeansDone` |
| `FlowTypeCorrect` | `Spec => []TypeOK` |
| `OrderCorrect` | `Spec => []OrderIsLayering`, from `SortIsLayering` |
| `ReturnCorrect` | `Spec => []ReturnedMeansDone` |
| `StartsInOrder` | `Spec => PredecessorsFirst`, an action property |

`FlowInv` says
that what is queued was wrapped (`WrappedFirst`), that a settled outer layer
wraps a function that has ended (`InnerFirst`), that a function that was called
has an innermost layer that is not pending (`CalledOnce`), that a wrapped task
has ended or is with the pool (`NoneDropped`), and that a thread leaves only a
stopped and empty pool (`ExitOrder`). `StartInv` adds the types of the graph,
`OrderIsLayering`, how far `start()` is (`LevelsPassed`: the levels before the
current one have passed, and of the current one whatever is neither to be
queued nor awaited) and `AwaitsPassed` (what a queued task depended on has
passed, and stays so however often it is queued again).

The attempt to prove `PredecessorsFirst` in an earlier form, "its predecessors
ended without an exception", failed for a good reason: with two calls of
`start()` it does not hold. See [findings](#findings).

### How the invariants were found

Each inductive invariant was also evaluated by TLC on the instance of the
component's run, as an `INVARIANT` of a copy of its configuration; what TLC
refuted was corrected before it was proved.

### Only model-checked

All liveness (`EventuallyReported`, `StopReturns`, `PopReturns`, `StartEnds`,
`TasksEnd`): the prover's temporal backend does not reason about fairness and
`ENABLED`. Every safety property of a passing run is proved.

## Findings

Each has a run that shows it.

1. `stop()` between the dispatcher's test of the pool and its `emplace` makes
   `emplace` throw in the dispatcher's thread, and the process ends
   (`pipenode_dispatcher.h:163`, run `stop_crash`).
2. A task accepted after one that was built but never accepted stays in
   `m_pendingItemMap`; `stop()` drops it without any report, although
   `README.md:174` promises an error (`notifier.h:273`, run `stop_reports`).
3. The count is incremented after the task was queued. A task delivered before
   that wraps the unsigned count; the next `submit` waits for ever
   (`pipeline.h:501`, run `submit`).
4. A chain of nodes that skips a level of the graph gets no path; a scenario
   can silently lose a node (`dag.cpp:160`, run `config_chain`).

Known differences between documents and code that no run of their own shows:

- The destructor of `BufferManager` does not free a buffer in use whose slot was
  overwritten, although the comment at `buffer_manager.h:143` says it frees all.
  `OnlyHeldSurvive` has the weaker statement that holds.
- A task connected to no other is in no level (`dag.cpp:38`), so
  `TaskFlowCtl::start` returns without running it, although `README.md:67` says
  it waits for all tasks. `ReturnedMeansDone` is about the connected ones.
- `README.md:168` and the header give `addNotifierForNode` a node and a
  notifier, in this order; `pipe_task.cpp:227` takes a notifier and a node.
- `README.md:186` says a repeated node identifier is overwritten. The dispatcher
  keeps its dead `weak_ptr`, so every task ends as an error at that node; the
  premise `"gone"` of `VerdictHasCause` is this case.
- `README.md:180` calls `maxProcessingSize` the number of tasks each node can
  process, the size of the node's queue. No node has a queue: the code counts the tasks of the
  whole pipeline (`pipeline.h:495`), and bounds those up to one more per client
  (`InFlightBound`, proved), since `submit` queues before it tests.
- `README.md:198` says that a circle of connections terminates the framework.
  `start()` succeeds, without any path (`pipeline.h:379`).

Worth knowing without contradicting a document:

- `TaskPriority` works backwards: within a type the least urgent task is served
  first (`scheduler.h:41`).
- A node callback that throws loses its task, and with it the reports of all
  later ones (`StopDrains`).
- A notifier built by the caller without a done callback ends the process at its
  first task (`SurvivorsAreBound`).
- A task of a flow that a first, failed `start()` left in the pool's queue and a
  second `start()` queues again is called once through both wrappers. If it
  throws, the inner `packaged_task` stores the exception in the future of the
  first `start()`, and the outer one ends normally: the second `start()` goes
  on to its successors (`task_flow_ctl.cpp:46`). With connections a→e, b→e,
  b→c, c→a and two starts, e is started although its predecessor a failed.
  `Passed` in `PredecessorsFirst` says what holds.
- Workers can deadlock on buffers; see
  [what the properties assume](#what-the-properties-assume).

## What is not modelled

- A second `start()` or `stop()`, and a task of an invalid type: their effect is
  the end of the process (`threadLoop.h:143`, an abort in `Scheduler`).
- Misuse that goes through a null pointer: a node built with a negative
  identifier (`pipeline.h:290`), a buffer declared for a node outside the path
  (`pipe_task.cpp:269`).
- A node that lists a scenario twice and is counted twice for it
  (`pipeline.h:396`).
- `minQueueSize` 0, with which every `popBuffer` fails; use of a manager or a
  buffer after the destructor; the owner test, which only logs;
  `releaseBufferManager`, which nothing calls.
- `addInput` and `addOutput` of `TFTask`: nothing calls them.
- A FINAL callback that returns false while there are several notifiers
  (`Pipeline` has it for one). `NotifierType` has no other types than FINAL and
  TASK_LISTEN besides its sentinels.
- `BlockingQueue`, which nothing uses, `LockFreeQueue` and the busy thread pool,
  which no build enables.
- Data races as such: a field read while another thread writes it is read as
  the old or the new value.
- Names, request payloads, logging, tracing, dumping, time.

## Plan

1. `Pipeline`, `TaskService` and their proofs – done.
2. `BufferManager` over `RingQueue`; `Dag` with `TaskFlow` and `PipelineConfig`
   – done.
3. `Scheduler` and `Notification`: types and priorities, none, one
   and several FINAL notifiers, listeners – done; the order of delivery proved.
4. `TaskBuffers`, and `BufferPool` implemented by `BufferManager` – done; the
   manager and the refinement proved.
5. Proofs: every safety property of every passing run – done, with the sorts
   of `Dag` for every graph and the paths of `PipelineConfig` as `Pipeline`
   assumes them.

Left:

6. An abstract specification of `TaskFlow` with a refinement mapping.
7. A sharper statement of which chains a scenario gets a path from, between
   `PathIsComplete`, which holds, and `ScenarioLinked`, which does not.
8. `LockFreeQueue` against an abstract queue; `BlockingQueue` against a bounded
   one: only worth it once a build uses them.

## Running it

    tlc -config MCPipeline.cfg MCPipeline
    tlapm PipelineProofs.tla

Any of the modules whose name ends in `Proofs`, and `PipelineSafety`, can be
given to `tlapm`; `NotificationProofs` takes about four minutes.

`PROJECT.json` lists the runs with their module and configuration, the source
lines each definition stands for, and for every property a *mutant*: a
definition changed the way a plausible bug would change it, under which TLC
finds the property violated. The mutated definitions stand beside the originals
with a comment `mutant:`.
