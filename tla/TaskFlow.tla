------------------------------- MODULE TaskFlow -------------------------------
(***************************************************************************)
(* TaskFlowCtl and its TaskThreadPool.  One thread adds tasks, connects    *)
(* them and calls start(), which sorts them into levels, queues a level    *)
(* for the pool, waits for the futures of the level and goes on to the     *)
(* next.  The pool's threads take the most urgent task and run it.         *)
(*                                                                         *)
(* emplaceTask wraps the task's function in a packaged_task and makes it   *)
(* the task's function, so start() called again wraps it once more.  The   *)
(* packaged_tasks of a task are its layers, outermost last.                *)
(***************************************************************************)
EXTENDS Dag

CONSTANTS
  Tasks,     \* tasks
  Workers,   \* threads of the pool
  Priority,  \* the priority of each task: URGENCY is the smallest number
  Results,   \* how a task's function may end: TRUE, or FALSE for an exception
  MaxStarts  \* bound: calls of start()

ASSUME FlowAssumption ==
  /\ IsFiniteSet(Tasks) /\ Workers # {}
  /\ Priority \in [Tasks -> Nat] /\ Results \subseteq BOOLEAN
  /\ MaxStarts \in Nat

VARIABLES
  added,     \* m_taskIdMap and m_nodeIdMap of the DAG
  edges,     \* m_outNodes of the tasks
  modified,  \* DAG::m_graphModified
  sorted,    \* history: the edges the last sort used
  order,     \* m_nodeOrderCache and m_taskOrder
  ctl,       \* where the controlling thread is
  starts,    \* calls of start() so far
  outcome,   \* how the last start() ended
  level,     \* index in order
  unplaced,  \* tasks of the level not yet queued
  futures,   \* futures of the level not yet got, by task
  layers,    \* per task: the state of its packaged_tasks
  queue,     \* m_tasks
  work,      \* per pool thread: where it is and its task
  poolStop,  \* isStop
  ran,       \* history: how often each task's own function was called
  awaits     \* history: what each task depended on when it was first queued

ctlVars  == <<ctl, starts, outcome, level, unplaced, futures>>
dagVars  == <<added, edges, modified, sorted, order>>
poolVars == <<queue, work, poolStop>>
histVars == <<ran, awaits>>
vars == <<dagVars, ctlVars, layers, poolVars, histVars>>

----------------------------------------------------------------------------
NoTask == "none"

Idle == [st |-> "idle", t |-> NoTask]

\* A packaged_task that is invoked twice throws in the pool's thread.
Crashed == \E w \in Workers : work[w].st = "crashed"

Init ==
  /\ added = {} /\ edges = {} /\ modified = FALSE /\ sorted = {} /\ order = <<>>
  /\ ctl = "idle" /\ starts = 0 /\ outcome = "none"
  /\ level = 0 /\ unplaced = {} /\ futures = <<>>
  /\ layers = [t \in Tasks |-> <<>>]
  /\ queue = <<>> /\ work = [w \in Workers |-> Idle] /\ poolStop = FALSE
  /\ ran = [t \in Tasks |-> 0] /\ awaits = [t \in Tasks |-> {}]

\* addTask or addTaskWithTaskInfo.
AddTask(t) ==
  /\ ctl = "idle" /\ t \notin added
  /\ added' = added \cup {t} /\ modified' = TRUE
  /\ UNCHANGED <<edges, sorted, order, ctlVars, layers, poolVars, histVars>>

\* mutant: tasks of another flow are connected
ConnectAny(s, t) ==
  /\ ctl = "idle" /\ s # t
  /\ edges' = edges \cup {<<s, t>>}
  /\ UNCHANGED <<added, modified, sorted, order, ctlVars, layers, poolVars, histVars>>

\* DAGNode::connect does not mark the graph as modified.
Connect(s, t) ==
  /\ ctl = "idle" /\ s # t /\ {s, t} \subseteq added
  /\ edges' = edges \cup {<<s, t>>}
  /\ UNCHANGED <<added, modified, sorted, order, ctlVars, layers, poolVars, histVars>>

----------------------------------------------------------------------------
(* start(). *)

\* The next level, or the end of start().
Enter(levels, i) ==
  IF i <= Len(levels)
  THEN /\ level' = i /\ unplaced' = levels[i] /\ ctl' = "place"
       /\ UNCHANGED outcome
  ELSE /\ level' = 0 /\ unplaced' = {} /\ ctl' = "idle"
       /\ outcome' = "returned"

\* reorganizeTaskOrder: topologicalSort returns its cache unless a node was
\* added since.
Start ==
  /\ ctl = "idle" /\ starts < MaxStarts /\ ~poolStop
  /\ starts' = starts + 1
  /\ IF modified
     THEN order' = TopologicalSort(edges) /\ sorted' = edges /\ modified' = FALSE
     ELSE UNCHANGED <<order, sorted, modified>>
  /\ Enter(order', 1)
  /\ UNCHANGED <<added, edges, futures, layers, poolVars, histVars>>

\* emplaceTask, for one task of the level.
Place(t) ==
  /\ ctl = "place" /\ t \in unplaced
  /\ layers' = [layers EXCEPT ![t] = Append(@, "pending")]
  /\ queue' = Append(queue, t)
  /\ futures' = Append(futures, t)
  /\ awaits' = IF layers[t] = <<>> THEN [awaits EXCEPT ![t] = Predecessors(sorted, t)] ELSE awaits
  /\ unplaced' = unplaced \ {t}
  /\ ctl' = IF unplaced = {t} THEN "get" ELSE "place"
  /\ UNCHANGED <<dagVars, starts, outcome, level, work, poolStop, ran>>

Outermost(t) == layers[t][Len(layers[t])]

\* mutant: start() does not wait for the result
AnyState(t) == TRUE

Settled(t) == Outermost(t) \in {"ok", "error"}

\* mutant: an exception is not passed on
NeverFailed(t) == FALSE

Failed(t) == Outermost(t) = "error"

\* future::get, for the first task of the level not yet waited for: its
\* exception, if there is one, leaves start(), whatever the others do.
Get ==
  /\ ctl = "get" /\ Settled(Head(futures))
  /\ IF Failed(Head(futures))
     THEN /\ ctl' = "idle" /\ outcome' = "threw"
          /\ futures' = <<>> /\ level' = 0 /\ unplaced' = {}
     ELSE /\ futures' = Tail(futures)
          /\ IF Len(futures) > 1 THEN UNCHANGED <<level, unplaced, ctl, outcome>>
             ELSE Enter(order, level + 1)
  /\ UNCHANGED <<dagVars, starts, layers, poolVars, histVars>>

\* ~TaskFlowCtl: the pool is stopped and its threads are joined.
Destroy ==
  /\ ctl = "idle" /\ ~poolStop
  /\ poolStop' = TRUE /\ ctl' = "join"
  /\ UNCHANGED <<dagVars, starts, outcome, level, unplaced, futures, layers, queue, work, histVars>>

Joined ==
  /\ ctl = "join" /\ \A w \in Workers : work[w].st = "exited"
  /\ ctl' = "destroyed"
  /\ UNCHANGED <<dagVars, starts, outcome, level, unplaced, futures, layers, poolVars, histVars>>

----------------------------------------------------------------------------
(* A thread of the pool. *)

MostUrgent(t) == \A i \in DOMAIN queue : Priority[t] <= Priority[queue[i]]

RemovedAt(i) == SubSeq(queue, 1, i - 1) \o SubSeq(queue, i + 1, Len(queue))

Take(w) ==
  /\ work[w].st = "idle"
  /\ \E i \in DOMAIN queue :
       /\ MostUrgent(queue[i])
       /\ work' = [work EXCEPT ![w] = [st |-> "call", t |-> queue[i]]]
       /\ queue' = RemovedAt(i)
  /\ UNCHANGED <<dagVars, ctlVars, layers, poolStop, histVars>>

InnerSettled(t) == Len(layers[t]) > 1 /\ layers[t][1] \in {"ok", "error"}

\* mutant: the next layer wraps the task's own function
OutermostPending(t) == Outermost(t) = "pending"

NothingCalled(t) == \A i \in DOMAIN layers[t] : layers[t][i] = "pending"

\* What a call leaves of layers on top of one that was invoked before: the
\* next keeps its future_error, and those above see a normal end.
CalledAgain(s) ==
  [i \in DOMAIN s |-> IF s[i] # "pending" THEN s[i]
                      ELSE IF i > 1 /\ s[i - 1] = "pending" THEN "ok" ELSE "error"]

\* The task's function is its outermost packaged_task when it is called.  One
\* that was invoked before throws future_error: in a layer below, into the
\* future of the layer above; in the outermost, through the thread.
Call(w) ==
  /\ work[w].st = "call"
  /\ LET t == work[w].t IN
       \/ /\ Settled(t)
          /\ work' = [work EXCEPT ![w].st = "crashed"]
          /\ UNCHANGED <<layers, ran>>
       \/ /\ Outermost(t) = "pending" /\ InnerSettled(t)
          /\ layers' = [layers EXCEPT ![t] = CalledAgain(@)]
          /\ work' = [work EXCEPT ![w] = Idle]
          /\ UNCHANGED ran
       \/ /\ NothingCalled(t)
          /\ layers' = [layers EXCEPT ![t] = [i \in DOMAIN @ |-> "running"]]
          /\ ran' = [ran EXCEPT ![t] = @ + 1]
          /\ work' = [work EXCEPT ![w].st = "run"]
  /\ UNCHANGED <<dagVars, ctlVars, queue, poolStop, awaits>>

\* The innermost packaged_task keeps the exception of the task's function.
Finish(w) ==
  /\ work[w].st = "run"
  /\ \E ok \in Results :
       layers' = [layers EXCEPT ![work[w].t] =
                    [i \in DOMAIN @ |-> IF @[i] # "running" THEN @[i]
                                        ELSE IF i = 1 /\ ~ok THEN "error" ELSE "ok"]]
  /\ work' = [work EXCEPT ![w] = Idle]
  /\ UNCHANGED <<dagVars, ctlVars, queue, poolStop, histVars>>

\* mutant: a stopped pool drops what is queued
ExitAtOnce == poolStop

\* mutant: the flag is not looked at
NeverExit == FALSE

MayExit == poolStop /\ queue = <<>>

Exit(w) ==
  /\ work[w].st = "idle" /\ MayExit
  /\ work' = [work EXCEPT ![w].st = "exited"]
  /\ UNCHANGED <<dagVars, ctlVars, layers, queue, poolStop, histVars>>

----------------------------------------------------------------------------
Controller ==
  \/ \E t \in Tasks : AddTask(t) \/ Place(t)
  \/ \E s, t \in Tasks : Connect(s, t)
  \/ Start \/ Get \/ Destroy \/ Joined

PoolThread(w) == Take(w) \/ Call(w) \/ Finish(w) \/ Exit(w)

\* An exception that leaves a pool thread ends the process.
Next == ~Crashed /\ (Controller \/ \E w \in Workers : PoolThread(w))

Spec == Init /\ [][Next]_vars

\* The pool's threads are scheduled, tasks end, and start() goes on when it
\* can; nobody is obliged to call it.
Fairness ==
  /\ \A w \in Workers : WF_vars(~Crashed /\ PoolThread(w))
  /\ WF_vars(~Crashed /\ ((\E t \in Tasks : Place(t)) \/ Get \/ Joined))

FairSpec == Spec /\ Fairness

----------------------------------------------------------------------------
(* Properties. *)

(* Levels, futures and the pool's queue hold tasks of this flow only.       *)
TypeOK ==
  /\ added \subseteq Tasks /\ edges \subseteq added \X added /\ sorted \subseteq edges
  /\ modified \in BOOLEAN /\ order \in Seq(SUBSET Tasks)
  /\ ctl \in {"idle", "place", "get", "join", "destroyed"}
  /\ starts \in 0 .. MaxStarts /\ outcome \in {"none", "returned", "threw"}
  /\ level \in 0 .. Len(order) /\ unplaced \subseteq added
  /\ futures \in Seq(added) /\ queue \in Seq(added)
  /\ layers \in [Tasks -> Seq({"pending", "running", "ok", "error"})]
  /\ work \in [Workers -> [st : {"idle", "call", "run", "exited", "crashed"},
                           t : added \cup {NoTask}]]
  /\ poolStop \in BOOLEAN /\ ran \in [Tasks -> Nat] /\ awaits \in [Tasks -> SUBSET added]

(* The levels are the reference layering of the tasks that were connected   *)
(* when the graph was sorted, and none if they depend on each other in a    *)
(* circle.                                                                  *)
OrderIsLayering == IF Cyclic(sorted) THEN order = <<>> ELSE IsLayering(sorted, order)

Starts(t) == ran'[t] # ran[t]

\* The task's own function has ended.
Done(t) == layers[t] # <<>> /\ layers[t][1] \in {"ok", "error"}

\* It ended without an exception, as far as start() can tell: the wrapper of a
\* task that was queued again takes the exception of the one inside for a
\* normal end, if both are invoked by the same call.
Passed(t) == Done(t) /\ (layers[t][1] = "ok" \/ Len(layers[t]) > 1)

(* A task is started only when the tasks it depended on when it was queued  *)
(* have ended, and without an exception if they were queued once, whatever  *)
(* the number of threads and however start() ended before.                  *)
PredecessorsFirst ==
  [][\A t \in Tasks : Starts(t) => \A s \in awaits[t] : Passed(s)]_vars

(* No task runs twice, although a task can be queued twice.                 *)
RunsOnce == \A t \in Tasks : ran[t] <= 1

Returned == ctl = "idle" /\ outcome = "returned"

(* When start() returns, the connected tasks have run, unless they form a   *)
(* circle.                                                                  *)
ReturnedMeansDone ==
  Returned /\ ~Cyclic(sorted) => \A t \in NodesOf(sorted) : Done(t)

(* When the destructor returns, every task that was ever queued has ended.  *)
DestroyedMeansDone == ctl = "destroyed" => \A t \in Tasks : layers[t] # <<>> => Done(t)

(* start() ends, and so does the destructor after it.                       *)
StartEnds == (ctl \in {"place", "get", "join"}) ~> (ctl \in {"idle", "destroyed"} \/ Crashed)
=============================================================================
