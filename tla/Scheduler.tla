----------------------------- MODULE Scheduler -----------------------------
(***************************************************************************)
(* Scheduler: the queue inside a ThreadLoop.  It keeps one priority queue  *)
(* per task type and serves the first type that has items.  Here a queue   *)
(* is the set of the items in it; type and prio are functions from items   *)
(* to the numbers of the enumerations TaskType and TaskPriority.           *)
(***************************************************************************)
EXTENDS Integers

\* TaskType between START and END: RT = 1, NORMAL = 2, IDEL = 3.
TaskTypes == 1 .. 3

\* TaskPriority between START and END: URGENCY = 1, NORMAL = 2, IDEL = 3.
TaskPriorities == 1 .. 3

\* emplace, for an item whose type is one of these; any other type ends the
\* process with std::abort.
Emplaced(queue, i) == queue \cup {i}

\* All queues of m_taskTypeQueueMap are empty.
NothingQueued(queue) == queue = {}

\* The first queue of m_taskTypeQueueMap that is not empty.
FirstNonEmpty(queue, type) == {i \in queue : \A j \in queue : type[i] <= type[j]}

\* ItemPriorityComp orders by <, so top() is an item of the largest number:
\* the least urgent one.  Items that compare equal come in any order.
Top(queue, prio) == {i \in queue : \A j \in queue : prio[j] <= prio[i]}

\* The items schedule() may return.
Schedulable(queue, type, prio) == Top(FirstNonEmpty(queue, type), prio)
=============================================================================
