---------------------------- MODULE PipelineInv ----------------------------
(***************************************************************************)
(* The inductive invariant of Pipeline.  The safety properties of Pipeline *)
(* are not inductive: whether a task has one owner depends on which tasks  *)
(* clients still hold, whether the count admits a task on who holds        *)
(* m_mutex, and what a task reports on what its nodes did before.          *)
(***************************************************************************)
EXTENDS Pipeline

(* What a client holds: a task of its own, not yet submitted while "built", *)
(* submitted and not yet counted inside submit().                           *)
ClientsHold ==
  /\ \A c \in Clients :
       /\ pc[c] = "idle" => cur[c] = NoTask
       /\ pc[c] # "idle" => cur[c] \in Tasks /\ cur[c] < nextId
       /\ pc[c] = "built" => cur[c] \notin submitted
       /\ pc[c] \notin {"idle", "built"} => cur[c] \in submitted \ counted
  /\ \A c, d \in Clients : cur[c] = cur[d] /\ cur[c] # NoTask => c = d
  /\ \A t \in submitted : t < nextId
  /\ counted \subseteq submitted
  /\ \A t \in submitted \ counted : \E c \in Clients : cur[c] = t

(* m_mutex is held by the client between the lock and the wait or return,   *)
(* and by stop() from its first line to its last.                           *)
MutexHeld ==
  /\ \A c \in Clients : pc[c] \in {"check", "block", "count"} <=> mutex = c
  /\ ctl \in {"nodes", "pool", "disp", "notif"} <=> mutex = "ctl"

(* What the dispatcher, the pool and its workers hold has a node to run.   *)
HandsHold ==
  /\ disp \in {"check", "emplace", "crashed"} =>
       dispTask \in Tasks /\ task[dispTask].todo # <<>>
  /\ \A i \in DOMAIN poolQ : task[poolQ[i]].todo # <<>>
  /\ \A w \in Workers :
       /\ work[w].st \in {"run", "queue", "listen"} => work[w].t \in Tasks
       /\ work[w].st = "run" => /\ task[work[w].t].todo # <<>>
                                /\ work[w].n = Head(task[work[w].t].todo)

(* Only submitted tasks are anywhere. *)
OwnedAreSubmitted ==
  \A t \in Tasks :
    InDispatcher(t) \/ InPool(t) \/ AtWork(t) \/ InNotifier(t) \/ Delivered(t) => t \in submitted

(* The notifier expects the task after the last delivered one. *)
Expecting == ctl # "stopped" => expect = Len(delivered) + 1

(* m_processingTaskCount is the tasks counted less the tasks delivered, and *)
(* wraps when a task is delivered before it is counted.                     *)
NC == Cardinality(counted)
ND == Len(delivered)

CountIs == count = IF ND <= NC THEN NC - ND ELSE W + NC - ND

CountBounds ==
  /\ NC <= MaxProcessing + ND
  /\ (\E c \in Clients : pc[c] = "count") => NC + 1 <= MaxProcessing + ND

(* The order of start() and stop(): each flag is set once the threads that  *)
(* feed the flag's owner are gone.                                          *)
StopOrder ==
  /\ ctl \in {"new", "built"} => disp = "off"
  /\ nodeStop # {} => isStop
  /\ isStop   <=> ctl \in {"nodes", "pool", "disp", "notif", "stopped"}
  /\ poolStop <=> ctl \in {"pool", "disp", "notif", "stopped"}
  /\ dispStop <=> ctl \in {"disp", "notif", "stopped"}
  /\ notStop  <=> ctl \in {"notif", "stopped"}
  /\ dispStop => WorkersJoined
  /\ notStop => disp \in {"off", "exited"}
  /\ ctl = "stopped" => notif = "exited"

(* A thread that has ended has left nothing in its queue; only a notifier   *)
(* whose callback failed does.                                              *)
ThreadsDone ==
  /\ (\E w \in Workers : work[w].st = "exited") => poolStop /\ poolQ = <<>>
  /\ disp = "exited" => dispStop /\ dispQ = {}
  /\ notif = "drainLast" => NotifyResults # {TRUE}
  /\ notif = "exited" /\ NotifyResults = {TRUE} => notStop /\ notQ = {}
  /\ notif \in {"wait", "exited"} => expect \notin pending

(* No submitted task disappears before stop() has ended. *)
NoLoss ==
  ctl # "stopped" =>
    \A t \in submitted :
      InDispatcher(t) \/ InPool(t) \/ AtWork(t) \/ InNotifier(t) \/ Delivered(t)

(* What the task records say: nodes done and nodes left make up the path    *)
(* until a node fails, and the notify status of a task being reported.      *)
Progress ==
  \A t \in Tasks :
    /\ task[t].status = "OK" => ran[t] \o task[t].todo = path[t]
    /\ task[t].status = "ERROR" => /\ task[t].todo = <<>>
                                   /\ Len(ran[t]) < Len(path[t])
    /\ task[t].note = "ERROR" => task[t].status = "ERROR" \/ isStop
    /\ t \notin submitted => task[t].status = "OK" /\ ran[t] = <<>>
    /\ InNotifier(t) /\ task[t].note = "OK" => task[t].status = "OK" /\ task[t].todo = <<>>

Reported ==
  \A t \in Tasks :
    /\ verdict[t] # "none" => t \in DeliveredSet
    /\ verdict[t] = "OK" => task[t].status = "OK" /\ task[t].todo = <<>>
    /\ verdict[t] = "ERROR" => task[t].status = "ERROR" \/ isStop
=============================================================================
