--------------------------- MODULE PipelineService ---------------------------
(* The pipeline as the service TaskService describes. *)
EXTENDS PipelineInv

ServiceState ==
  CASE ctl = "stopped" -> "closed"
    [] isStop /\ ctl # "stopped" -> "closing"
    [] ~isStop /\ ctl # "stopped" -> "open"

CompleteTasks == {t \in submitted : ran[t] = path[t]}

Service == INSTANCE TaskService
  WITH service <- ServiceState, accepted <- submitted, complete <- CompleteTasks,
       reported <- delivered

(* Seen from outside, dispatcher, pool, workers, notifier, start and stop   *)
(* are the service: whatever their interleaving, a task is accepted once,   *)
(* never touched after it was reported, and reported in order with a        *)
(* verdict that fits.                                                       *)
IsService == Service!Spec
=============================================================================
