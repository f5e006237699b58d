----------------------------- MODULE TaskService -----------------------------
(***************************************************************************)
(* What a pipeline promises those who submit tasks, without threads,       *)
(* queues or nodes: a task is accepted once, becomes complete when its     *)
(* last node has succeeded, and is reported once, in the order of the      *)
(* identifiers, with a verdict that fits what happened to it.  Pipeline    *)
(* implements it (PipelineService).                                        *)
(***************************************************************************)
EXTENDS Naturals, Sequences

CONSTANT Tasks

VARIABLES
  service,   \* "open", "closing" (stop() was called) or "closed" (it returned)
  accepted,  \* tasks that were accepted
  complete,  \* accepted tasks that have been through all their nodes
  reported,  \* tasks that were reported, in order
  verdict    \* what was reported of each task

serviceVars == <<service, accepted, complete, reported, verdict>>

Init ==
  /\ service = "open" /\ accepted = {} /\ complete = {}
  /\ reported = <<>> /\ verdict = [t \in Tasks |-> "none"]

\* A task that has no node is complete at once.
Accept(t) ==
  /\ service = "open" /\ t \notin accepted
  /\ accepted' = accepted \cup {t}
  /\ complete' \in {complete, complete \cup {t}}
  /\ UNCHANGED <<service, reported, verdict>>

\* Nothing happens to a task that was reported.
Complete(t) ==
  /\ t \in accepted \ complete
  /\ \A i \in DOMAIN reported : reported[i] # t
  /\ complete' = complete \cup {t}
  /\ UNCHANGED <<service, accepted, reported, verdict>>

\* OK is the verdict of complete tasks only, and the only one they get while
\* the service is open.
Report(t, v) ==
  /\ service # "closed"
  /\ t \in accepted /\ t = Len(reported) + 1
  /\ v = "OK" => t \in complete
  /\ v = "ERROR" => t \notin complete \/ service = "closing"
  /\ reported' = Append(reported, t)
  /\ verdict' = [verdict EXCEPT ![t] = v]
  /\ UNCHANGED <<service, accepted, complete>>

Close ==
  /\ \/ service = "open" /\ service' = "closing"
     \/ service = "closing" /\ service' = "closed"
  /\ UNCHANGED <<accepted, complete, reported, verdict>>

Next ==
  \/ \E t \in Tasks : Accept(t) \/ Complete(t) \/ (\E v \in {"OK", "ERROR"} : Report(t, v))
  \/ Close

Spec == Init /\ [][Next]_serviceVars
=============================================================================
