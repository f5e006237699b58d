--------------------------- MODULE PipelineProofs ---------------------------
(* Proofs about Pipeline: its inductive invariant and what follows from it. *)
EXTENDS PipelineInv, TLAPS

(* Writing one field of a task record keeps it a task record. *)
LEMMA NoteType ==
  ASSUME task \in [Tasks -> TaskRecord], NEW t \in Tasks, NEW s \in {"OK", "ERROR"}
  PROVE  [task EXCEPT ![t].note = s] \in [Tasks -> TaskRecord]
  BY DEF TaskRecord

(* Writing the notify status of a task changes nothing else of any task.   *)
LEMMA NoteKeeps ==
  ASSUME task \in [Tasks -> TaskRecord], NEW t, NEW s, task' = [task EXCEPT ![t].note = s],
         NEW u \in Tasks
  PROVE  /\ task'[u].todo = task[u].todo /\ task'[u].status = task[u].status
         /\ task'[u].note = IF u = t THEN s ELSE task[u].note
<1>1. CASE u = t
  <2>1. task'[u] = [task[u] EXCEPT !.note = s] /\ task[u] \in TaskRecord
    BY <1>1
  <2> QED BY <1>1, <2>1 DEF TaskRecord
<1>2. CASE u # t
  <2>1. task'[u] = task[u]
    BY <1>2
  <2> QED BY <1>2, <2>1
<1> QED BY <1>1, <1>2

(* So does giving a task its path.                                          *)
LEMMA TodoType ==
  ASSUME task \in [Tasks -> TaskRecord], NEW t \in Tasks, NEW p \in Seq(Nodes)
  PROVE  [task EXCEPT ![t].todo = p] \in [Tasks -> TaskRecord]
  BY DEF TaskRecord

(* markError and markCurrentNodeReady keep the record of a task that has a  *)
(* node to run a task record.                                               *)
LEMMA MarkType ==
  ASSUME NEW r \in TaskRecord
  PROVE  /\ MarkError(r) \in TaskRecord
         /\ r.todo # <<>> => MarkCurrentNodeReady(r) \in TaskRecord
<1>1. MarkError(r) \in TaskRecord
  <2>1. <<>> \in Seq(Nodes)
    OBVIOUS
  <2> QED
    BY <2>1 DEF TaskRecord, MarkError
<1>2. ASSUME r.todo # <<>> PROVE MarkCurrentNodeReady(r) \in TaskRecord
  <2>1. r.todo \in Seq(Nodes) /\ r = [todo |-> r.todo, status |-> r.status, note |-> r.note]
    BY DEF TaskRecord
  <2>2. Tail(r.todo) \in Seq(Nodes)
    BY <1>2, <2>1
  <2>3. MarkCurrentNodeReady(r) = [r EXCEPT !.todo = Tail(r.todo)]
    BY <2>1 DEF MarkCurrentNodeReady, TaskRecord
  <2> QED
    BY <2>2, <2>3 DEF TaskRecord
<1> QED BY <1>1, <1>2

(* Every step keeps the types. *)
LEMMA TypeStep == ASSUME TypeOK, ClientsHold, HandsHold, Next PROVE TypeOK'
<1> USE DEF TypeOK
<1>1. ASSUME NEW c \in Clients, NewTask(c) PROVE TypeOK'
  <2>1. ClientTypes'
    BY <1>1, SizesAssumption DEF NewTask, ClientTypes, cliVars, Tasks, NoTask
  <2>2. UNCHANGED <<ctlVars, task, dispVars, poolVars, notVars, subVars, ran, endVars>>
    BY <1>1 DEF NewTask
  <2> QED BY <2>1, <2>2 DEF CtlTypes, ClientTypes, DispTypes, PoolTypes, NotTypes, HistoryTypes, ctlVars, cliVars, dispVars, poolVars, notVars, subVars, endVars
<1>2. ASSUME NEW c \in Clients, SubmitRefused(c) PROVE TypeOK'
  <2>1. ClientTypes'
    BY <1>2 DEF SubmitRefused, ClientTypes, cliVars, Tasks, NoTask
  <2>2. UNCHANGED <<ctlVars, task, dispVars, poolVars, notVars, subVars, ran, endVars>>
    BY <1>2 DEF SubmitRefused
  <2> QED BY <2>1, <2>2 DEF CtlTypes, ClientTypes, DispTypes, PoolTypes, NotTypes, HistoryTypes, ctlVars, cliVars, dispVars, poolVars, notVars, subVars, endVars
<1>3. ASSUME NEW c \in Clients, SubmitQueue(c) PROVE TypeOK'
  <2>1. CtlTypes'
    BY <1>3 DEF SubmitQueue, CtlTypes, AcquireBy, ctlVars
  <2>2. ClientTypes'
    BY <1>3 DEF SubmitQueue, ClientTypes, cliVars, Tasks, NoTask
  <2>3. (task \in [Tasks -> TaskRecord])'
    <3>1. cur[c] \in Tasks
      BY <1>3 DEF SubmitQueue, ClientsHold
    <3>2. PICK p \in PathsNow : task' = [task EXCEPT ![cur[c]].todo = p]
      BY <1>3 DEF SubmitQueue
    <3>3. p \in Seq(Nodes)
      <4>1. <<>> \in Seq(Nodes)
        OBVIOUS
      <4> QED
        BY <3>2, <4>1, PathsAssumption DEF PathsNow
    <3> QED
      BY <3>1, <3>2, <3>3, TodoType
  <2>4. DispTypes'
    BY <1>3 DEF SubmitQueue, DispTypes, QueueInDispatcher, ClientsHold, dispVars
  <2>5. HistoryTypes'
    <3>1. cur[c] \in Tasks
      BY <1>3 DEF SubmitQueue, ClientsHold
    <3>2. PICK p \in PathsNow : path' = [path EXCEPT ![cur[c]] = p]
      BY <1>3 DEF SubmitQueue
    <3>3. p \in Seq(Nodes)
      <4>1. <<>> \in Seq(Nodes)
        OBVIOUS
      <4> QED
        BY <3>2, <4>1, PathsAssumption DEF PathsNow
    <3> QED
      BY <1>3, <3>1, <3>2, <3>3 DEF SubmitQueue, HistoryTypes, endVars
  <2>6. UNCHANGED <<poolVars, notVars>>
    BY <1>3 DEF SubmitQueue
  <2> QED BY <2>1, <2>2, <2>3, <2>4, <2>5, <2>6 DEF CtlTypes, ClientTypes, DispTypes, PoolTypes, NotTypes, HistoryTypes, ctlVars, cliVars, dispVars, poolVars, notVars, subVars, endVars
<1>4. ASSUME NEW c \in Clients, SubmitCheck(c) PROVE TypeOK'
  <2>1. ClientTypes'
    BY <1>4 DEF SubmitCheck, ClientTypes, cliVars, Tasks, NoTask
  <2>2. UNCHANGED <<ctlVars, task, dispVars, poolVars, notVars, subVars, ran, endVars>>
    BY <1>4 DEF SubmitCheck
  <2> QED BY <2>1, <2>2 DEF CtlTypes, ClientTypes, DispTypes, PoolTypes, NotTypes, HistoryTypes, ctlVars, cliVars, dispVars, poolVars, notVars, subVars, endVars
<1>5. ASSUME NEW c \in Clients, SubmitBlock(c) PROVE TypeOK'
  <2>1. CtlTypes'
    BY <1>5 DEF SubmitBlock, CtlTypes, ctlVars
  <2>2. ClientTypes'
    BY <1>5 DEF SubmitBlock, ClientTypes, cliVars, Tasks, NoTask
  <2>3. UNCHANGED <<task, dispVars, poolVars, notVars, subVars, ran, endVars>>
    BY <1>5 DEF SubmitBlock
  <2> QED BY <2>1, <2>2, <2>3 DEF CtlTypes, ClientTypes, DispTypes, PoolTypes, NotTypes, HistoryTypes, ctlVars, cliVars, dispVars, poolVars, notVars, subVars, endVars
<1>6. ASSUME NEW c \in Clients, SpuriousWake(c) PROVE TypeOK'
  <2>1. ClientTypes'
    BY <1>6 DEF SpuriousWake, ClientTypes, cliVars, Tasks, NoTask
  <2>2. UNCHANGED <<ctlVars, task, dispVars, poolVars, notVars, subVars, ran, endVars>>
    BY <1>6 DEF SpuriousWake
  <2> QED BY <2>1, <2>2 DEF CtlTypes, ClientTypes, DispTypes, PoolTypes, NotTypes, HistoryTypes, ctlVars, cliVars, dispVars, poolVars, notVars, subVars, endVars
<1>7. ASSUME NEW c \in Clients, SubmitRelock(c) PROVE TypeOK'
  <2>1. CtlTypes'
    BY <1>7 DEF SubmitRelock, CtlTypes, AcquireBy, ctlVars
  <2>2. ClientTypes'
    BY <1>7 DEF SubmitRelock, ClientTypes, cliVars, Tasks, NoTask
  <2>3. UNCHANGED <<task, dispVars, poolVars, notVars, subVars, ran, endVars>>
    BY <1>7 DEF SubmitRelock
  <2> QED BY <2>1, <2>2, <2>3 DEF CtlTypes, ClientTypes, DispTypes, PoolTypes, NotTypes, HistoryTypes, ctlVars, cliVars, dispVars, poolVars, notVars, subVars, endVars
<1>8. ASSUME NEW c \in Clients, SubmitCount(c) PROVE TypeOK'
  <2>1. CtlTypes'
    BY <1>8 DEF SubmitCount, CtlTypes, ctlVars
  <2>2. ClientTypes'
    BY <1>8, SizesAssumption DEF SubmitCount, ClientTypes, Incremented, cliVars, Tasks, NoTask
  <2>3. HistoryTypes'
    BY <1>8 DEF SubmitCount, HistoryTypes, ClientsHold, subVars, endVars
  <2>4. UNCHANGED <<task, dispVars, poolVars, notVars>>
    BY <1>8 DEF SubmitCount
  <2> QED BY <2>1, <2>2, <2>3, <2>4 DEF CtlTypes, ClientTypes, DispTypes, PoolTypes, NotTypes, HistoryTypes, ctlVars, cliVars, dispVars, poolVars, notVars, subVars, endVars
<1>9. ASSUME DispTake PROVE TypeOK'
  <2>1. (task \in [Tasks -> TaskRecord])'
    <3>1. PICK t \in dispQ : task' = task \/ NotifyFinal(t, FinalVerdict(t))
      BY <1>9 DEF DispTake
    <3> QED
      BY <3>1, NoteType DEF NotifyFinal, FinalVerdict, DispTypes
  <2>2. DispTypes'
    BY <1>9 DEF DispTake, DispTypes, NoTask, dispVars
  <2>3. NotTypes'
    BY <1>9 DEF DispTake, NotTypes, NotifyFinal, DispTypes, notVars
  <2>4. UNCHANGED <<ctlVars, cliVars, poolVars, subVars, ran, endVars>>
    BY <1>9 DEF DispTake
  <2> QED BY <2>1, <2>2, <2>3, <2>4 DEF CtlTypes, ClientTypes, DispTypes, PoolTypes, NotTypes, HistoryTypes, ctlVars, cliVars, dispVars, poolVars, notVars, subVars, endVars
<1>10. ASSUME DispCheck PROVE TypeOK'
  <2>1. (task \in [Tasks -> TaskRecord])'
    BY <1>10, NoteType DEF DispCheck, NotifyFinal, HandsHold
  <2>2. DispTypes'
    BY <1>10 DEF DispCheck, DispTypes, NoTask, dispVars
  <2>3. NotTypes'
    BY <1>10 DEF DispCheck, NotTypes, NotifyFinal, HandsHold, notVars
  <2>4. UNCHANGED <<ctlVars, cliVars, poolVars, subVars, ran, endVars>>
    BY <1>10 DEF DispCheck
  <2> QED BY <2>1, <2>2, <2>3, <2>4 DEF CtlTypes, ClientTypes, DispTypes, PoolTypes, NotTypes, HistoryTypes, ctlVars, cliVars, dispVars, poolVars, notVars, subVars, endVars
<1>11. ASSUME DispEmplace PROVE TypeOK'
  <2>1. DispTypes'
    BY <1>11 DEF DispEmplace, DispTypes, NoTask, dispVars
  <2>2. PoolTypes'
    <3>1. dispTask \in Tasks
      BY <1>11 DEF DispEmplace, HandsHold
    <3> QED
      <4>1. Append(poolQ, dispTask) \in Seq(Tasks)
        BY <3>1 DEF PoolTypes
      <4> QED
        BY <1>11, <4>1 DEF DispEmplace, PoolTypes
  <2>3. UNCHANGED <<ctlVars, cliVars, task, notVars, subVars, ran, endVars>>
    BY <1>11 DEF DispEmplace
  <2> QED BY <2>1, <2>2, <2>3 DEF CtlTypes, ClientTypes, DispTypes, PoolTypes, NotTypes, HistoryTypes, ctlVars, cliVars, dispVars, poolVars, notVars, subVars, endVars
<1>12. ASSUME DispExit PROVE TypeOK'
  <2>1. DispTypes'
    BY <1>12 DEF DispExit, DispTypes, NoTask, dispVars
  <2>2. UNCHANGED <<ctlVars, cliVars, task, poolVars, notVars, subVars, ran, endVars>>
    BY <1>12 DEF DispExit
  <2> QED BY <2>1, <2>2 DEF CtlTypes, ClientTypes, DispTypes, PoolTypes, NotTypes, HistoryTypes, ctlVars, cliVars, dispVars, poolVars, notVars, subVars, endVars
<1>13. ASSUME NEW w \in Workers, WorkTake(w) PROVE TypeOK'
  <2>1. PoolTypes'
    <3>1. Head(poolQ) \in Tasks /\ poolQ' \in Seq(Tasks)
      BY <1>13 DEF WorkTake, FrontPopped, PoolTypes
    <3>2. task[Head(poolQ)].todo \in Seq(Nodes) /\ task[Head(poolQ)].todo # <<>>
      BY <1>13, <3>1 DEF WorkTake, PoolTypes, HandsHold, TaskRecord
    <3>3. Head(task[Head(poolQ)].todo) \in Nodes
      BY <3>2
    <3> QED
      BY <1>13, <3>1, <3>3 DEF WorkTake, PoolTypes, WorkRecord
  <2>2. UNCHANGED <<ctlVars, cliVars, task, dispVars, notVars, subVars, ran, endVars>>
    BY <1>13 DEF WorkTake
  <2> QED BY <2>1, <2>2 DEF CtlTypes, ClientTypes, DispTypes, PoolTypes, NotTypes, HistoryTypes, ctlVars, cliVars, dispVars, poolVars, notVars, subVars, endVars
<1>14. ASSUME NEW w \in Workers, WorkExit(w) PROVE TypeOK'
  <2>1. PoolTypes'
    BY <1>14 DEF WorkExit, PoolTypes, WorkRecord, NoTask, NoNode, poolVars
  <2>2. UNCHANGED <<ctlVars, cliVars, task, dispVars, notVars, subVars, ran, endVars>>
    BY <1>14 DEF WorkExit
  <2> QED BY <2>1, <2>2 DEF CtlTypes, ClientTypes, DispTypes, PoolTypes, NotTypes, HistoryTypes, ctlVars, cliVars, dispVars, poolVars, notVars, subVars, endVars
<1>15. ASSUME NEW w \in Workers, WorkRun(w) PROVE TypeOK'
  <2>1. (task \in [Tasks -> TaskRecord])'
    <3>1. work[w].t \in Tasks /\ task[work[w].t].todo # <<>> /\ task[work[w].t] \in TaskRecord
      BY <1>15 DEF WorkRun, HandsHold
    <3>2. /\ MarkError(task[work[w].t]) \in TaskRecord
          /\ MarkCurrentNodeReady(task[work[w].t]) \in TaskRecord
      BY <3>1, MarkType
    <3> QED
      BY <1>15, <3>1, <3>2 DEF WorkRun
  <2>2. PoolTypes'
    BY <1>15 DEF WorkRun, PoolTypes, WorkRecord, NoTask, NoNode, poolVars
  <2>3. HistoryTypes'
    <3>1. work[w].t \in Tasks /\ task[work[w].t].todo # <<>> /\ task[work[w].t] \in TaskRecord
      BY <1>15 DEF WorkRun, HandsHold
    <3>2. work[w].n \in Nodes
      BY <1>15, <3>1 DEF WorkRun, HandsHold, TaskRecord
    <3>3. Append(ran[work[w].t], work[w].n) \in Seq(Nodes)
      BY <3>1, <3>2 DEF HistoryTypes
    <3> QED
      BY <1>15, <3>1, <3>3 DEF WorkRun, HistoryTypes, subVars, endVars
  <2>4. UNCHANGED <<ctlVars, cliVars, dispVars, notVars>>
    BY <1>15 DEF WorkRun
  <2> QED BY <2>1, <2>2, <2>3, <2>4 DEF CtlTypes, ClientTypes, DispTypes, PoolTypes, NotTypes, HistoryTypes, ctlVars, cliVars, dispVars, poolVars, notVars, subVars, endVars
<1>16. ASSUME NEW w \in Workers, WorkQueue(w) PROVE TypeOK'
  <2>1. DispTypes'
    BY <1>16 DEF WorkQueue, DispTypes, QueueInDispatcher, HandsHold, NoTask, dispVars
  <2>2. PoolTypes'
    BY <1>16 DEF WorkQueue, PoolTypes, WorkRecord, NoTask, NoNode, poolVars
  <2>3. UNCHANGED <<ctlVars, cliVars, task, notVars, subVars, ran, endVars>>
    BY <1>16 DEF WorkQueue
  <2> QED BY <2>1, <2>2, <2>3 DEF CtlTypes, ClientTypes, DispTypes, PoolTypes, NotTypes, HistoryTypes, ctlVars, cliVars, dispVars, poolVars, notVars, subVars, endVars
<1>17. ASSUME NEW w \in Workers, WorkListen(w) PROVE TypeOK'
  <2>1. (task \in [Tasks -> TaskRecord])'
    <3>1. work[w].t \in Tasks
      BY <1>17 DEF WorkListen, HandsHold
    <3> QED
      BY <1>17, <3>1, NoteType DEF WorkListen
  <2>2. PoolTypes'
    BY <1>17 DEF WorkListen, PoolTypes, WorkRecord, NoWork, poolVars
  <2>3. UNCHANGED <<ctlVars, cliVars, dispVars, notVars, subVars, ran, endVars>>
    BY <1>17 DEF WorkListen
  <2> QED BY <2>1, <2>2, <2>3 DEF CtlTypes, ClientTypes, DispTypes, PoolTypes, NotTypes, HistoryTypes, ctlVars, cliVars, dispVars, poolVars, notVars, subVars, endVars
<1>18. ASSUME NotTake PROVE TypeOK'
  <2>1. ClientTypes'
    <3>1. /\ UNCHANGED <<cur, nextId>> /\ count' \in {count, Decremented}
          /\ pc' = pc \/ \E c \in Clients : pc' = [pc EXCEPT ![c] = "woken"]
      BY <1>18 DEF NotTake, Deliver, NotifyOne, Blocked
    <3> QED
      BY <3>1, SizesAssumption DEF ClientTypes, Decremented
  <2>2. NotTypes'
    <3>1. PICK t \in notQ : /\ notQ' = notQ \ {t}
                            /\ \/ Deliver(t) /\ notif' \in {"drain", "drainLast"} /\ pending' = pending
                               \/ pending' = pending \cup {t} /\ UNCHANGED <<notif, expect>>
      BY <1>18 DEF NotTake
    <3> QED
      <4>1. t \in Tasks /\ t + 1 \in 1 .. MaxTask + 1
        BY SizesAssumption DEF NotTypes, Tasks
      <4>2. expect' \in 1 .. MaxTask + 1
        BY <3>1, <4>1 DEF Deliver, NotTypes
      <4> QED
        BY <1>18, <3>1, <4>1, <4>2 DEF NotTake, NotTypes
  <2>3. HistoryTypes'
    <3>1. PICK t \in notQ : Deliver(t) \/ UNCHANGED endVars
      BY <1>18 DEF NotTake
    <3>2. t \in Tasks /\ task[t].note \in {"OK", "ERROR"}
      BY <3>1 DEF NotTypes, TaskRecord
    <3> QED
      <4>1. Append(delivered, t) \in Seq(Tasks)
        BY <3>2 DEF HistoryTypes
      <4>2. delivered' \in Seq(Tasks) /\ verdict' \in [Tasks -> {"none", "OK", "ERROR"}]
        BY <3>1, <3>2, <4>1 DEF HistoryTypes, Deliver, endVars
      <4> QED
        BY <1>18, <4>2 DEF NotTake, HistoryTypes, subVars
  <2>4. UNCHANGED <<ctlVars, task, dispVars, poolVars>>
    BY <1>18 DEF NotTake
  <2> QED BY <2>1, <2>2, <2>3, <2>4 DEF CtlTypes, ClientTypes, DispTypes, PoolTypes, NotTypes, HistoryTypes, ctlVars, cliVars, dispVars, poolVars, notVars, subVars, endVars
<1>19. ASSUME NotDrain PROVE TypeOK'
  <2>1. ClientTypes'
    <3>1. /\ UNCHANGED <<cur, nextId>> /\ count' \in {count, Decremented}
          /\ pc' = pc \/ \E c \in Clients : pc' = [pc EXCEPT ![c] = "woken"]
      BY <1>19 DEF NotDrain, Deliver, NotifyOne, Blocked
    <3> QED
      BY <3>1, SizesAssumption DEF ClientTypes, Decremented
  <2>2. NotTypes'
    BY <1>19, SizesAssumption DEF NotDrain, NotTypes, Deliver, notVars, Tasks
  <2>3. HistoryTypes'
    BY <1>19 DEF NotDrain, HistoryTypes, Deliver, NotTypes, TaskRecord, subVars, endVars
  <2>4. UNCHANGED <<ctlVars, task, dispVars, poolVars>>
    BY <1>19 DEF NotDrain
  <2> QED BY <2>1, <2>2, <2>3, <2>4 DEF CtlTypes, ClientTypes, DispTypes, PoolTypes, NotTypes, HistoryTypes, ctlVars, cliVars, dispVars, poolVars, notVars, subVars, endVars
<1>20. ASSUME NotDrained PROVE TypeOK'
  <2>1. NotTypes'
    BY <1>20 DEF NotDrained, NotTypes, notVars
  <2>2. UNCHANGED <<ctlVars, cliVars, task, dispVars, poolVars, subVars, ran, endVars>>
    BY <1>20 DEF NotDrained
  <2> QED BY <2>1, <2>2 DEF CtlTypes, ClientTypes, DispTypes, PoolTypes, NotTypes, HistoryTypes, ctlVars, cliVars, dispVars, poolVars, notVars, subVars, endVars
<1>21. ASSUME NotExit PROVE TypeOK'
  <2>1. NotTypes'
    BY <1>21 DEF NotExit, NotTypes, notVars
  <2>2. UNCHANGED <<ctlVars, cliVars, task, dispVars, poolVars, subVars, ran, endVars>>
    BY <1>21 DEF NotExit
  <2> QED BY <2>1, <2>2 DEF CtlTypes, ClientTypes, DispTypes, PoolTypes, NotTypes, HistoryTypes, ctlVars, cliVars, dispVars, poolVars, notVars, subVars, endVars
<1>22. ASSUME StartBuild PROVE TypeOK'
  <2>1. CtlTypes'
    BY <1>22 DEF StartBuild, CtlTypes, ctlVars
  <2>2. UNCHANGED <<cliVars, task, dispVars, poolVars, notVars, subVars, ran, endVars>>
    BY <1>22 DEF StartBuild
  <2> QED BY <2>1, <2>2 DEF CtlTypes, ClientTypes, DispTypes, PoolTypes, NotTypes, HistoryTypes, ctlVars, cliVars, dispVars, poolVars, notVars, subVars, endVars
<1>23. ASSUME StartThread PROVE TypeOK'
  <2>1. CtlTypes'
    BY <1>23 DEF StartThread, CtlTypes, ctlVars
  <2>2. DispTypes'
    BY <1>23 DEF StartThread, DispTypes, NoTask, dispVars
  <2>3. UNCHANGED <<cliVars, task, poolVars, notVars, subVars, ran, endVars>>
    BY <1>23 DEF StartThread
  <2> QED BY <2>1, <2>2, <2>3 DEF CtlTypes, ClientTypes, DispTypes, PoolTypes, NotTypes, HistoryTypes, ctlVars, cliVars, dispVars, poolVars, notVars, subVars, endVars
<1>24. ASSUME StopBegin PROVE TypeOK'
  <2>1. CtlTypes'
    BY <1>24 DEF StopBegin, CtlTypes, AcquireBy, ctlVars
  <2>2. UNCHANGED <<cliVars, task, dispVars, poolVars, notVars, subVars, ran, endVars>>
    BY <1>24 DEF StopBegin
  <2> QED BY <2>1, <2>2 DEF CtlTypes, ClientTypes, DispTypes, PoolTypes, NotTypes, HistoryTypes, ctlVars, cliVars, dispVars, poolVars, notVars, subVars, endVars
<1>25. ASSUME NEW n \in Nodes, StopNode(n) PROVE TypeOK'
  <2>1. CtlTypes'
    BY <1>25 DEF StopNode, CtlTypes, ctlVars
  <2>2. UNCHANGED <<cliVars, task, dispVars, poolVars, notVars, subVars, ran, endVars>>
    BY <1>25 DEF StopNode
  <2> QED BY <2>1, <2>2 DEF CtlTypes, ClientTypes, DispTypes, PoolTypes, NotTypes, HistoryTypes, ctlVars, cliVars, dispVars, poolVars, notVars, subVars, endVars
<1>26. ASSUME StopPool PROVE TypeOK'
  <2>1. CtlTypes'
    BY <1>26 DEF StopPool, CtlTypes, ctlVars
  <2>2. PoolTypes'
    BY <1>26 DEF StopPool, PoolTypes, poolVars
  <2>3. UNCHANGED <<cliVars, task, dispVars, notVars, subVars, ran, endVars>>
    BY <1>26 DEF StopPool
  <2> QED BY <2>1, <2>2, <2>3 DEF CtlTypes, ClientTypes, DispTypes, PoolTypes, NotTypes, HistoryTypes, ctlVars, cliVars, dispVars, poolVars, notVars, subVars, endVars
<1>27. ASSUME StopDisp PROVE TypeOK'
  <2>1. CtlTypes'
    BY <1>27 DEF StopDisp, CtlTypes, ctlVars
  <2>2. DispTypes'
    BY <1>27 DEF StopDisp, DispTypes, NoTask, dispVars
  <2>3. UNCHANGED <<cliVars, task, poolVars, notVars, subVars, ran, endVars>>
    BY <1>27 DEF StopDisp
  <2> QED BY <2>1, <2>2, <2>3 DEF CtlTypes, ClientTypes, DispTypes, PoolTypes, NotTypes, HistoryTypes, ctlVars, cliVars, dispVars, poolVars, notVars, subVars, endVars
<1>28. ASSUME StopNotif PROVE TypeOK'
  <2>1. CtlTypes'
    BY <1>28 DEF StopNotif, CtlTypes, ctlVars
  <2>2. NotTypes'
    BY <1>28 DEF StopNotif, NotTypes, notVars
  <2>3. UNCHANGED <<cliVars, task, dispVars, poolVars, subVars, ran, endVars>>
    BY <1>28 DEF StopNotif
  <2> QED BY <2>1, <2>2, <2>3 DEF CtlTypes, ClientTypes, DispTypes, PoolTypes, NotTypes, HistoryTypes, ctlVars, cliVars, dispVars, poolVars, notVars, subVars, endVars
<1>29. ASSUME StopEnd PROVE TypeOK'
  <2>1. CtlTypes'
    BY <1>29 DEF StopEnd, CtlTypes, ctlVars
  <2>2. NotTypes'
    BY <1>29, SizesAssumption DEF StopEnd, NotTypes, notVars
  <2>3. UNCHANGED <<cliVars, task, dispVars, poolVars, subVars, ran, endVars>>
    BY <1>29 DEF StopEnd
  <2> QED BY <2>1, <2>2, <2>3 DEF CtlTypes, ClientTypes, DispTypes, PoolTypes, NotTypes, HistoryTypes, ctlVars, cliVars, dispVars, poolVars, notVars, subVars, endVars
<1> QED BY <1>1, <1>2, <1>3, <1>4, <1>5, <1>6, <1>7, <1>8, <1>9, <1>10, <1>11, <1>12, <1>13, <1>14, <1>15, <1>16, <1>17, <1>18, <1>19, <1>20, <1>21, <1>22, <1>23, <1>24, <1>25, <1>26, <1>27, <1>28, <1>29 DEF Next, Client, Dispatcher, Worker, NotifierLoop, Controller, Stopping

----------------------------------------------------------------------------
(* What the steps of a thread leave alone. *)

(* Only clients and the notifier's deliveries touch what clients hold. *)
LEMMA QuietForClients ==
  ASSUME Dispatcher \/ (\E w \in Workers : Worker(w)) \/ Controller \/ NotDrained \/ NotExit
  PROVE  UNCHANGED <<cliVars, subVars>>
<1>1. ASSUME Dispatcher PROVE UNCHANGED <<cliVars, subVars>>
  BY <1>1 DEF Dispatcher, DispTake, DispCheck, DispEmplace, DispExit
<1>2. ASSUME NEW w \in Workers, Worker(w) PROVE UNCHANGED <<cliVars, subVars>>
  BY <1>2 DEF Worker, WorkTake, WorkExit, WorkRun, WorkQueue, WorkListen
<1>3. ASSUME Controller PROVE UNCHANGED <<cliVars, subVars>>
  BY <1>3 DEF Controller, Stopping, StartBuild, StartThread, StopBegin, StopNode, StopPool,
              StopDisp, StopNotif, StopEnd
<1>4. ASSUME NotDrained \/ NotExit PROVE UNCHANGED <<cliVars, subVars>>
  BY <1>4 DEF NotDrained, NotExit
<1> QED BY <1>1, <1>2, <1>3, <1>4

(* Clients touch no thread's state but the dispatcher's queue, which, like  *)
(* the task, only SubmitQueue changes.                                      *)
LEMMA QuietClients ==
  ASSUME NEW c \in Clients, Client(c)
  PROVE  /\ UNCHANGED <<ctl, isStop, nodeStop, disp, dispTask, dispStop, poolVars, notVars, ran, endVars>>
         /\ SubmitQueue(c) \/ UNCHANGED <<dispQ, task, path, submitted>>
  BY DEF Client, NewTask, SubmitRefused, SubmitQueue, SubmitCheck, SubmitBlock, SpuriousWake,
         SubmitRelock, SubmitCount, ctlVars, dispVars, subVars

(* Starting and stopping moves no task. *)
LEMMA QuietController ==
  ASSUME Controller
  PROVE  UNCHANGED <<task, dispQ, dispTask, poolQ, work, notQ, cliVars, subVars, ran, endVars>>
  BY DEF Controller, Stopping, StartBuild, StartThread, StopBegin, StopNode, StopPool,
         StopDisp, StopNotif, StopEnd, dispVars, poolVars, notVars

(* A delivery changes of a client only its place in the wait. *)
LEMMA DeliveryWakes ==
  ASSUME ClientTypes, NotTake \/ NotDrain
  PROVE  /\ UNCHANGED <<cur, nextId, subVars>>
         /\ pc' \in [Clients -> {"idle", "built", "check", "block", "wait", "woken", "count"}]
         /\ \A c \in Clients : pc'[c] = pc[c] \/ (pc[c] = "wait" /\ pc'[c] = "woken")
<1>1. UNCHANGED <<cur, nextId, subVars>> /\ (NotifyOne \/ pc' = pc)
  BY DEF NotTake, NotDrain, Deliver
<1>2. pc' = pc \/ \E c \in Clients : pc[c] = "wait" /\ pc' = [pc EXCEPT ![c] = "woken"]
  BY <1>1 DEF NotifyOne, Blocked
<1> QED BY <1>1, <1>2 DEF ClientTypes

----------------------------------------------------------------------------
(* Clients and m_mutex. *)

(* Every step keeps what clients hold: a task of their own each.            *)
LEMMA ClientsStep == ASSUME TypeOK, ClientsHold, Next PROVE ClientsHold'
<1>0. /\ pc \in [Clients -> {"idle", "built", "check", "block", "wait", "woken", "count"}]
      /\ cur \in [Clients -> Tasks \cup {NoTask}] /\ nextId \in 1 .. MaxTask + 1
  BY DEF TypeOK, ClientTypes
<1>1. ASSUME NEW c \in Clients, NewTask(c) PROVE ClientsHold'
  <2>1. \A t \in submitted : t < nextId
    BY DEF ClientsHold
  <2>2. UNCHANGED <<submitted, counted>>
    BY <1>1 DEF NewTask, subVars
  <2>3. nextId \in Tasks /\ nextId' = nextId + 1
    BY <1>0, <1>1, SizesAssumption DEF NewTask, Tasks
  <2>4. \A d \in Clients : cur[d] # nextId
    BY <1>0, SizesAssumption DEF ClientsHold, Tasks, NoTask
  <2> QED
    <3>1. /\ cur' = [cur EXCEPT ![c] = nextId] /\ pc' = [pc EXCEPT ![c] = "built"]
          /\ pc[c] = "idle" /\ nextId \notin submitted
      BY <1>0, <1>1, <2>1, SizesAssumption DEF NewTask
    <3>2. \A d \in Clients : d # c => pc'[d] = pc[d] /\ cur'[d] = cur[d]
      BY <1>0, <3>1
    <3>3. pc'[c] = "built" /\ cur'[c] = nextId /\ nextId # NoTask
      BY <1>0, <2>3, <3>1 DEF Tasks, NoTask
    <3>4. \A d \in Clients : /\ pc'[d] = "idle" => cur'[d] = NoTask
                             /\ pc'[d] # "idle" => cur'[d] \in Tasks /\ cur'[d] < nextId'
                             /\ pc'[d] = "built" => cur'[d] \notin submitted'
                             /\ pc'[d] \notin {"idle", "built"} => cur'[d] \in submitted' \ counted'
      BY <1>0, <2>2, <2>3, <3>1, <3>2, <3>3 DEF ClientsHold, Tasks
    <3>5. \A d, e \in Clients : cur'[d] = cur'[e] /\ cur'[d] # NoTask => d = e
      BY <2>4, <3>2, <3>3 DEF ClientsHold
    <3>6. \A t \in submitted' : t < nextId'
      BY <1>0, <2>1, <2>2, <2>3 DEF TypeOK, HistoryTypes, Tasks
    <3>7. cur[c] = NoTask /\ NoTask \notin submitted
      BY <3>1 DEF ClientsHold, TypeOK, HistoryTypes, Tasks, NoTask
    <3>8. \A t \in submitted' \ counted' : \E d \in Clients : cur'[d] = t
      BY <2>2, <3>2, <3>7 DEF ClientsHold
    <3> QED
      BY <2>2, <3>4, <3>5, <3>6, <3>8 DEF ClientsHold
<1>2. ASSUME NEW c \in Clients, SubmitRefused(c) PROVE ClientsHold'
  BY <1>0, <1>2 DEF ClientsHold, SubmitRefused, subVars, NoTask, Tasks
<1>3. ASSUME NEW c \in Clients, SubmitQueue(c) PROVE ClientsHold'
  <2>1. /\ pc[c] = "built" /\ pc' = [pc EXCEPT ![c] = "check"] /\ cur' = cur /\ nextId' = nextId
        /\ submitted' = submitted \cup {cur[c]} /\ counted' = counted
    BY <1>3 DEF SubmitQueue
  <2>2. cur[c] \in Tasks /\ cur[c] < nextId /\ cur[c] \notin submitted /\ cur[c] \notin counted
    BY <2>1 DEF ClientsHold
  <2>3. \A d \in Clients : d # c => pc'[d] = pc[d] /\ cur[d] # cur[c]
    BY <1>0, <2>1, <2>2 DEF ClientsHold, Tasks, NoTask
  <2>4. pc'[c] = "check"
    BY <1>0, <2>1
  <2> QED
    BY <2>1, <2>2, <2>3, <2>4 DEF ClientsHold
<1>4. ASSUME NEW c \in Clients, SubmitCheck(c) \/ SubmitBlock(c) \/ SpuriousWake(c) \/ SubmitRelock(c)
      PROVE  ClientsHold'
  BY <1>0, <1>4 DEF ClientsHold, SubmitCheck, SubmitBlock, SpuriousWake, SubmitRelock, subVars
<1>5. ASSUME NEW c \in Clients, SubmitCount(c) PROVE ClientsHold'
  BY <1>0, <1>5 DEF ClientsHold, SubmitCount, NoTask, Tasks
<1>6. ASSUME NotTake \/ NotDrain PROVE ClientsHold'
  <2>1. /\ UNCHANGED <<cur, nextId, submitted, counted>>
        /\ \A c \in Clients : pc'[c] = pc[c] \/ (pc[c] = "wait" /\ pc'[c] = "woken")
    BY <1>6, DeliveryWakes DEF TypeOK, subVars
  <2> QED
    BY <2>1 DEF ClientsHold
<1>7. ASSUME UNCHANGED <<cliVars, subVars>> PROVE ClientsHold'
  BY <1>7 DEF ClientsHold, cliVars, subVars
<1>8. ASSUME NEW c \in Clients, Client(c) PROVE ClientsHold'
  BY <1>1, <1>2, <1>3, <1>4, <1>5, <1>8 DEF Client
<1> QED
  BY <1>6, <1>7, <1>8, QuietForClients DEF Next, NotifierLoop

(* Every step keeps m_mutex with the thread that is between lock and unlock. *)
LEMMA MutexStep == ASSUME TypeOK, MutexHeld, Next PROVE MutexHeld'
<1>0. pc \in [Clients -> {"idle", "built", "check", "block", "wait", "woken", "count"}]
  BY DEF TypeOK, ClientTypes
<1>1. ASSUME NEW c \in Clients, Client(c) PROVE MutexHeld'
  BY <1>0, <1>1, OwnersAssumption DEF MutexHeld, Client, NewTask, SubmitRefused, SubmitQueue, SubmitCheck,
     SubmitBlock, SpuriousWake, SubmitRelock, SubmitCount, AcquireBy, ctlVars
<1>2. ASSUME NotTake \/ NotDrain PROVE MutexHeld'
  <2>1. mutex' = mutex /\ ctl' = ctl
    BY <1>2 DEF NotTake, NotDrain, ctlVars
  <2> QED BY <1>2, <2>1, DeliveryWakes DEF MutexHeld, TypeOK
<1>3. ASSUME mutex' = mutex, ctl' = ctl, pc' = pc PROVE MutexHeld'
  BY <1>3 DEF MutexHeld
<1>4. ASSUME Controller PROVE MutexHeld'
  <2>1. pc' = pc
    BY <1>4, QuietController DEF cliVars
  <2> QED
    BY <1>4, <2>1, OwnersAssumption DEF MutexHeld, TypeOK, CtlTypes, Controller, Stopping, StartBuild,
       StartThread, StopBegin, StopNode, StopPool, StopDisp, StopNotif, StopEnd, AcquireBy
<1>5. ASSUME Dispatcher \/ (\E w \in Workers : Worker(w)) \/ NotDrained \/ NotExit
      PROVE  mutex' = mutex /\ ctl' = ctl /\ pc' = pc
  BY <1>5 DEF Dispatcher, DispTake, DispCheck, DispEmplace, DispExit, Worker, WorkTake, WorkExit,
     WorkRun, WorkQueue, WorkListen, NotDrained, NotExit, ctlVars, cliVars
<1> QED
  BY <1>1, <1>2, <1>3, <1>4, <1>5 DEF Next, NotifierLoop

----------------------------------------------------------------------------
(* Sequences without duplicates. *)

Distinct(s) == \A i, j \in DOMAIN s : s[i] = s[j] => i = j
Among(t, s) == \E i \in DOMAIN s : s[i] = t

(* Appending a new element keeps a sequence free of duplicates. *)
LEMMA AppendDistinct ==
  ASSUME NEW S, NEW s \in Seq(S), NEW x \in S
  PROVE  /\ \A t : Among(t, Append(s, x)) <=> Among(t, s) \/ t = x
         /\ Distinct(s) /\ ~Among(x, s) => Distinct(Append(s, x))
<1>1. /\ DOMAIN s = 1 .. Len(s) /\ Len(s) \in Nat
      /\ DOMAIN Append(s, x) = 1 .. Len(s) + 1
      /\ \A i \in 1 .. Len(s) : Append(s, x)[i] = s[i]
      /\ Append(s, x)[Len(s) + 1] = x
  OBVIOUS
<1>2. ASSUME NEW t PROVE Among(t, Append(s, x)) <=> Among(t, s) \/ t = x
  BY <1>1 DEF Among
<1>3. ASSUME Distinct(s), ~Among(x, s) PROVE Distinct(Append(s, x))
  BY <1>1, <1>3 DEF Distinct, Among
<1> QED BY <1>2, <1>3

(* Taking the front element removes it from such a sequence. *)
LEMMA TailDistinct ==
  ASSUME NEW S, NEW s \in Seq(S), s # <<>>, Distinct(s)
  PROVE  /\ \A t : Among(t, Tail(s)) <=> Among(t, s) /\ t # Head(s)
         /\ Distinct(Tail(s)) /\ Among(Head(s), s)
<1>1. /\ DOMAIN s = 1 .. Len(s) /\ Len(s) \in Nat /\ Len(s) > 0
      /\ DOMAIN Tail(s) = 1 .. Len(s) - 1
      /\ \A i \in 1 .. Len(s) - 1 : Tail(s)[i] = s[i + 1]
      /\ Head(s) = s[1]
  OBVIOUS
<1>2. ASSUME NEW t PROVE Among(t, Tail(s)) <=> Among(t, s) /\ t # Head(s)
  <2>1. ASSUME NEW i \in 1 .. Len(s), s[i] = t, t # Head(s) PROVE Among(t, Tail(s))
    <3>1. i - 1 \in 1 .. Len(s) - 1
      BY <1>1, <2>1
    <3>2. Tail(s)[i - 1] = t
      BY <1>1, <2>1, <3>1
    <3> QED BY <1>1, <3>1, <3>2 DEF Among
  <2>2. ASSUME NEW i \in 1 .. Len(s) - 1, Tail(s)[i] = t PROVE Among(t, s) /\ t # Head(s)
    <3>1. i + 1 \in 1 .. Len(s) /\ s[i + 1] = t /\ 1 \in 1 .. Len(s) /\ i + 1 # 1
      BY <1>1, <2>2
    <3> QED BY <1>1, <3>1 DEF Among, Distinct
  <2> QED BY <1>1, <2>1, <2>2 DEF Among
<1>3. Distinct(Tail(s)) /\ Among(Head(s), s)
  <2>1. ASSUME NEW i \in 1 .. Len(s) - 1, NEW j \in 1 .. Len(s) - 1, Tail(s)[i] = Tail(s)[j]
        PROVE  i = j
    <3>1. i + 1 \in 1 .. Len(s) /\ j + 1 \in 1 .. Len(s) /\ s[i + 1] = s[j + 1]
      BY <1>1, <2>1
    <3>2. i + 1 = j + 1
      BY <1>1, <3>1 DEF Distinct
    <3> QED BY <3>2
  <2> QED BY <1>1, <2>1 DEF Distinct, Among
<1> QED BY <1>2, <1>3

----------------------------------------------------------------------------
(* Every step keeps each task in one place.  One lemma per kind of move:    *)
(* what the places of all tasks are after it.                               *)

(* The dispatcher takes a task into its hand or passes it to the notifier.  *)
LEMMA OwnDispTake ==
  ASSUME TypeOK, HandsHold, OneOwner, OwnedAreSubmitted, DispTake
  PROVE  OneOwner' /\ OwnedAreSubmitted'
<1>1. PICK x \in dispQ :
        /\ dispQ' = dispQ \ {x} /\ UNCHANGED <<poolQ, work, pending, delivered, submitted>>
        /\ \/ notQ' \in {notQ, notQ \cup {x}} /\ UNCHANGED <<disp, dispTask>>
           \/ disp' = "check" /\ dispTask' = x /\ notQ' = notQ
        /\ disp = "wait"
  BY DEF DispTake, NotifyFinal, poolVars, endVars, subVars
<1>2. x \in Tasks /\ InDispatcher(x)
  BY <1>1 DEF TypeOK, DispTypes, InDispatcher
<1>3. \A t \in Tasks : /\ InPool(t)' <=> InPool(t)
                       /\ \A w \in Workers : AtWorker(w, t)' <=> AtWorker(w, t)
                       /\ AtWork(t)' <=> AtWork(t)
                       /\ Delivered(t)' <=> Delivered(t)
  BY <1>1 DEF InPool, AtWorker, AtWork, Delivered, DeliveredSet
<1>4. \A t \in Tasks :
        /\ ~ (t \in dispQ /\ InHand(t))' /\ ~ (t \in notQ /\ t \in pending)'
        /\ InDispatcher(t)' => InDispatcher(t)
        /\ InNotifier(t)' => InNotifier(t) \/ (t = x /\ ~InDispatcher(t)')
  BY <1>1, <1>2 DEF InDispatcher, InHand, InNotifier, OneOwner
<1> QED
  BY <1>1, <1>2, <1>3, <1>4 DEF OneOwner, OwnedAreSubmitted

(* submit() brings in a task that was nowhere.                              *)
LEMMA OwnSubmitQueue ==
  ASSUME TypeOK, ClientsHold, OneOwner, OwnedAreSubmitted, NEW c \in Clients, SubmitQueue(c)
  PROVE  OneOwner' /\ OwnedAreSubmitted'
<1>1. /\ dispQ' \in {dispQ, dispQ \cup {cur[c]}} /\ submitted' = submitted \cup {cur[c]}
      /\ UNCHANGED <<disp, dispTask, poolQ, work, notQ, pending, delivered>>
      /\ cur[c] \in Tasks /\ cur[c] \notin submitted
  BY DEF SubmitQueue, QueueInDispatcher, poolVars, notVars, endVars, ClientsHold
<1>2. \A t \in Tasks : /\ InPool(t)' <=> InPool(t)
                       /\ \A w \in Workers : AtWorker(w, t)' <=> AtWorker(w, t)
                       /\ AtWork(t)' <=> AtWork(t)
                       /\ InNotifier(t)' <=> InNotifier(t)
                       /\ Delivered(t)' <=> Delivered(t)
                       /\ InHand(t)' <=> InHand(t)
  BY <1>1 DEF InPool, AtWorker, AtWork, Delivered, DeliveredSet, InNotifier, InHand
<1>3. \A t \in Tasks : /\ InDispatcher(t)' => InDispatcher(t) \/ t = cur[c]
                       /\ ~ (t \in dispQ /\ InHand(t))'
  BY <1>1, <1>2 DEF InDispatcher, OwnedAreSubmitted, OneOwner
<1> QED
  BY <1>1, <1>2, <1>3 DEF OneOwner, OwnedAreSubmitted

(* The dispatcher keeps the task in its hand or passes it to the notifier.  *)
LEMMA OwnDispCheck ==
  ASSUME TypeOK, HandsHold, OneOwner, OwnedAreSubmitted, DispCheck
  PROVE  OneOwner' /\ OwnedAreSubmitted'
<1>1. /\ disp = "check" /\ UNCHANGED <<dispQ, poolQ, work, pending, delivered, submitted>>
      /\ \/ disp' = "emplace" /\ UNCHANGED <<dispTask, notQ>>
         \/ disp' = "wait" /\ notQ' \in {notQ, notQ \cup {dispTask}}
  BY DEF DispCheck, NotifyFinal, poolVars, endVars, subVars
<1>2. dispTask \in Tasks /\ InHand(dispTask)
  BY <1>1 DEF HandsHold, InHand
<1>3. \A t \in Tasks : /\ InPool(t)' <=> InPool(t)
                       /\ \A w \in Workers : AtWorker(w, t)' <=> AtWorker(w, t)
                       /\ AtWork(t)' <=> AtWork(t)
                       /\ Delivered(t)' <=> Delivered(t)
  BY <1>1 DEF InPool, AtWorker, AtWork, Delivered, DeliveredSet
<1>4. \A t \in Tasks :
        /\ ~ (t \in dispQ /\ InHand(t))' /\ ~ (t \in notQ /\ t \in pending)'
        /\ InDispatcher(t)' => InDispatcher(t)
        /\ InNotifier(t)' => InNotifier(t) \/ (t = dispTask /\ ~InDispatcher(t)')
  BY <1>1, <1>2 DEF InDispatcher, InHand, InNotifier, OneOwner
<1> QED
  BY <1>1, <1>2, <1>3, <1>4 DEF OneOwner, OwnedAreSubmitted, InDispatcher

(* The dispatcher puts the task in its hand at the end of the pool's queue. *)
LEMMA OwnDispEmplace ==
  ASSUME TypeOK, HandsHold, OneOwner, OwnedAreSubmitted, DispEmplace
  PROVE  OneOwner' /\ OwnedAreSubmitted'
<1>1. /\ disp = "emplace" /\ UNCHANGED <<dispQ, work, notQ, pending, delivered, submitted>>
      /\ \/ disp' = "crashed" /\ UNCHANGED <<dispTask, poolQ>>
         \/ disp' = "wait" /\ poolQ' = Append(poolQ, dispTask)
  BY DEF DispEmplace, notVars, endVars, subVars
<1>2. dispTask \in Tasks /\ InHand(dispTask) /\ poolQ \in Seq(Tasks)
  BY <1>1 DEF HandsHold, InHand, TypeOK, PoolTypes
<1>3. \A t \in Tasks : /\ InNotifier(t)' <=> InNotifier(t)
                       /\ \A w \in Workers : AtWorker(w, t)' <=> AtWorker(w, t)
                       /\ AtWork(t)' <=> AtWork(t)
                       /\ Delivered(t)' <=> Delivered(t)
  BY <1>1 DEF InNotifier, AtWorker, AtWork, Delivered, DeliveredSet
<1>4. \A t \in Tasks : /\ InPool(t)' => InPool(t) \/ (t = dispTask /\ ~InDispatcher(t)')
                       /\ InDispatcher(t)' => InDispatcher(t)
                       /\ ~ (t \in dispQ /\ InHand(t))' /\ ~ (t \in notQ /\ t \in pending)'
  BY <1>1, <1>2, AppendDistinct DEF InPool, Among, InDispatcher, InHand, OneOwner
<1>5. Distinct(poolQ)'
  BY <1>1, <1>2, AppendDistinct DEF OneOwner, Distinct, InPool, Among, InDispatcher
<1> QED
  BY <1>1, <1>2, <1>3, <1>4, <1>5 DEF OneOwner, OwnedAreSubmitted, InDispatcher, Distinct

(* A worker takes the first task of the pool's queue.                       *)
LEMMA OwnWorkTake ==
  ASSUME TypeOK, OneOwner, OwnedAreSubmitted, NEW u \in Workers, WorkTake(u)
  PROVE  OneOwner' /\ OwnedAreSubmitted'
<1> DEFINE x == Head(poolQ)
<1>1. /\ poolQ # <<>> /\ poolQ' = Tail(poolQ) /\ poolQ \in Seq(Tasks)
      /\ work[u].st = "idle" /\ work \in [Workers -> WorkRecord]
      /\ \E m : work' = [work EXCEPT ![u] = [st |-> "run", t |-> x, n |-> m]]
      /\ UNCHANGED <<dispQ, disp, dispTask, notQ, pending, delivered, submitted>>
  BY DEF WorkTake, FrontPopped, dispVars, notVars, endVars, subVars, TypeOK, PoolTypes
<1>2. x \in Tasks /\ Distinct(poolQ)
  BY <1>1 DEF OneOwner, Distinct
<1>3. /\ \A t \in Tasks : InPool(t)' <=> InPool(t) /\ t # x
      /\ InPool(x) /\ Distinct(poolQ)'
  BY <1>1, <1>2, TailDistinct DEF InPool, Among
<1>4. \A t \in Tasks : /\ InDispatcher(t)' <=> InDispatcher(t)
                       /\ (InHand(t))' <=> InHand(t)
                       /\ InNotifier(t)' <=> InNotifier(t)
                       /\ Delivered(t)' <=> Delivered(t)
  BY <1>1 DEF InNotifier, InDispatcher, InHand, Delivered, DeliveredSet
<1>5. \A w \in Workers : \A t \in Tasks :
        AtWorker(w, t)' <=> IF w = u THEN t = x ELSE AtWorker(w, t)
  BY <1>1 DEF AtWorker
<1>6. \A t \in Tasks : AtWork(t)' => AtWork(t) \/ t = x
  BY <1>5 DEF AtWork
<1>7. \A t \in Tasks : \A v, w \in Workers : AtWorker(v, t)' /\ AtWorker(w, t)' => v = w
  BY <1>2, <1>3, <1>5 DEF OneOwner, AtWork
<1> QED
  BY <1>1, <1>2, <1>3, <1>4, <1>6, <1>7 DEF OneOwner, OwnedAreSubmitted, Distinct

(* A step of a worker that only changes where that worker is. *)
LEMMA OwnWorkMoves ==
  ASSUME TypeOK, OneOwner, OwnedAreSubmitted, NEW u \in Workers,
         WorkExit(u) \/ WorkRun(u) \/ WorkListen(u)
  PROVE  OneOwner' /\ OwnedAreSubmitted'
<1>1. /\ work \in [Workers -> WorkRecord]
      /\ UNCHANGED <<poolQ, dispQ, disp, dispTask, notQ, pending, delivered, submitted>>
      /\ \/ work[u].st = "idle" /\ work' = [work EXCEPT ![u].st = "exited"]
         \/ work[u].st = "run" /\ work' = [work EXCEPT ![u].st = "queue"]
         \/ work[u].st = "listen" /\ work' = [work EXCEPT ![u] = NoWork]
  BY DEF WorkExit, WorkRun, WorkListen, dispVars, notVars, endVars, subVars, TypeOK, PoolTypes
<1>2. \A t \in Tasks : /\ InDispatcher(t)' <=> InDispatcher(t)
                       /\ (InHand(t))' <=> InHand(t)
                       /\ InPool(t)' <=> InPool(t)
                       /\ InNotifier(t)' <=> InNotifier(t)
                       /\ Delivered(t)' <=> Delivered(t)
  BY <1>1 DEF InNotifier, InDispatcher, InHand, InPool, Delivered, DeliveredSet
<1>3. \A w \in Workers : \A t \in Tasks : AtWorker(w, t)' <=> AtWorker(w, t)
  BY <1>1 DEF AtWorker, NoWork, WorkRecord
<1>4. \A t \in Tasks : AtWork(t)' <=> AtWork(t)
  BY <1>3 DEF AtWork
<1> QED
  BY <1>1, <1>2, <1>3, <1>4 DEF OneOwner, OwnedAreSubmitted

(* A worker gives its task back to the dispatcher.                          *)
LEMMA OwnWorkQueue ==
  ASSUME TypeOK, HandsHold, OneOwner, OwnedAreSubmitted, NEW u \in Workers, WorkQueue(u)
  PROVE  OneOwner' /\ OwnedAreSubmitted'
<1> DEFINE x == work[u].t
<1>1. /\ work \in [Workers -> WorkRecord] /\ work[u].st = "queue" /\ x \in Tasks
      /\ UNCHANGED <<poolQ, disp, dispTask, notQ, pending, delivered, submitted>>
      /\ work' = [work EXCEPT ![u].st = "listen"]
      /\ dispQ' \in {dispQ, dispQ \cup {x}}
  BY DEF WorkQueue, QueueInDispatcher, HandsHold, notVars, endVars, subVars, TypeOK, PoolTypes
<1>2. \A t \in Tasks : /\ (InHand(t))' <=> InHand(t)
                       /\ InPool(t)' <=> InPool(t)
                       /\ InNotifier(t)' <=> InNotifier(t)
                       /\ Delivered(t)' <=> Delivered(t)
  BY <1>1 DEF InNotifier, InHand, InPool, Delivered, DeliveredSet
<1>3. \A w \in Workers : \A t \in Tasks : AtWorker(w, t)' <=> AtWorker(w, t) /\ w # u
  BY <1>1 DEF AtWorker, WorkRecord
<1>4. AtWorker(u, x) /\ AtWork(x)
  BY <1>1 DEF AtWorker, AtWork
<1>5. \A t \in Tasks : AtWork(t)' => AtWork(t) /\ t # x
  BY <1>1, <1>3, <1>4 DEF AtWork, OneOwner
<1>6. \A t \in Tasks : /\ InDispatcher(t)' => InDispatcher(t) \/ t = x
                       /\ ~ (t \in dispQ /\ InHand(t))'
  BY <1>1, <1>2, <1>4 DEF InDispatcher, OneOwner
<1> QED
  BY <1>1, <1>2, <1>3, <1>4, <1>5, <1>6 DEF OneOwner, OwnedAreSubmitted

(* The notifier holds a task back or hands it to the callback.              *)
LEMMA OwnDeliveries ==
  ASSUME TypeOK, OneOwner, OwnedAreSubmitted, NotTake \/ NotDrain
  PROVE  OneOwner' /\ OwnedAreSubmitted'
<1>1. /\ UNCHANGED <<poolQ, work, dispQ, disp, dispTask, submitted>>
      /\ \E x \in Tasks :
           /\ InNotifier(x)
           /\ \/ /\ notQ' = notQ \ {x} /\ pending' = pending /\ x \in notQ
                 /\ delivered' = Append(delivered, x)
              \/ /\ notQ' = notQ \ {x} /\ pending' = pending \cup {x} /\ x \in notQ
                 /\ delivered' = delivered
              \/ /\ notQ' = notQ /\ pending' = pending \ {x} /\ x \in pending
                 /\ delivered' = Append(delivered, x)
  BY DEF NotTake, NotDrain, Deliver, InNotifier, dispVars, poolVars, endVars, subVars,
         TypeOK, NotTypes
<1>2. PICK x \in Tasks :
           /\ InNotifier(x)
           /\ \/ /\ notQ' = notQ \ {x} /\ pending' = pending /\ x \in notQ
                 /\ delivered' = Append(delivered, x)
              \/ /\ notQ' = notQ \ {x} /\ pending' = pending \cup {x} /\ x \in notQ
                 /\ delivered' = delivered
              \/ /\ notQ' = notQ /\ pending' = pending \ {x} /\ x \in pending
                 /\ delivered' = Append(delivered, x)
  BY <1>1
<1>3. \A t \in Tasks : /\ InDispatcher(t)' <=> InDispatcher(t)
                       /\ (InHand(t))' <=> InHand(t)
                       /\ InPool(t)' <=> InPool(t)
                       /\ \A w \in Workers : AtWorker(w, t)' <=> AtWorker(w, t)
                       /\ AtWork(t)' <=> AtWork(t)
  BY <1>1 DEF InDispatcher, InHand, InPool, AtWorker, AtWork
<1>4. \A t \in Tasks : Delivered(t)' <=> Delivered(t) \/ (t = x /\ delivered' = Append(delivered, x))
  <2>1. /\ delivered \in Seq(Tasks) /\ delivered # Append(delivered, x)
        /\ \A t : Among(t, Append(delivered, x)) <=> Among(t, delivered) \/ t = x
    BY <1>2, AppendDistinct DEF TypeOK, HistoryTypes
  <2> QED
    BY <1>2, <2>1 DEF Delivered, DeliveredSet, Among
<1>5. \A t \in Tasks : /\ InNotifier(t)' => InNotifier(t)
                       /\ ~ (t \in notQ /\ t \in pending)'
                       /\ delivered' = Append(delivered, x) => ~InNotifier(x)'
  BY <1>2 DEF InNotifier, OneOwner
<1> QED
  BY <1>1, <1>2, <1>3, <1>4, <1>5 DEF OneOwner, OwnedAreSubmitted

(* All steps together.                                                      *)
LEMMA OwnStep ==
  ASSUME TypeOK, ClientsHold, HandsHold, OneOwner, OwnedAreSubmitted, StopOrder, Next
  PROVE  OneOwner' /\ OwnedAreSubmitted'
<1>1. ASSUME /\ UNCHANGED <<dispQ, dispTask, poolQ, work, notQ, delivered, submitted>>
             /\ \A t \in Tasks : (InHand(t))' <=> InHand(t)
             /\ pending' \subseteq pending
      PROVE  OneOwner' /\ OwnedAreSubmitted'
  <2>1. \A t \in Tasks : /\ InDispatcher(t)' <=> InDispatcher(t)
                         /\ InPool(t)' <=> InPool(t)
                         /\ \A w \in Workers : AtWorker(w, t)' <=> AtWorker(w, t)
                         /\ AtWork(t)' <=> AtWork(t)
                         /\ InNotifier(t)' => InNotifier(t)
                         /\ Delivered(t)' <=> Delivered(t)
    BY <1>1 DEF InDispatcher, InPool, AtWorker, AtWork, InNotifier, Delivered, DeliveredSet
  <2> QED BY <1>1, <2>1 DEF OneOwner, OwnedAreSubmitted
<1>2. ASSUME NEW c \in Clients, Client(c) PROVE OneOwner' /\ OwnedAreSubmitted'
  <2>1. CASE SubmitQueue(c)
    BY <2>1, OwnSubmitQueue
  <2>2. CASE ~SubmitQueue(c)
    BY <1>1, <1>2, <2>2, QuietClients DEF InHand, poolVars, notVars, endVars
  <2> QED BY <2>1, <2>2
<1>3. ASSUME DispExit \/ NotDrained \/ NotExit PROVE OneOwner' /\ OwnedAreSubmitted'
  BY <1>1, <1>3 DEF DispExit, NotDrained, NotExit, InHand, dispVars, poolVars, notVars, subVars, endVars
<1>4. ASSUME Controller PROVE OneOwner' /\ OwnedAreSubmitted'
  <2>1. (disp' = disp \/ (disp # "crashed" /\ disp \notin {"check", "emplace"} /\ disp' = "wait"))
        /\ (pending' = pending \/ pending' = {})
    BY <1>4 DEF Controller, Stopping, StartBuild, StartThread, StopBegin, StopNode, StopPool,
       StopDisp, StopNotif, StopEnd, dispVars, notVars, StopOrder
  <2> QED
    BY <1>1, <1>4, <2>1, QuietController DEF InHand, subVars, endVars
<1> QED
  BY <1>2, <1>3, <1>4, OwnDispTake, OwnDispCheck, OwnDispEmplace, OwnWorkTake, OwnWorkMoves,
     OwnWorkQueue, OwnDeliveries DEF Next, Dispatcher, Worker, NotifierLoop

----------------------------------------------------------------------------
(* What is dispatched, queued or run has a node to run: only its one owner  *)
(* changes the nodes a task has left.                                       *)

(* Every step keeps a node to run in every task that is in hand.            *)
LEMMA HandsStep ==
  ASSUME TypeOK, ClientsHold, HandsHold, OneOwner, OwnedAreSubmitted, StopOrder, Next
  PROVE  HandsHold'
<1>0. /\ task \in [Tasks -> TaskRecord] /\ poolQ \in Seq(Tasks) /\ work \in [Workers -> WorkRecord]
      /\ dispQ \subseteq Tasks
  BY DEF TypeOK, PoolTypes, DispTypes
<1>1. ASSUME UNCHANGED <<dispTask, poolQ, work>>,
             \A t \in Tasks : task'[t].todo = task[t].todo,
             disp' \in {"check", "emplace", "crashed"} => disp \in {"check", "emplace", "crashed"}
      PROVE  HandsHold'
  <2>1. \A i \in DOMAIN poolQ : poolQ[i] \in Tasks
    BY <1>0
  <2> QED BY <1>0, <1>1, <2>1 DEF HandsHold
<1>2. ASSUME NEW c \in Clients, SubmitQueue(c) PROVE HandsHold'
  <2>1. PICK p \in PathsNow : task' = [task EXCEPT ![cur[c]].todo = p]
    BY <1>2 DEF SubmitQueue
  <2>2. /\ UNCHANGED <<disp, dispTask, poolQ, work>>
        /\ cur[c] \in Tasks /\ cur[c] \notin submitted
    BY <1>2 DEF SubmitQueue, poolVars, ClientsHold
  <2>3. \A t \in Tasks \ {cur[c]} : task'[t] = task[t]
    BY <1>0, <2>1, <2>2
  <2>4. disp \in {"check", "emplace", "crashed"} => dispTask \in Tasks \ {cur[c]}
    BY <2>2 DEF HandsHold, OwnedAreSubmitted, InDispatcher, InHand
  <2>5. \A i \in DOMAIN poolQ : poolQ[i] \in Tasks \ {cur[c]}
    BY <1>0, <2>2 DEF OwnedAreSubmitted, InPool
  <2>6. \A w \in Workers : work[w].st = "run" => work[w].t \in Tasks \ {cur[c]}
    BY <2>2 DEF HandsHold, OwnedAreSubmitted, AtWork, AtWorker
  <2> QED BY <2>2, <2>3, <2>4, <2>5, <2>6 DEF HandsHold
<1>3. ASSUME DispTake PROVE HandsHold'
  <2>1. PICK t \in dispQ :
          \/ NotifyFinal(t, FinalVerdict(t)) /\ UNCHANGED <<disp, dispTask>>
          \/ task[t].todo # <<>> /\ disp' = "check" /\ dispTask' = t /\ task' = task
    BY <1>3 DEF DispTake
  <2>2. UNCHANGED <<poolQ, work>>
    BY <1>3 DEF DispTake, poolVars
  <2>3. \A u \in Tasks : task'[u].todo = task[u].todo
    BY <1>0, <2>1, NoteKeeps DEF NotifyFinal
  <2>4. CASE NotifyFinal(t, FinalVerdict(t)) /\ UNCHANGED <<disp, dispTask>>
    BY <1>1, <2>2, <2>3, <2>4
  <2>5. CASE task[t].todo # <<>> /\ disp' = "check" /\ dispTask' = t /\ task' = task
    BY <1>0, <2>2, <2>5 DEF HandsHold
  <2> QED BY <2>1, <2>4, <2>5
<1>4. ASSUME DispCheck PROVE HandsHold'
  <2>1. /\ UNCHANGED <<poolQ, work>> /\ disp = "check"
        /\ \/ disp' = "emplace" /\ dispTask' = dispTask /\ task' = task
           \/ disp' = "wait" /\ task' = [task EXCEPT ![dispTask].note = "ERROR"]
    BY <1>4 DEF DispCheck, NotifyFinal, poolVars
  <2>2. \A u \in Tasks : task'[u].todo = task[u].todo
    BY <1>0, <2>1, NoteKeeps
  <2>3. \A i \in DOMAIN poolQ : poolQ[i] \in Tasks
    BY <1>0
  <2> QED BY <2>1, <2>2, <2>3 DEF HandsHold
<1>5. ASSUME DispEmplace PROVE HandsHold'
  <2>1. /\ disp = "emplace" /\ UNCHANGED <<task, work>>
        /\ \/ disp' = "crashed" /\ UNCHANGED <<dispTask, poolQ>>
           \/ disp' = "wait" /\ poolQ' = Append(poolQ, dispTask)
    BY <1>5 DEF DispEmplace
  <2>2. dispTask \in Tasks /\ task[dispTask].todo # <<>>
    BY <2>1 DEF HandsHold
  <2>3. \A i \in DOMAIN poolQ' : poolQ'[i] = dispTask \/ \E j \in DOMAIN poolQ : poolQ'[i] = poolQ[j]
    BY <1>0, <2>1, <2>2
  <2> QED BY <2>1, <2>2, <2>3 DEF HandsHold
<1>6. ASSUME NEW u \in Workers, WorkTake(u) PROVE HandsHold'
  <2>1. /\ poolQ # <<>> /\ poolQ' = Tail(poolQ) /\ UNCHANGED <<task, disp, dispTask>>
        /\ work' = [work EXCEPT ![u] = [st |-> "run", t |-> Head(poolQ), n |-> Head(task[Head(poolQ)].todo)]]
    BY <1>6 DEF WorkTake, FrontPopped, dispVars
  <2>2. Head(poolQ) \in Tasks /\ task[Head(poolQ)].todo # <<>>
    BY <1>0, <2>1 DEF HandsHold
  <2>3. \A i \in DOMAIN poolQ' : \E j \in DOMAIN poolQ : poolQ'[i] = poolQ[j]
    BY <1>0, <2>1
  <2> QED BY <1>0, <2>1, <2>2, <2>3 DEF HandsHold
<1>7. ASSUME NEW u \in Workers, WorkRun(u) PROVE HandsHold'
  <2> DEFINE x == work[u].t
  <2>1. /\ x \in Tasks /\ AtWorker(u, x) /\ AtWork(x) /\ work[u].st = "run"
        /\ UNCHANGED <<disp, dispTask, poolQ>> /\ work' = [work EXCEPT ![u].st = "queue"]
        /\ \A t \in Tasks \ {x} : task'[t] = task[t]
    BY <1>0, <1>7 DEF WorkRun, HandsHold, AtWorker, AtWork, dispVars
  <2>2. disp \in {"check", "emplace", "crashed"} => dispTask \in Tasks \ {x}
    BY <2>1 DEF HandsHold, OneOwner, InDispatcher, InHand
  <2>3. \A i \in DOMAIN poolQ : poolQ[i] \in Tasks \ {x}
    BY <1>0, <2>1 DEF OneOwner, InPool
  <2>4. \A w \in Workers : work'[w].st = "run" => w # u /\ work'[w] = work[w] /\ work[w].t \in Tasks \ {x}
    BY <1>0, <2>1 DEF HandsHold, OneOwner, AtWorker, WorkRecord
  <2>5. \A w \in Workers : work'[w].t = work[w].t /\ (work'[w].st \in {"run", "queue", "listen"}
                             => work[w].st \in {"run", "queue", "listen"})
    BY <1>0, <2>1 DEF WorkRecord
  <2> QED BY <2>1, <2>2, <2>3, <2>4, <2>5 DEF HandsHold
<1>8. ASSUME NEW u \in Workers, WorkExit(u) \/ WorkQueue(u) \/ WorkListen(u) PROVE HandsHold'
  <2>1. /\ UNCHANGED <<disp, dispTask, poolQ>>
        /\ \/ task' = task
           \/ task' = [task EXCEPT ![work[u].t].note = "ERROR"]
        /\ \/ work' = [work EXCEPT ![u].st = "exited"]
           \/ work[u].st = "queue" /\ work' = [work EXCEPT ![u].st = "listen"]
           \/ work' = [work EXCEPT ![u] = NoWork]
    BY <1>8 DEF WorkExit, WorkQueue, WorkListen, dispVars
  <2>2. \A t \in Tasks : task'[t].todo = task[t].todo
    BY <1>0, <2>1, NoteKeeps
  <2>3. \A i \in DOMAIN poolQ : poolQ[i] \in Tasks
    BY <1>0
  <2>4. \A w \in Workers : \/ work'[w] = work[w]
                           \/ work'[w].st \in {"exited", "idle"}
                           \/ work'[w].st = "listen" /\ work[w].st = "queue" /\ work'[w].t = work[w].t
    BY <1>0, <2>1 DEF NoWork, WorkRecord
  <2> QED BY <2>1, <2>2, <2>3, <2>4 DEF HandsHold
<1>9. ASSUME NEW c \in Clients, Client(c) PROVE HandsHold'
  <2>1. CASE ~SubmitQueue(c)
    BY <1>1, <1>9, <2>1, QuietClients DEF poolVars
  <2> QED BY <1>2, <2>1
<1>10. ASSUME DispExit \/ NotifierLoop PROVE HandsHold'
  BY <1>1, <1>10 DEF DispExit, NotifierLoop, NotTake, NotDrain, NotDrained, NotExit, dispVars, poolVars
<1>11. ASSUME Controller PROVE HandsHold'
  <2>1. disp' \in {"check", "emplace", "crashed"} => disp \in {"check", "emplace", "crashed"}
    BY <1>11 DEF Controller, Stopping, StartBuild, StartThread, StopBegin, StopNode, StopPool,
       StopDisp, StopNotif, StopEnd, dispVars
  <2> QED BY <1>1, <1>11, <2>1, QuietController
<1> QED
  BY <1>3, <1>4, <1>5, <1>6, <1>7, <1>8, <1>9, <1>10, <1>11 DEF Next, Dispatcher, Worker

----------------------------------------------------------------------------
(* The order of start() and stop(): no thread comes back after it was       *)
(* joined, and the flags go up in the order of the joins.                   *)

(* Every step keeps the order of the flags and the joins.                   *)
LEMMA StopOrderStep == ASSUME TypeOK, StopOrder, Next PROVE StopOrder'
<1>0. work \in [Workers -> WorkRecord]
  BY DEF TypeOK, PoolTypes
<1>1. ASSUME NEW c \in Clients, Client(c) PROVE StopOrder'
  BY <1>1, QuietClients DEF StopOrder, WorkersJoined, poolVars, notVars
<1>2. ASSUME Dispatcher PROVE StopOrder'
  <2>1. /\ disp \notin {"off", "exited"} /\ disp' # "off"
        /\ UNCHANGED <<ctl, nodeStop, isStop, poolStop, dispStop, notStop, notif, work>>
    BY <1>2 DEF Dispatcher, DispTake, DispCheck, DispEmplace, DispExit, ctlVars, poolVars, notVars
  <2> QED BY <2>1 DEF StopOrder, WorkersJoined
<1>3. ASSUME NEW w \in Workers, Worker(w) PROVE StopOrder'
  <2>1. /\ work[w].st # "exited"
        /\ UNCHANGED <<ctl, nodeStop, isStop, poolStop, disp, dispStop, notStop, notif>>
    BY <1>3 DEF Worker, WorkTake, WorkExit, WorkRun, WorkQueue, WorkListen, ctlVars, dispVars, notVars
  <2>2. ~dispStop
    BY <2>1 DEF StopOrder, WorkersJoined
  <2> QED BY <2>1, <2>2 DEF StopOrder
<1>4. ASSUME NotifierLoop PROVE StopOrder'
  <2>1. /\ notif # "exited"
        /\ UNCHANGED <<ctl, nodeStop, isStop, poolStop, disp, dispStop, notStop, work>>
    BY <1>4 DEF NotifierLoop, NotTake, NotDrain, NotDrained, NotExit, ctlVars, dispVars, poolVars
  <2> QED BY <2>1 DEF StopOrder, WorkersJoined
<1>5. ASSUME StartBuild \/ StartThread \/ StopBegin PROVE StopOrder'
  BY <1>5 DEF StartBuild, StartThread, StopBegin, StopOrder, WorkersJoined, dispVars, poolVars, notVars
<1>6. ASSUME Stopping PROVE StopOrder'
  BY <1>6 DEF Stopping, StopNode, StopPool, StopDisp, StopNotif, StopEnd, StopOrder, WorkersJoined,
              dispVars, poolVars, notVars
<1> QED
  BY <1>1, <1>2, <1>3, <1>4, <1>5, <1>6 DEF Next, Controller

----------------------------------------------------------------------------
(* The first theorems. *)

(* The part of the inductive invariant that one owner rests on. *)
OwnInv ==
  /\ TypeOK /\ ClientsHold /\ HandsHold /\ OneOwner /\ OwnedAreSubmitted /\ StopOrder

(* It holds before anything has run. *)
LEMMA OwnInit == ASSUME Init PROVE OwnInv
<1>1. TypeOK
  <2>1. NewTaskRecord \in TaskRecord /\ <<>> \in Seq(Nodes) /\ <<>> \in Seq(Tasks) /\ NoWork \in WorkRecord
    <3>1. <<>> \in Seq(Nodes) /\ <<>> \in Seq(Tasks)
      OBVIOUS
    <3> QED BY <3>1 DEF NewTaskRecord, TaskRecord, NoWork, WorkRecord
  <2>2. 1 \in 1 .. MaxTask + 1 /\ 0 \in 0 .. W - 1
    BY SizesAssumption
  <2>3. CtlTypes /\ ClientTypes
    BY <2>2 DEF Init, CtlTypes, ClientTypes
  <2>4. task \in [Tasks -> TaskRecord] /\ DispTypes
    BY <2>1 DEF Init, DispTypes
  <2>5. PoolTypes /\ NotTypes
    BY <2>1, <2>2 DEF Init, PoolTypes, NotTypes
  <2>6. HistoryTypes
    BY <2>1 DEF Init, HistoryTypes
  <2> QED BY <2>3, <2>4, <2>5, <2>6 DEF TypeOK
<1>2. ClientsHold
  BY SizesAssumption DEF Init, ClientsHold
<1>3. HandsHold /\ StopOrder
  BY DEF Init, HandsHold, StopOrder, NoWork, WorkersJoined
<1>4. \A t \in Tasks : /\ ~InDispatcher(t) /\ ~InPool(t) /\ ~InNotifier(t) /\ ~Delivered(t)
                       /\ \A w \in Workers : ~AtWorker(w, t)
  BY DEF Init, InDispatcher, InHand, InPool, InNotifier, Delivered, DeliveredSet, AtWorker, NoWork
<1>5. OneOwner
  BY <1>4 DEF OneOwner, AtWork, Init, InDispatcher, InNotifier
<1>6. OwnedAreSubmitted
  BY <1>4 DEF OwnedAreSubmitted, AtWork
<1> QED
  BY <1>1, <1>2, <1>3, <1>5, <1>6 DEF OwnInv

(* Every step keeps it. *)
LEMMA OwnNext == ASSUME OwnInv, [Next]_vars PROVE OwnInv'
<1>1. CASE Next
  BY <1>1, TypeStep, ClientsStep, HandsStep, OwnStep, StopOrderStep DEF OwnInv
<1>2. CASE UNCHANGED vars
  <2>1. UNCHANGED <<ctlVars, cliVars, task, dispVars, poolVars, notVars, subVars, ran, endVars>>
    BY <1>2 DEF vars
  <2>2. TypeOK'
    BY <2>1 DEF OwnInv, TypeOK, CtlTypes, ClientTypes, DispTypes, PoolTypes, NotTypes, HistoryTypes,
       ctlVars, cliVars, dispVars, poolVars, notVars, subVars, endVars
  <2>3. ClientsHold' /\ HandsHold' /\ StopOrder'
    BY <2>1 DEF OwnInv, ClientsHold, HandsHold, StopOrder, WorkersJoined,
       ctlVars, cliVars, dispVars, poolVars, notVars, subVars, endVars
  <2>4. \A t \in Tasks : /\ InDispatcher(t)' <=> InDispatcher(t)
                         /\ (InHand(t))' <=> InHand(t)
                         /\ InPool(t)' <=> InPool(t)
                         /\ \A w \in Workers : AtWorker(w, t)' <=> AtWorker(w, t)
                         /\ AtWork(t)' <=> AtWork(t)
                         /\ InNotifier(t)' <=> InNotifier(t)
                         /\ Delivered(t)' <=> Delivered(t)
    BY <2>1 DEF InDispatcher, InHand, InPool, AtWorker, AtWork, InNotifier, Delivered, DeliveredSet,
       dispVars, poolVars, notVars, endVars
  <2>5. UNCHANGED <<poolQ, dispQ, notQ, pending, submitted>>
    BY <2>1 DEF dispVars, poolVars, notVars, subVars
  <2>6. OneOwner' /\ OwnedAreSubmitted'
    BY <2>4, <2>5 DEF OwnInv, OneOwner, OwnedAreSubmitted
  <2> QED BY <2>2, <2>3, <2>6 DEF OwnInv
<1> QED BY <1>1, <1>2

(* Every behaviour keeps it. *)
LEMMA OwnAlways == Spec => []OwnInv
<1>1. Init => OwnInv
  BY OwnInit
<1>2. OwnInv /\ [Next]_vars => OwnInv'
  BY OwnNext
<1> QED BY <1>1, <1>2, PTL DEF Spec

(* The variables keep their types; in particular no thread reads the node   *)
(* of a task that has none left, and m_processingTaskCount stays within its *)
(* width.                                                                   *)
THEOREM TypeCorrect == Spec => []TypeOK
<1>1. OwnInv => TypeOK
  BY DEF OwnInv
<1> QED BY <1>1, OwnAlways, PTL

(* A task that was submitted and not reported is in one place at most: no   *)
(* two threads work on it, and none after the FINAL callback has seen it.   *)
THEOREM SingleOwner == Spec => []OneOwner
<1>1. OwnInv => OneOwner
  BY DEF OwnInv
<1> QED BY <1>1, OwnAlways, PTL
=============================================================================
