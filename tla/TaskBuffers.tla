---------------------------- MODULE TaskBuffers ----------------------------
(***************************************************************************)
(* The buffers of PipeTask.  constructIO declares, per node of a task's    *)
(* path, specifications of input and output buffers; the factory keeps one *)
(* manager per specification.  When a node takes a task, a buffer is       *)
(* popped for each output and put down as input of the next node; when the *)
(* node returns, the declared buffers are pushed back.                     *)
(*                                                                         *)
(* Each popBuffer and pushBuffer is a step, since each locks its manager   *)
(* by itself; what a manager does inside is BufferManager's subject, and   *)
(* here it is the set of buffers it can give.  A specification stands for  *)
(* its name, by which the lists are searched.                              *)
(***************************************************************************)
EXTENDS Integers, Sequences, FiniteSets, Functions

CONSTANTS
  Tasks,
  NumWorkers, \* threads of the pool
  Specs,      \* buffer specifications
  MinQueue,   \* minQueueSize of each
  MaxQueue,   \* maxQueueSize of each
  Mixes,      \* what the tasks may declare: a set of functions from Tasks
  W           \* number of values of numOfUser

NoTask == 0

\* A task's declarations: the identifiers of its nodes in order, and per
\* position in the path the input and the output specifications.
ASSUME TaskBuffersAssumption ==
  /\ IsFiniteSet(Tasks) /\ NoTask \notin Tasks /\ NumWorkers \in Nat \ {0} /\ W \in Nat \ {0, 1}
  /\ MinQueue \in [Specs -> Nat \ {0}] /\ MaxQueue \in [Specs -> Nat]
  /\ \A s \in Specs : MinQueue[s] <= MaxQueue[s]
  /\ \A m \in Mixes : \A t \in Tasks :
       /\ m[t].id \in Seq(Int) /\ m[t].in \in Seq(Seq(Specs)) /\ m[t].out \in Seq(Seq(Specs))
       /\ Len(m[t].in) = Len(m[t].id) /\ Len(m[t].out) = Len(m[t].id)

\* The first MinQueue[s] buffers of a manager are cached ones, the others
\* temporary, allocated when popped and freed when pushed.
BuffersOf(s) == {s} \X (1 .. MaxQueue[s])
Buffers == UNION {BuffersOf(s) : s \in Specs}
Cached(b) == b[2] <= MinQueue[b[1]]
NoBuffer == <<0, 0>>

VARIABLES
  design,    \* per task: what it declares
  st,        \* per task: new, with the dispatcher, in the pool, in a worker that works
             \* on it or pushes its buffers; over, lost or dropped
  pos,       \* per task: position of the current node; beyond the path when over
  inp,       \* per task: NodeBufferInfo::input of the current node
  outp,      \* per task: NodeBufferInfo::output of the current node
  rel,       \* per task: buffers releaseCurrentNodeBuffer has still to push
  managers,  \* m_bufferManagerMap: specifications that have a manager
  free,      \* buffers the managers can give
  users,     \* numOfUser of each buffer
  popper,    \* history: the task that popped a buffer last, if any
  stopping   \* the pool and the nodes are stopped

taskVars == <<st, pos, inp, outp, rel>>
bufVars == <<managers, free, users, popper>>
vars == <<design, taskVars, bufVars, stopping>>

Init ==
  /\ design \in Mixes
  /\ st = [t \in Tasks |-> "new"]
  /\ pos = [t \in Tasks |-> 1]
  /\ inp = [t \in Tasks |-> <<>>] /\ outp = [t \in Tasks |-> <<>>]
  /\ rel = [t \in Tasks |-> <<>>]
  /\ managers = {} /\ free = {}
  /\ users = [b \in Buffers |-> 0] /\ popper = [b \in Buffers |-> NoTask]
  /\ stopping = FALSE

----------------------------------------------------------------------------
\* The specifications a task declares.
Declared(d) == UNION {Range(d.in[k]) \cup Range(d.out[k]) : k \in DOMAIN d.id}

\* mutant: a manager is created whether there is one or not
CreatedAnew(ss) == ss

\* getBufferManager finds none, so createBufferManager makes one.
Created(ss) == ss \ managers

\* submit: constructDependency ends with constructIO, whose addInputForNode
\* and addOutputForNode create the managers.
Submit(t) ==
  /\ st[t] = "new" /\ ~stopping
  /\ LET new == Created(Declared(design[t])) IN
       /\ managers' = managers \cup new
       /\ free' = free \cup UNION {BuffersOf(s) : s \in new}
  /\ st' = [st EXCEPT ![t] = "dispatcher"]
  /\ UNCHANGED <<design, pos, inp, outp, rel, users, popper, stopping>>

\* The task has gone through its path, or a node failed.
Over(t) == pos[t] > Len(design[t].id)

\* dispatch: report a task that is over, pass the others on to the pool; once
\* the pool is stopped they are reported ERROR as they are.
Dispatch(t) ==
  /\ st[t] = "dispatcher"
  /\ st' = [st EXCEPT ![t] = IF Over(t) THEN "over" ELSE IF stopping THEN "dropped" ELSE "pool"]
  /\ UNCHANGED <<design, pos, inp, outp, rel, bufVars, stopping>>

Busy == {t \in Tasks : st[t] \in {"work", "push"}}

\* A worker takes the task and calls PipeNode::process.  A stopped pool still
\* empties its queue.
Take(t) ==
  /\ st[t] = "pool" /\ Cardinality(Busy) < NumWorkers
  /\ st' = [st EXCEPT ![t] = "work"]
  /\ UNCHANGED <<design, pos, inp, outp, rel, bufVars, stopping>>

----------------------------------------------------------------------------
\* What popBuffer may return: a cached buffer if there is one.
Given(s) ==
  LET here == free \cap BuffersOf(s)
      cached == {b \in here : Cached(b)}
  IN IF cached # {} THEN cached ELSE here

\* setCurrentNodeIO, for the next output; it waits while there is no buffer.
Pop(t) ==
  /\ st[t] = "work" /\ Len(outp[t]) < Len(design[t].out[pos[t]])
  /\ \E b \in Given(design[t].out[pos[t]][Len(outp[t]) + 1]) :
       /\ free' = free \ {b}
       /\ users' = [users EXCEPT ![b] = IF Cached(b) THEN (@ + 1) % W ELSE 1]
       /\ popper' = [popper EXCEPT ![b] = t]
       /\ outp' = [outp EXCEPT ![t] = Append(@, b)]
  /\ UNCHANGED <<design, st, pos, inp, rel, managers, stopping>>

Popped(t) == st[t] = "work" /\ Len(outp[t]) = Len(design[t].out[pos[t]])

\* The first buffer of this name in the list.
FirstOf(s, list) ==
  LET named == {i \in DOMAIN list : list[i][1] = s}
  IN IF named = {} THEN NoBuffer ELSE list[CHOOSE i \in named : \A j \in named : i <= j]

\* What is found for each declared specification.
Found(ss, list) == [k \in DOMAIN ss |-> FirstOf(ss[k], list)]

\* mutant: markError releases the inputs only
InputsOnError(t, good) ==
  Found(design[t].in[pos[t]], inp[t])
    \o (IF good /\ pos[t] = Len(design[t].id) THEN Found(design[t].out[pos[t]], outp[t]) ELSE <<>>)

\* mutant: the outputs are released at every node
OutputsToo(t, good) ==
  Found(design[t].in[pos[t]], inp[t]) \o Found(design[t].out[pos[t]], outp[t])

\* markCurrentNodeReady releases the inputs, and at the last node the outputs
\* as well; so does markError at every node.
ToRelease(t, good) ==
  Found(design[t].in[pos[t]], inp[t])
    \o (IF good /\ pos[t] < Len(design[t].id) THEN <<>>
        ELSE Found(design[t].out[pos[t]], outp[t]))

\* The next node's inputs are this node's outputs, unless its identifier is
\* not positive: setCurrentNodeIO tests m_nextNodeId > 0.
NextInput(t) ==
  IF pos[t] < Len(design[t].id) /\ design[t].id[pos[t] + 1] > 0 THEN outp[t] ELSE <<>>

\* The callback returns; the task stands at its next node, or beyond the last
\* one, and its lists for that node are what this one put down.
Run(t) ==
  /\ Popped(t)
  /\ \E good \in BOOLEAN :
       /\ rel' = [rel EXCEPT ![t] = ToRelease(t, good)]
       /\ pos' = [pos EXCEPT ![t] = IF good THEN @ + 1 ELSE Len(design[t].id) + 1]
       /\ inp' = [inp EXCEPT ![t] = IF good THEN NextInput(t) ELSE <<>>]
  /\ outp' = [outp EXCEPT ![t] = <<>>]
  /\ st' = [st EXCEPT ![t] = "push"]
  /\ UNCHANGED <<design, bufVars, stopping>>

\* The callback throws: the packaged_task keeps the exception, and neither
\* markCurrentNodeReady nor markError is called.
Throw(t) ==
  /\ Popped(t)
  /\ st' = [st EXCEPT ![t] = "lost"]
  /\ UNCHANGED <<design, pos, inp, outp, rel, bufVars, stopping>>

\* A temporary buffer this task has freed: only it has a pointer to it.
Freed(t, b) == ~Cached(b) /\ (b \in free \/ popper[b] # t)

\* mutant: numOfUser is tested before it is decremented
PostDecremented(b) == users[b] = 0

LastUser(b) == users[b] = 1

\* pushBuffer of the next buffer to release; a specification none was found
\* for is logged and skipped.
Push(t) ==
  /\ st[t] = "push" /\ rel[t] # <<>>
  /\ LET b == Head(rel[t]) IN
       IF b = NoBuffer \/ Freed(t, b) THEN UNCHANGED <<free, users>>
       ELSE /\ users' = [users EXCEPT ![b] = (@ - 1) % W]
            /\ free' = IF LastUser(b) THEN free \cup {b} ELSE free
  /\ rel' = [rel EXCEPT ![t] = Tail(@)]
  /\ UNCHANGED <<design, st, pos, inp, outp, managers, popper, stopping>>

\* Everything is released, and the worker queues the task in the dispatcher,
\* whose ThreadLoop takes items until the workers are joined.
Pushed(t) ==
  /\ st[t] = "push" /\ rel[t] = <<>>
  /\ st' = [st EXCEPT ![t] = "dispatcher"]
  /\ UNCHANGED <<design, pos, inp, outp, rel, bufVars, stopping>>

Stop ==
  /\ ~stopping /\ stopping' = TRUE
  /\ UNCHANGED <<design, taskVars, bufVars>>

----------------------------------------------------------------------------
Process(t) == Pop(t) \/ Run(t) \/ Throw(t) \/ Push(t) \/ Pushed(t)

Next == Stop \/ \E t \in Tasks : Submit(t) \/ Dispatch(t) \/ Take(t) \/ Process(t)

Spec == Init /\ [][Next]_vars

\* Dispatcher and workers go on, callbacks return, and popBuffer gets a
\* buffer that stays available.  Nobody is obliged to submit or to stop.
Fairness == \A t \in Tasks : WF_vars(Dispatch(t) \/ Take(t) \/ Process(t))

FairSpec == Spec /\ Fairness

----------------------------------------------------------------------------
(* Properties. *)

Repeats(list) == \E i, j \in DOMAIN list : i < j /\ list[i] = list[j]

\* No node of any task declares a specification twice.
NoRepeats == \A t \in Tasks : \A k \in DOMAIN design[t].id :
               ~Repeats(design[t].in[k]) /\ ~Repeats(design[t].out[k])

InUse(t) == (Range(inp[t]) \cup Range(outp[t]) \cup Range(rel[t])) \ {NoBuffer}

\* An output that the next node is not given, its identifier not being
\* positive, or does not declare as input, and so does not return.
Stranded(d, s) ==
  \E k \in 1 .. Len(d.id) - 1 :
    s \in Range(d.out[k]) /\ (d.id[k + 1] <= 0 \/ s \notin Range(d.in[k + 1]))

(* A buffer a task popped is available again or in the task's lists, which   *)
(* are empty once the task was reported, after its last node or after a      *)
(* failing one.  So a task that an exception or stop() took out keeps what   *)
(* its lists had and no more; besides that only outputs the next node does   *)
(* not take stay out.  It is assumed that no node declares a name twice.     *)
BuffersAccounted ==
  NoRepeats => \A t \in Tasks : \A b \in Buffers : popper[b] = t =>
    \/ b \in free
    \/ b \in InUse(t) /\ st[t] # "over"
    \/ Stranded(design[t], b[1])

(* A buffer in a task's lists is in no other task's, and no manager can give *)
(* it away, whatever the tasks declare, as long as no node declares a name   *)
(* twice: released twice, it would be freed under the next task's hands.     *)
OneUser ==
  NoRepeats => \A t \in Tasks :
    /\ InUse(t) \cap free = {}
    /\ \A u \in Tasks \ {t} : InUse(t) \cap InUse(u) = {}

\* What a task has to return to the manager of a specification.
Shares(s) == [t \in Tasks |-> [b \in BuffersOf(s) |-> IF popper[b] = t THEN users[b] ELSE 0]]

Pool(s) == INSTANCE BufferPool
             WITH Users <- Tasks, Buffers <- BuffersOf(s), MaxQueue <- MaxQueue[s],
                  held <- Shares(s), closed <- FALSE

(* Tasks use every manager as a buffer pool is to be used: none returns a    *)
(* buffer it does not hold, and none is given one that is in use or more     *)
(* than maxQueueSize allow; unless a node declares a name twice.             *)
UsesPools ==
  /\ \A s \in Specs : Pool(s)!Init
  /\ [][NoRepeats => \A s \in Specs : [Pool(s)!Next]_(Pool(s)!vars)]_vars

\* Every output is declared as input of the next node, whose identifier is
\* positive.
Sound(d) == \A k \in 1 .. Len(d.id) - 1 : d.id[k + 1] > 0 /\ Range(d.out[k]) \subseteq Range(d.in[k + 1])

\* Every node pops later specifications than it holds.
Ascending(d) ==
  \A k \in DOMAIN d.id :
    LET list == (IF k > 1 THEN d.out[k - 1] ELSE <<>>) \o d.out[k]
    IN \A i, j \in DOMAIN list : i < j => list[i] < list[j]

\* Specifications whose buffers stay with a task between two nodes.
PassedOn(d) == UNION {Range(d.out[k]) : k \in 1 .. Len(d.id) - 1}

\* Too few tasks to occupy all workers and, between two nodes, all buffers.
Enough == \A t \in Tasks : \A s \in PassedOn(design[t]) : Cardinality(Tasks) < NumWorkers + MaxQueue[s]

Undisturbed == \A t \in Tasks : st[t] \notin {"lost", "dropped"}

(* Tasks that wait for buffers while they hold some get to their end, if     *)
(* they pop in one order and are too few to occupy every worker: unless a    *)
(* callback threw, or stop() left a task between two nodes; what such a task *)
(* holds never comes back, and a worker may wait for it for ever.            *)
TasksEnd ==
  \A t \in Tasks :
    (/\ st[t] = "dispatcher" /\ NoRepeats /\ Enough
     /\ \A u \in Tasks : Sound(design[u]) /\ Ascending(design[u]))
      ~> (st[t] = "over" \/ ~Undisturbed)
=============================================================================
