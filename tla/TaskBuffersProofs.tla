-------------------------- MODULE TaskBuffersProofs --------------------------
(***************************************************************************)
(* Proofs about TaskBuffers: no buffer is used by two tasks or given away   *)
(* while it is in use (BuffersUsedOnce), and what a task popped stays in    *)
(* its lists until it is returned (AllAccounted).  Both rest on who owns a  *)
(* buffer: the task whose lists have it is the last one that popped it and  *)
(* its only user.  So tasks use each manager as a BufferPool is to be used  *)
(* (PoolsUsed).                                                             *)
(***************************************************************************)
EXTENDS TaskBuffers, FiniteSetTheorems, WellFoundedInduction, TLAPS

States == {"new", "dispatcher", "pool", "work", "push", "over", "lost", "dropped"}

BufferTypes ==
  /\ design \in Mixes
  /\ st \in [Tasks -> States] /\ pos \in [Tasks -> Nat \ {0}]
  /\ inp \in [Tasks -> Seq(Buffers)] /\ outp \in [Tasks -> Seq(Buffers)]
  /\ rel \in [Tasks -> Seq(Buffers \cup {NoBuffer})]
  /\ managers \subseteq Specs /\ free \subseteq Buffers
  /\ users \in [Buffers -> Nat] /\ popper \in [Buffers -> Tasks \cup {NoTask}]

\* Where a task is on its path, and which lists it can have there.
Stages ==
  \A t \in Tasks :
    /\ st[t] \in {"pool", "work", "lost", "dropped"} => ~Over(t)
    /\ st[t] = "over" => Over(t)
    /\ outp[t] # <<>> => st[t] \in {"work", "lost"}
    /\ rel[t] # <<>> => st[t] = "push"

\* What a manager can give belongs to it and has no user; so have the buffers
\* of a manager that does not exist yet.
Managed ==
  /\ \A b \in free : b[1] \in managers
  /\ \A b \in Buffers : b \in free \/ b[1] \notin managers => users[b] = 0

\* A task is the only user of what it has in its lists, and popped it.
Owned ==
  \A t \in Tasks : \A b \in InUse(t) :
    b \notin free /\ b[1] \in managers /\ users[b] = 1 /\ popper[b] = t

\* A buffer is once in a task's lists.
Once ==
  \A t \in Tasks :
    /\ Range(inp[t]) \cap (Range(outp[t]) \cup Range(rel[t])) = {}
    /\ \A i, j \in DOMAIN rel[t] : rel[t][i] = rel[t][j] /\ rel[t][i] # NoBuffer => i = j

UseInv == NoRepeats => Managed /\ Owned /\ Once

\* No two buffers of a list have the same name.
OfDistinctNames(list) == \A i, j \in DOMAIN list : list[i][1] = list[j][1] => i = j

\* What a task put down for its current node are inputs the node declares,
\* or outputs that stay out.
InputsDeclared(t) ==
  inp[t] # <<>> =>
    /\ ~Over(t) /\ OfDistinctNames(inp[t])
    /\ \A i \in DOMAIN inp[t] : \/ inp[t][i][1] \in Range(design[t].in[pos[t]])
                                \/ Stranded(design[t], inp[t][i][1])

\* The outputs are popped as they are declared.
OutputsDeclared(t) ==
  st[t] = "work" =>
    /\ Len(outp[t]) <= Len(design[t].out[pos[t]])
    /\ \A i \in DOMAIN outp[t] : outp[t][i][1] = design[t].out[pos[t]][i]

\* What a task popped and did not return is in its lists, or stays out.
AllListed(t) ==
  \A b \in Buffers : popper[b] = t => b \in free \/ b \in InUse(t) \/ Stranded(design[t], b[1])

HeldInv ==
  NoRepeats => \A t \in Tasks : InputsDeclared(t) /\ OutputsDeclared(t) /\ AllListed(t)

BufferInv == BufferTypes /\ Stages /\ UseInv /\ HeldInv

----------------------------------------------------------------------------
(* What releaseCurrentNodeBuffer finds. *)

(* A set of numbers has a least element.                                     *)
LEMMA LeastOf ==
  ASSUME NEW T \in SUBSET Nat, T # {}
  PROVE  \E x \in T : \A y \in T : x <= y
<1> DEFINE R == {p \in Nat \X Nat : p[1] < p[2]}
<1>1. IsWellFoundedOn(OpToRel(<, Nat), Nat)
  BY NatLessThanWellFounded
<1>2. IsWellFoundedOn(R, Nat)
  BY <1>1 DEF OpToRel
<1>3. ASSUME NEW x \in Nat, NEW y \in Nat, <<y, x>> \notin R PROVE x <= y
  BY <1>3
<1> HIDE DEF R
<1>4. \E x \in T : \A y \in T : <<y, x>> \notin R
  BY <1>2, WFMin
<1> QED BY <1>3, <1>4

(* NoBuffer is not a buffer.                                                 *)
LEMMA NotABuffer == NoBuffer \notin Buffers
<1> SUFFICES ASSUME NEW s \in Specs, NoBuffer \in BuffersOf(s) PROVE FALSE
  BY DEF Buffers
<1>1. NoBuffer[2] \in 1 .. MaxQueue[s] /\ NoBuffer[2] = 0
  BY DEF BuffersOf, NoBuffer
<1> QED BY <1>1

(* A specification is found if a buffer of the list has its name.            *)
LEMMA FirstFound ==
  ASSUME NEW list \in Seq(Buffers), NEW s
  PROVE  \/ FirstOf(s, list) = NoBuffer /\ \A i \in DOMAIN list : list[i][1] # s
         \/ \E i \in DOMAIN list : FirstOf(s, list) = list[i] /\ list[i][1] = s
<1> DEFINE T == {i \in DOMAIN list : list[i][1] = s}
<1>1. CASE T = {}
  BY <1>1 DEF FirstOf
<1>2. CASE T # {}
  <2>1. T \in SUBSET Nat
    OBVIOUS
  <2>2. \E i \in T : \A j \in T : i <= j
    <3> HIDE DEF T
    <3> QED BY <1>2, <2>1, LeastOf
  <2>3. (CHOOSE i \in T : \A j \in T : i <= j) \in T
    BY <2>2
  <2>4. FirstOf(s, list) = list[CHOOSE i \in T : \A j \in T : i <= j]
    BY <1>2 DEF FirstOf
  <2> QED BY <2>3, <2>4
<1> QED BY <1>1, <1>2

(* What is found are buffers of the list, each once if no name is declared   *)
(* twice.                                                                    *)
LEMMA FoundOnce ==
  ASSUME NEW list \in Seq(Buffers), NEW ss \in Seq(Specs)
  PROVE  /\ Found(ss, list) \in Seq(Buffers \cup {NoBuffer})
         /\ Range(Found(ss, list)) \subseteq Range(list) \cup {NoBuffer}
         /\ ~Repeats(ss) => \A i, j \in DOMAIN Found(ss, list) :
              Found(ss, list)[i] = Found(ss, list)[j] /\ Found(ss, list)[i] # NoBuffer => i = j
<1> DEFINE F == Found(ss, list)
<1>1. DOMAIN F = 1 .. Len(ss) /\ Len(ss) \in Nat /\ \A k \in 1 .. Len(ss) : F[k] = FirstOf(ss[k], list)
  BY DEF Found
<1>2. F = [k \in 1 .. Len(ss) |-> F[k]]
  BY DEF Found
<1>3. \A k \in 1 .. Len(ss) : \/ F[k] = NoBuffer
                              \/ F[k] \in Range(list) /\ F[k][1] = ss[k] /\ F[k] \in Buffers
  BY <1>1, FirstFound DEF Range
<1> HIDE DEF F
<1>4. F \in Seq(Buffers \cup {NoBuffer})
  <2>1. \A k \in 1 .. Len(ss) : F[k] \in Buffers \cup {NoBuffer}
    BY <1>3
  <2> DEFINE n == Len(ss)
             S == Buffers \cup {NoBuffer}
  <2>2. n \in Nat /\ F \in [1 .. n -> S]
    BY <1>1, <1>2, <2>1
  <2> HIDE DEF n, S
  <2>3. F \in Seq(S)
    BY <2>2
  <2> QED BY <2>3 DEF S
<1>5. Range(F) \subseteq Range(list) \cup {NoBuffer}
  BY <1>1, <1>3 DEF Range
<1>6. ASSUME ~Repeats(ss), NEW i \in DOMAIN F, NEW j \in DOMAIN F, F[i] = F[j], F[i] # NoBuffer
      PROVE  i = j
  <2>1. i \in DOMAIN ss /\ j \in DOMAIN ss /\ ss[i] = ss[j] /\ i \in Nat /\ j \in Nat
    BY <1>1, <1>3, <1>6
  <2> QED BY <1>6, <2>1 DEF Repeats
<1> QED BY <1>4, <1>5, <1>6 DEF F

(* A buffer of the list is found if its name is declared, and names differ.  *)
LEMMA FoundDeclared ==
  ASSUME NEW list \in Seq(Buffers), NEW ss \in Seq(Specs), OfDistinctNames(list),
         NEW i \in DOMAIN list, list[i][1] \in Range(ss)
  PROVE  list[i] \in Range(Found(ss, list))
<1>1. PICK k \in DOMAIN ss : ss[k] = list[i][1]
  BY DEF Range
<1>2. FirstOf(ss[k], list) = list[i]
  BY <1>1, FirstFound DEF OfDistinctNames
<1> QED BY <1>1, <1>2 DEF Found, Range

(* Two lists one after the other have what they have, each once if they      *)
(* have nothing in common.                                                   *)
LEMMA Joined ==
  ASSUME NEW S, NEW p \in Seq(S), NEW q \in Seq(S)
  PROVE  /\ p \o q \in Seq(S) /\ Range(p \o q) = Range(p) \cup Range(q)
         /\ (/\ \A i, j \in DOMAIN p : p[i] = p[j] /\ p[i] # NoBuffer => i = j
             /\ \A i, j \in DOMAIN q : q[i] = q[j] /\ q[i] # NoBuffer => i = j
             /\ Range(p) \cap Range(q) \subseteq {NoBuffer})
            => \A i, j \in DOMAIN (p \o q) : (p \o q)[i] = (p \o q)[j] /\ (p \o q)[i] # NoBuffer => i = j
<1> DEFINE r == p \o q
<1>1. PICK m \in Nat : m = Len(p) /\ DOMAIN p = 1 .. m
  OBVIOUS
<1>2. PICK n \in Nat : n = Len(q) /\ DOMAIN q = 1 .. n
  OBVIOUS
<1>3. /\ DOMAIN r = 1 .. m + n /\ \A i \in 1 .. m : r[i] = p[i]
      /\ \A i \in 1 .. n : r[m + i] = q[i]
  BY <1>1, <1>2
<1>4. r \in Seq(S)
  OBVIOUS
<1> HIDE DEF r
<1>5. \A i \in DOMAIN r : (i \in 1 .. m /\ r[i] = p[i]) \/ (i - m \in 1 .. n /\ r[i] = q[i - m] /\ i > m)
  <2> TAKE i \in DOMAIN r
  <2>1. CASE i <= m
    BY <1>3, <2>1
  <2>2. CASE i > m
    <3>1. i \in 1 .. m + n /\ i - m \in 1 .. n /\ m + (i - m) = i
      BY <1>3, <2>2
    <3> QED BY <1>3, <2>2, <3>1
  <2> QED BY <1>3, <2>1, <2>2
<1>6. Range(r) = Range(p) \cup Range(q)
  <2>1. Range(r) \subseteq Range(p) \cup Range(q)
    BY <1>1, <1>2, <1>5 DEF Range
  <2>2. Range(p) \subseteq Range(r)
    BY <1>1, <1>3 DEF Range
  <2>3. \A k \in 1 .. n : m + k \in 1 .. m + n
    OBVIOUS
  <2>4. Range(q) \subseteq Range(r)
    BY <1>2, <1>3, <2>3 DEF Range
  <2> QED BY <2>1, <2>2, <2>4
<1>7. ASSUME \A i, j \in DOMAIN p : p[i] = p[j] /\ p[i] # NoBuffer => i = j,
             \A i, j \in DOMAIN q : q[i] = q[j] /\ q[i] # NoBuffer => i = j,
             Range(p) \cap Range(q) \subseteq {NoBuffer},
             NEW i \in DOMAIN r, NEW j \in DOMAIN r, r[i] = r[j], r[i] # NoBuffer
      PROVE  i = j
  <2>0. i \in Nat /\ j \in Nat
    BY <1>3
  <2>1. CASE i \in 1 .. m /\ j \in 1 .. m /\ r[i] = p[i] /\ r[j] = p[j]
    BY <1>1, <1>7, <2>1
  <2>2. CASE i - m \in 1 .. n /\ j - m \in 1 .. n /\ r[i] = q[i - m] /\ r[j] = q[j - m]
    <3>1. i - m = j - m
      BY <1>2, <1>7, <2>2
    <3> QED BY <2>0, <3>1
  <2>3. CASE i \in 1 .. m /\ r[i] = p[i] /\ j - m \in 1 .. n /\ r[j] = q[j - m]
    BY <1>1, <1>2, <1>7, <2>3 DEF Range
  <2>4. CASE j \in 1 .. m /\ r[j] = p[j] /\ i - m \in 1 .. n /\ r[i] = q[i - m]
    BY <1>1, <1>2, <1>7, <2>4 DEF Range
  <2> QED BY <1>5, <2>1, <2>2, <2>3, <2>4
<1> QED BY <1>4, <1>6, <1>7 DEF r

----------------------------------------------------------------------------
(* Types and stages. *)

(* What a task declares at a position of its path are specifications.        *)
LEMMA DesignTypes ==
  ASSUME BufferTypes, NEW t \in Tasks
  PROVE  /\ Len(design[t].id) \in Nat /\ DOMAIN design[t].id = 1 .. Len(design[t].id)
         /\ \A k \in 1 .. Len(design[t].id) :
              design[t].in[k] \in Seq(Specs) /\ design[t].out[k] \in Seq(Specs)
<1>1. /\ design[t].id \in Seq(Int) /\ design[t].in \in Seq(Seq(Specs))
      /\ design[t].out \in Seq(Seq(Specs))
      /\ Len(design[t].in) = Len(design[t].id) /\ Len(design[t].out) = Len(design[t].id)
  BY TaskBuffersAssumption DEF BufferTypes
<1> DEFINE ids == design[t].id
           ins == design[t].in
           outs == design[t].out
           S == Seq(Specs)
<1>2. ids \in Seq(Int) /\ ins \in Seq(S) /\ outs \in Seq(S) /\ Len(ins) = Len(ids) /\ Len(outs) = Len(ids)
  BY <1>1
<1> HIDE DEF ids, ins, outs, S
<1>3. /\ Len(ids) \in Nat /\ DOMAIN ids = 1 .. Len(ids)
      /\ \A k \in 1 .. Len(ids) : ins[k] \in S /\ outs[k] \in S
  BY <1>2
<1> QED BY <1>3 DEF ids, ins, outs, S

(* What a node's return releases and puts down are buffers of the task's     *)
(* lists, none of them twice.                                                *)
LEMMA Returned ==
  ASSUME BufferTypes, NEW t \in Tasks, ~Over(t), NEW good \in BOOLEAN
  PROVE  /\ ToRelease(t, good) \in Seq(Buffers \cup {NoBuffer}) /\ NextInput(t) \in Seq(Buffers)
         /\ Range(ToRelease(t, good)) \subseteq Range(inp[t]) \cup Range(outp[t]) \cup {NoBuffer}
         /\ Range(NextInput(t)) \subseteq Range(outp[t])
         /\ IF good /\ pos[t] < Len(design[t].id)
            THEN Range(ToRelease(t, good)) \subseteq Range(inp[t]) \cup {NoBuffer}
            ELSE good => NextInput(t) = <<>>
         /\ NoRepeats /\ Range(inp[t]) \cap Range(outp[t]) = {} =>
              \A i, j \in DOMAIN ToRelease(t, good) :
                /\ ToRelease(t, good)[i] = ToRelease(t, good)[j]
                /\ ToRelease(t, good)[i] # NoBuffer
                => i = j
<1> DEFINE ins == design[t].in[pos[t]]
           outs == design[t].out[pos[t]]
           p == Found(ins, inp[t])
           q == Found(outs, outp[t])
           S == Buffers \cup {NoBuffer}
<1>1. pos[t] \in Nat \ {0} /\ inp[t] \in Seq(Buffers) /\ outp[t] \in Seq(Buffers)
  BY DEF BufferTypes
<1>2. pos[t] \in 1 .. Len(design[t].id) /\ pos[t] \in DOMAIN design[t].id
  BY <1>1, DesignTypes DEF Over
<1>3. ins \in Seq(Specs) /\ outs \in Seq(Specs)
  BY <1>2, DesignTypes
<1>4. NoRepeats => ~Repeats(ins) /\ ~Repeats(outs)
  BY <1>2 DEF NoRepeats
<1> HIDE DEF ins, outs
<1>5. /\ p \in Seq(S) /\ Range(p) \subseteq Range(inp[t]) \cup {NoBuffer}
      /\ NoRepeats => \A i, j \in DOMAIN p : p[i] = p[j] /\ p[i] # NoBuffer => i = j
  BY <1>1, <1>3, <1>4, FoundOnce
<1>6. /\ q \in Seq(S) /\ Range(q) \subseteq Range(outp[t]) \cup {NoBuffer}
      /\ NoRepeats => \A i, j \in DOMAIN q : q[i] = q[j] /\ q[i] # NoBuffer => i = j
  BY <1>1, <1>3, <1>4, FoundOnce
<1>7. <<>> \in Seq(S) /\ <<>> \in Seq(Buffers) /\ Range(<<>>) = {} /\ DOMAIN <<>> = {}
  BY DEF Range
<1>8. NextInput(t) \in Seq(Buffers) /\ Range(NextInput(t)) \subseteq Range(outp[t])
      /\ (~(pos[t] < Len(design[t].id)) => NextInput(t) = <<>>)
  BY <1>1, <1>7 DEF NextInput
<1> DEFINE last == IF good /\ pos[t] < Len(design[t].id) THEN <<>> ELSE q
<1>9. ToRelease(t, good) = p \o last
  BY DEF ToRelease, ins, outs
<1> HIDE DEF p, q, S
<1>10. /\ last \in Seq(S) /\ Range(last) \subseteq Range(outp[t]) \cup {NoBuffer}
       /\ (good /\ pos[t] < Len(design[t].id) => Range(last) = {})
       /\ NoRepeats => \A i, j \in DOMAIN last : last[i] = last[j] /\ last[i] # NoBuffer => i = j
  BY <1>6, <1>7
<1> HIDE DEF last
<1>11. /\ p \o last \in Seq(S) /\ Range(p \o last) = Range(p) \cup Range(last)
       /\ (/\ \A i, j \in DOMAIN p : p[i] = p[j] /\ p[i] # NoBuffer => i = j
           /\ \A i, j \in DOMAIN last : last[i] = last[j] /\ last[i] # NoBuffer => i = j
           /\ Range(p) \cap Range(last) \subseteq {NoBuffer})
          => \A i, j \in DOMAIN (p \o last) :
               (p \o last)[i] = (p \o last)[j] /\ (p \o last)[i] # NoBuffer => i = j
  BY <1>5, <1>10, Joined
<1>12. Range(inp[t]) \cap Range(outp[t]) = {} => Range(p) \cap Range(last) \subseteq {NoBuffer}
  BY <1>5, <1>10
<1>13. S = Buffers \cup {NoBuffer}
  BY DEF S
<1> HIDE DEF p, last, S
<1>14. ToRelease(t, good) \in Seq(Buffers \cup {NoBuffer})
  BY <1>9, <1>11, <1>13
<1>15. NoRepeats /\ Range(inp[t]) \cap Range(outp[t]) = {} =>
         \A i, j \in DOMAIN ToRelease(t, good) :
           ToRelease(t, good)[i] = ToRelease(t, good)[j] /\ ToRelease(t, good)[i] # NoBuffer => i = j
  BY <1>5, <1>9, <1>10, <1>11, <1>12
<1> QED BY <1>5, <1>8, <1>9, <1>10, <1>11, <1>14, <1>15

(* Types and stages are kept.                                                *)
LEMMA StagesStep == ASSUME BufferTypes, Stages, [Next]_vars PROVE BufferTypes' /\ Stages'
<1> USE DEF taskVars, bufVars
<1>1. ASSUME NEW t \in Tasks, Submit(t) PROVE BufferTypes' /\ Stages'
  <2>1. Created(Declared(design[t])) \subseteq Specs
    <3>1. \A k \in DOMAIN design[t].id :
            Range(design[t].in[k]) \subseteq Specs /\ Range(design[t].out[k]) \subseteq Specs
      BY DesignTypes DEF Range
    <3> QED BY <3>1 DEF Created, Declared
  <2>2. UNION {BuffersOf(s) : s \in Created(Declared(design[t]))} \subseteq Buffers
    BY <2>1 DEF Buffers
  <2>3. managers' \subseteq Specs /\ free' \subseteq Buffers
    BY <1>1, <2>1, <2>2 DEF Submit, BufferTypes
  <2>4. st' \in [Tasks -> States] /\ UNCHANGED <<design, pos, inp, outp, rel, users, popper>>
    BY <1>1 DEF Submit, BufferTypes, States
  <2>5. BufferTypes'
    BY <2>3, <2>4 DEF BufferTypes
  <2>6. Stages'
    BY <1>1, <2>4 DEF Submit, Stages, Over, BufferTypes
  <2> QED BY <2>5, <2>6
<1>2. ASSUME NEW t \in Tasks, Dispatch(t) \/ Take(t) \/ Throw(t) \/ Pushed(t)
      PROVE  BufferTypes' /\ Stages'
  <2>1. UNCHANGED <<design, pos, inp, outp, rel, bufVars>>
    BY <1>2 DEF Dispatch, Take, Throw, Pushed
  <2>2. st' \in [Tasks -> States]
    BY <1>2 DEF Dispatch, Take, Throw, Pushed, BufferTypes, States
  <2>3. BufferTypes'
    BY <2>1, <2>2 DEF BufferTypes
  <2>4. Stages'
    BY <1>2, <2>1 DEF Dispatch, Take, Throw, Pushed, Popped, Stages, Over, BufferTypes
  <2> QED BY <2>3, <2>4
<1>3. ASSUME NEW t \in Tasks, Pop(t) PROVE BufferTypes' /\ Stages'
  <2>1. PICK b \in Given(design[t].out[pos[t]][Len(outp[t]) + 1]) :
          /\ free' = free \ {b}
          /\ users' = [users EXCEPT ![b] = IF Cached(b) THEN (@ + 1) % W ELSE 1]
          /\ popper' = [popper EXCEPT ![b] = t]
          /\ outp' = [outp EXCEPT ![t] = Append(@, b)]
    BY <1>3 DEF Pop
  <2>2. b \in Buffers /\ st[t] = "work" /\ UNCHANGED <<design, st, pos, inp, rel, managers>>
    BY <1>3, <2>1 DEF Pop, Given, BufferTypes
  <2>3. users' \in [Buffers -> Nat]
    <3>1. PICK x \in Nat : x = users[b]
      BY <2>2 DEF BufferTypes
    <3>2. (x + 1) % W \in Nat
      BY <3>1, TaskBuffersAssumption
    <3>3. users' = [users EXCEPT ![b] = IF Cached(b) THEN (x + 1) % W ELSE 1]
      BY <2>1, <3>1
    <3> QED BY <2>2, <3>2, <3>3 DEF BufferTypes
  <2>4. outp' \in [Tasks -> Seq(Buffers)] /\ popper' \in [Buffers -> Tasks \cup {NoTask}] /\ free' \subseteq Buffers
    BY <2>1, <2>2 DEF BufferTypes
  <2>5. BufferTypes'
    BY <2>2, <2>3, <2>4 DEF BufferTypes
  <2>6. Stages'
    BY <2>1, <2>2 DEF Stages, Over, BufferTypes
  <2> QED BY <2>5, <2>6
<1>4. ASSUME NEW t \in Tasks, Run(t) PROVE BufferTypes' /\ Stages'
  <2>1. PICK good \in BOOLEAN :
          /\ rel' = [rel EXCEPT ![t] = ToRelease(t, good)]
          /\ pos' = [pos EXCEPT ![t] = IF good THEN @ + 1 ELSE Len(design[t].id) + 1]
          /\ inp' = [inp EXCEPT ![t] = IF good THEN NextInput(t) ELSE <<>>]
    BY <1>4 DEF Run
  <2>2. /\ st[t] = "work" /\ outp' = [outp EXCEPT ![t] = <<>>] /\ st' = [st EXCEPT ![t] = "push"]
        /\ UNCHANGED <<design, bufVars>>
    BY <1>4 DEF Run, Popped
  <2>3. ~Over(t)
    BY <2>2 DEF Stages
  <2>4. ToRelease(t, good) \in Seq(Buffers \cup {NoBuffer}) /\ NextInput(t) \in Seq(Buffers)
    BY <2>3, Returned
  <2>5. Len(design[t].id) \in Nat
    BY DesignTypes
  <2>6. rel' \in [Tasks -> Seq(Buffers \cup {NoBuffer})] /\ inp' \in [Tasks -> Seq(Buffers)]
    <3>1. <<>> \in Seq(Buffers)
      OBVIOUS
    <3> QED BY <2>1, <2>4, <3>1 DEF BufferTypes
  <2>7. pos' \in [Tasks -> Nat \ {0}]
    BY <2>1, <2>5 DEF BufferTypes
  <2>8. outp' \in [Tasks -> Seq(Buffers)] /\ st' \in [Tasks -> States]
    BY <2>2 DEF BufferTypes, States
  <2>9. BufferTypes'
    BY <2>2, <2>6, <2>7, <2>8 DEF BufferTypes
  <2>10. Stages'
    BY <2>1, <2>2 DEF Stages, Over, BufferTypes
  <2> QED BY <2>9, <2>10
<1>5. ASSUME NEW t \in Tasks, Push(t) PROVE BufferTypes' /\ Stages'
  <2>1. rel[t] \in Seq(Buffers \cup {NoBuffer}) /\ rel[t] # <<>> /\ st[t] = "push"
    BY <1>5 DEF Push, BufferTypes
  <2>2. Head(rel[t]) \in Buffers \cup {NoBuffer} /\ Tail(rel[t]) \in Seq(Buffers \cup {NoBuffer})
    BY <2>1
  <2>3. /\ rel' = [rel EXCEPT ![t] = Tail(@)]
        /\ UNCHANGED <<design, st, pos, inp, outp, managers, popper>>
    BY <1>5 DEF Push
  <2>4. free' \subseteq Buffers /\ users' \in [Buffers -> Nat]
    <3>1. CASE UNCHANGED <<free, users>>
      BY <3>1 DEF BufferTypes
    <3>2. CASE /\ Head(rel[t]) # NoBuffer
               /\ users' = [users EXCEPT ![Head(rel[t])] = (@ - 1) % W]
               /\ free' \subseteq free \cup {Head(rel[t])}
      BY <2>2, <3>2, TaskBuffersAssumption DEF BufferTypes
    <3> QED BY <1>5, <3>1, <3>2 DEF Push
  <2>5. rel' \in [Tasks -> Seq(Buffers \cup {NoBuffer})]
    BY <2>2, <2>3 DEF BufferTypes
  <2>6. BufferTypes'
    BY <2>3, <2>4, <2>5 DEF BufferTypes
  <2>7. Stages'
    BY <2>1, <2>3 DEF Stages, Over, BufferTypes
  <2> QED BY <2>6, <2>7
<1>6. ASSUME Stop \/ UNCHANGED vars PROVE BufferTypes' /\ Stages'
  BY <1>6 DEF Stop, vars, BufferTypes, Stages, Over
<1> QED BY <1>1, <1>2, <1>3, <1>4, <1>5, <1>6 DEF Next, Process

----------------------------------------------------------------------------
(* Who uses a buffer. *)

(* What is in a task's lists are buffers.                                    *)
LEMMA InUseBuffers == ASSUME BufferTypes, NEW t \in Tasks PROVE InUse(t) \subseteq Buffers
BY DEF InUse, BufferTypes, Range

(* The first buffer to release is not among the others, nor in other lists.  *)
LEMMA HeadOnce ==
  ASSUME BufferTypes, Stages, Once, NEW t \in Tasks, Push(t)
  PROVE  /\ Head(rel[t]) \in Range(rel[t]) /\ Range(rel[t]) = {Head(rel[t])} \cup Range(Tail(rel[t]))
         /\ Head(rel[t]) # NoBuffer =>
              Head(rel[t]) \notin Range(inp[t]) \cup Range(outp[t]) \cup Range(Tail(rel[t]))
         /\ \A i, j \in DOMAIN Tail(rel[t]) :
              Tail(rel[t])[i] = Tail(rel[t])[j] /\ Tail(rel[t])[i] # NoBuffer => i = j
<1> DEFINE l == rel[t]
<1>1. l \in Seq(Buffers \cup {NoBuffer}) /\ l # <<>> /\ outp[t] = <<>>
  BY DEF BufferTypes, Push, Stages
<1>2. \A i, j \in DOMAIN l : l[i] = l[j] /\ l[i] # NoBuffer => i = j
  BY DEF Once
<1>3. Range(inp[t]) \cap Range(l) = {}
  BY DEF Once
<1> HIDE DEF l
<1>4. PICK n \in Nat : n = Len(l) /\ DOMAIN l = 1 .. n /\ n > 0
  BY <1>1
<1>5. Head(l) = l[1] /\ DOMAIN Tail(l) = 1 .. n - 1 /\ \A i \in 1 .. n - 1 : Tail(l)[i] = l[i + 1]
  BY <1>1, <1>4
<1>6. 1 \in 1 .. n /\ \A i \in 1 .. n - 1 : i + 1 \in 1 .. n /\ i + 1 # 1
  BY <1>4
<1>7. Head(l) \in Range(l)
  BY <1>4, <1>5, <1>6 DEF Range
<1>8. Range(l) = {Head(l)} \cup Range(Tail(l))
  <2>1. Range(Tail(l)) \subseteq Range(l)
    BY <1>4, <1>5, <1>6 DEF Range
  <2>2. ASSUME NEW i \in 1 .. n PROVE l[i] \in {Head(l)} \cup Range(Tail(l))
    <3>1. i = 1 \/ (i - 1 \in 1 .. n - 1 /\ (i - 1) + 1 = i)
      BY <1>4
    <3> QED BY <1>5, <3>1 DEF Range
  <2> QED BY <1>4, <1>7, <2>1, <2>2 DEF Range
<1>9. Head(l) # NoBuffer => Head(l) \notin Range(Tail(l))
  BY <1>2, <1>4, <1>5, <1>6 DEF Range
<1>10. Range(outp[t]) = {}
  BY <1>1 DEF Range
<1>11. ASSUME NEW i \in DOMAIN Tail(l), NEW j \in DOMAIN Tail(l), Tail(l)[i] = Tail(l)[j],
              Tail(l)[i] # NoBuffer
       PROVE  i = j
  <2>1. i + 1 = j + 1 /\ i \in Nat /\ j \in Nat
    BY <1>2, <1>4, <1>5, <1>6, <1>11
  <2> QED BY <2>1
<1> QED BY <1>3, <1>7, <1>8, <1>9, <1>10, <1>11 DEF l

(* The one user of a buffer that is returned is its last one.                *)
LEMMA PushFrees ==
  ASSUME BufferTypes, Stages, Managed, Owned, Once, NEW t \in Tasks, Push(t), Head(rel[t]) # NoBuffer
  PROVE  /\ Head(rel[t]) \in Buffers /\ Head(rel[t]) \in InUse(t)
         /\ free' = free \cup {Head(rel[t])} /\ users' = [users EXCEPT ![Head(rel[t])] = 0]
<1>1. Head(rel[t]) \in InUse(t)
  BY HeadOnce DEF InUse
<1>2. Head(rel[t]) \in Buffers
  BY <1>1, InUseBuffers
<1>3. Head(rel[t]) \notin free /\ users[Head(rel[t])] = 1 /\ popper[Head(rel[t])] = t
  BY <1>1 DEF Owned
<1>4. ~Freed(t, Head(rel[t])) /\ LastUser(Head(rel[t]))
  BY <1>3 DEF Freed, LastUser
<1>5. (1 - 1) % W = 0
  BY TaskBuffersAssumption
<1>6. users' = [users EXCEPT ![Head(rel[t])] = (1 - 1) % W]
  BY <1>3, <1>4 DEF Push
<1> QED BY <1>1, <1>2, <1>4, <1>5, <1>6 DEF Push

(* A first user is counted, since numOfUser has more than one value.         *)
LEMMA OneModulo == ASSUME NEW w \in Nat \ {0, 1} PROVE (0 + 1) % w = 1
<1> DEFINE q == 1 \div w
           r == 1 % w
<1>1. q \in Int /\ r \in 0 .. w - 1 /\ 1 = w * q + r
  OBVIOUS
<1> HIDE DEF q, r
<1>2. CASE q = 0
  BY <1>1, <1>2
<1>3. CASE q >= 1
  <2>1. w * q >= w
    BY <1>1, <1>3
  <2> QED BY <1>1, <2>1
<1>4. CASE q <= -1
  <2>1. w * q <= -w
    BY <1>1, <1>4
  <2> QED BY <1>1, <2>1
<1>5. r = 1
  BY <1>1, <1>2, <1>3, <1>4
<1> QED BY <1>5 DEF r

(* popBuffer gives a buffer nobody uses, and the task is its user.           *)
LEMMA PopGives ==
  ASSUME BufferTypes, Managed, Owned, NEW t \in Tasks, Pop(t)
  PROVE  \E b \in free :
           /\ b \in BuffersOf(design[t].out[pos[t]][Len(outp[t]) + 1]) /\ b \in Buffers
           /\ free' = free \ {b} /\ users' = [users EXCEPT ![b] = 1]
           /\ popper' = [popper EXCEPT ![b] = t] /\ outp' = [outp EXCEPT ![t] = Append(@, b)]
           /\ Range(outp'[t]) = Range(outp[t]) \cup {b}
           /\ \A u \in Tasks : b \notin InUse(u)
<1>1. PICK b \in Given(design[t].out[pos[t]][Len(outp[t]) + 1]) :
        /\ free' = free \ {b}
        /\ users' = [users EXCEPT ![b] = IF Cached(b) THEN (@ + 1) % W ELSE 1]
        /\ popper' = [popper EXCEPT ![b] = t]
        /\ outp' = [outp EXCEPT ![t] = Append(@, b)]
  BY DEF Pop
<1>2. b \in free /\ b \in BuffersOf(design[t].out[pos[t]][Len(outp[t]) + 1]) /\ b \in Buffers
  BY <1>1 DEF Given, BufferTypes
<1>3. users[b] = 0
  BY <1>2 DEF Managed
<1>4. (0 + 1) % W = 1
  BY TaskBuffersAssumption, OneModulo
<1>5. users' = [users EXCEPT ![b] = 1]
  BY <1>1, <1>3, <1>4
<1>6. Range(outp'[t]) = Range(outp[t]) \cup {b}
  <2> DEFINE l == outp[t]
  <2>1. l \in Seq(Buffers) /\ outp'[t] = Append(l, b)
    BY <1>1 DEF BufferTypes
  <2> HIDE DEF l
  <2>2. PICK n \in Nat : n = Len(l) /\ DOMAIN l = 1 .. n
    BY <2>1
  <2>3. /\ DOMAIN Append(l, b) = 1 .. n + 1 /\ Append(l, b)[n + 1] = b
        /\ \A i \in 1 .. n : Append(l, b)[i] = l[i]
    BY <2>1, <2>2
  <2>4. \A i \in 1 .. n + 1 : i \in 1 .. n \/ i = n + 1
    BY <2>2
  <2>5. 1 .. n \subseteq 1 .. n + 1 /\ n + 1 \in 1 .. n + 1
    BY <2>2
  <2>6. Range(Append(l, b)) = Range(l) \cup {b}
    BY <2>2, <2>3, <2>4, <2>5 DEF Range
  <2> QED BY <2>1, <2>6 DEF l
<1>7. \A u \in Tasks : b \notin InUse(u)
  BY <1>2 DEF Owned
<1> QED BY <1>1, <1>2, <1>5, <1>6, <1>7

(* Every step leaves one user to what is in use.                             *)
LEMMA UseStep ==
  ASSUME BufferTypes, Stages, UseInv, [Next]_vars PROVE UseInv'
<1> USE DEF taskVars, bufVars
<1>0. design' = design
  BY DEF Next, Process, vars, Submit, Dispatch, Take, Pop, Run, Throw, Push, Pushed, Stop
<1> SUFFICES ASSUME NoRepeats PROVE (Managed /\ Owned /\ Once)'
  BY <1>0 DEF UseInv, NoRepeats
<1>a. Managed /\ Owned /\ Once
  BY DEF UseInv
<1>1. ASSUME UNCHANGED <<inp, outp, rel, bufVars>> PROVE (Managed /\ Owned /\ Once)'
  BY <1>a, <1>1 DEF Managed, Owned, Once, InUse
<1>2. ASSUME NEW t \in Tasks, Submit(t) PROVE (Managed /\ Owned /\ Once)'
  <2> DEFINE new == Created(Declared(design[t]))
  <2>1. /\ managers' = managers \cup new /\ free' = free \cup UNION {BuffersOf(s) : s \in new}
        /\ UNCHANGED <<inp, outp, rel, users, popper>>
    BY <1>2 DEF Submit
  <2>2. new \cap managers = {}
    BY DEF Created
  <2> HIDE DEF new
  <2>3. \A b \in UNION {BuffersOf(s) : s \in new} : b[1] \in new
    BY DEF BuffersOf
  <2>4. Managed'
    BY <1>a, <2>1, <2>2, <2>3 DEF Managed
  <2>5. Owned'
    BY <1>a, <2>1, <2>2, <2>3 DEF Owned, InUse
  <2> QED BY <1>a, <2>1, <2>4, <2>5 DEF Once
<1>3. ASSUME NEW t \in Tasks, Pop(t) PROVE (Managed /\ Owned /\ Once)'
  <2>1. PICK b \in free :
          /\ b \in Buffers
          /\ free' = free \ {b} /\ users' = [users EXCEPT ![b] = 1]
          /\ popper' = [popper EXCEPT ![b] = t] /\ outp' = [outp EXCEPT ![t] = Append(@, b)]
          /\ Range(outp'[t]) = Range(outp[t]) \cup {b}
          /\ \A u \in Tasks : b \notin InUse(u)
    BY <1>a, <1>3, PopGives
  <2>2. UNCHANGED <<inp, rel, managers>> /\ \A u \in Tasks \ {t} : outp'[u] = outp[u]
    BY <1>3, <2>1 DEF Pop, BufferTypes
  <2>3. InUse(t)' \subseteq InUse(t) \cup {b} /\ \A u \in Tasks \ {t} : InUse(u)' = InUse(u)
    BY <2>1, <2>2 DEF InUse
  <2>4. b[1] \in managers /\ b # NoBuffer
    BY <1>a, <2>1, NotABuffer DEF Managed
  <2>5. Managed'
    BY <1>a, <2>1, <2>2, <2>4 DEF Managed, BufferTypes
  <2>6. Owned'
    <3>1. ASSUME NEW u \in Tasks, NEW c \in InUse(u)' 
          PROVE  c \notin free' /\ c[1] \in managers' /\ users'[c] = 1 /\ popper'[c] = u
      <4>1. CASE c = b
        <5>1. u = t
          BY <2>1, <2>3, <3>1, <4>1
        <5> QED BY <2>1, <2>2, <2>4, <4>1, <5>1 DEF BufferTypes
      <4>2. CASE c # b
        <5>1. c \in InUse(u) /\ c \in Buffers
          BY <2>3, <3>1, <4>2, InUseBuffers
        <5> QED BY <1>a, <2>1, <2>2, <4>2, <5>1 DEF Owned, BufferTypes
      <4> QED BY <4>1, <4>2
    <3> QED BY <3>1 DEF Owned
  <2>7. Once'
    <3>1. b \notin Range(inp[t])
      BY <2>1, <2>4 DEF InUse
    <3> QED BY <1>a, <2>1, <2>2, <3>1 DEF Once
  <2> QED BY <2>5, <2>6, <2>7
<1>4. ASSUME NEW t \in Tasks, Run(t) PROVE (Managed /\ Owned /\ Once)'
  <2>1. PICK good \in BOOLEAN :
          /\ rel' = [rel EXCEPT ![t] = ToRelease(t, good)]
          /\ inp' = [inp EXCEPT ![t] = IF good THEN NextInput(t) ELSE <<>>]
    BY <1>4 DEF Run
  <2>2. ~Over(t) /\ outp' = [outp EXCEPT ![t] = <<>>] /\ UNCHANGED bufVars
    BY <1>4 DEF Run, Popped, Stages
  <2>3. /\ rel'[t] = ToRelease(t, good) /\ inp'[t] = (IF good THEN NextInput(t) ELSE <<>>)
        /\ outp'[t] = <<>> /\ Range(<<>>) = {}
        /\ \A u \in Tasks \ {t} : rel'[u] = rel[u] /\ inp'[u] = inp[u] /\ outp'[u] = outp[u]
    BY <2>1, <2>2 DEF BufferTypes, Range
  <2>4. /\ Range(ToRelease(t, good)) \subseteq Range(inp[t]) \cup Range(outp[t]) \cup {NoBuffer}
        /\ Range(NextInput(t)) \subseteq Range(outp[t])
        /\ IF good /\ pos[t] < Len(design[t].id)
           THEN Range(ToRelease(t, good)) \subseteq Range(inp[t]) \cup {NoBuffer}
           ELSE good => NextInput(t) = <<>>
    BY <2>2, Returned
  <2>5. Range(inp[t]) \cap Range(outp[t]) = {} /\ NoBuffer \notin Range(outp[t])
    <3>1. outp[t] \in Seq(Buffers)
      BY DEF BufferTypes
    <3>2. Range(outp[t]) \subseteq Buffers
      BY <3>1 DEF Range
    <3> QED BY <1>a, <3>2, NotABuffer DEF Once
  <2>6. InUse(t)' \subseteq InUse(t) /\ \A u \in Tasks \ {t} : InUse(u)' = InUse(u)
    BY <2>3, <2>4 DEF InUse
  <2>7. Managed' /\ Owned'
    BY <1>a, <2>2, <2>6 DEF Managed, Owned
  <2>8. Range(inp'[t]) \cap (Range(outp'[t]) \cup Range(rel'[t])) = {}
    BY <2>3, <2>4, <2>5
  <2>9. \A i, j \in DOMAIN rel'[t] : rel'[t][i] = rel'[t][j] /\ rel'[t][i] # NoBuffer => i = j
    <3>1. \A i, j \in DOMAIN ToRelease(t, good) :
            /\ ToRelease(t, good)[i] = ToRelease(t, good)[j]
            /\ ToRelease(t, good)[i] # NoBuffer
            => i = j
      BY <2>2, <2>5, Returned
    <3> QED BY <2>3, <3>1
  <2>10. Once'
    BY <1>a, <2>3, <2>8, <2>9 DEF Once
  <2> QED BY <2>7, <2>10
<1>5. ASSUME NEW t \in Tasks, Push(t) PROVE (Managed /\ Owned /\ Once)'
  <2> DEFINE b == Head(rel[t])
  <2>1. /\ rel' = [rel EXCEPT ![t] = Tail(@)] /\ UNCHANGED <<inp, outp, managers, popper>>
        /\ rel'[t] = Tail(rel[t]) /\ \A u \in Tasks \ {t} : rel'[u] = rel[u]
    BY <1>5 DEF Push, BufferTypes
  <2>2. Range(rel[t]) = {b} \cup Range(rel'[t])
    BY <1>a, <1>5, <2>1, HeadOnce
  <2>3. InUse(t)' \subseteq InUse(t) /\ \A u \in Tasks \ {t} : InUse(u)' = InUse(u)
    BY <2>1, <2>2 DEF InUse
  <2>4. Once'
    <3>a. \A i, j \in DOMAIN Tail(rel[t]) :
            Tail(rel[t])[i] = Tail(rel[t])[j] /\ Tail(rel[t])[i] # NoBuffer => i = j
      BY <1>a, <1>5, HeadOnce
    <3> DEFINE l == Tail(rel[t])
    <3>b. rel'[t] = l /\ \A i, j \in DOMAIN l : l[i] = l[j] /\ l[i] # NoBuffer => i = j
      BY <2>1, <3>a
    <3> HIDE DEF b, l
    <3>1. \A i, j \in DOMAIN rel'[t] : rel'[t][i] = rel'[t][j] /\ rel'[t][i] # NoBuffer => i = j
      BY <3>b
    <3> QED BY <1>a, <2>1, <2>2, <3>1 DEF Once
  <2>5. CASE b = NoBuffer
    <3>1. UNCHANGED <<free, users>>
      BY <1>5, <2>5 DEF Push
    <3> QED BY <1>a, <2>1, <2>3, <2>4, <3>1 DEF Managed, Owned
  <2>6. CASE b # NoBuffer
    <3>1. b \in Buffers /\ b \in InUse(t) /\ free' = free \cup {b} /\ users' = [users EXCEPT ![b] = 0]
      BY <1>a, <1>5, <2>6, PushFrees
    <3>2. b \notin Range(inp[t]) \cup Range(outp[t]) \cup Range(rel'[t])
      BY <1>a, <1>5, <2>1, <2>6, HeadOnce
    <3> HIDE DEF b
    <3>3. b \notin InUse(t)'
      BY <2>1, <3>2 DEF InUse
    <3>4. b[1] \in managers /\ \A u \in Tasks : b \notin InUse(u)'
      BY <1>a, <2>3, <3>1, <3>3 DEF Owned
    <3>5. Managed'
      BY <1>a, <2>1, <3>1, <3>4 DEF Managed, BufferTypes
    <3>6. Owned'
      <4>1. ASSUME NEW u \in Tasks, NEW c \in InUse(u)'
            PROVE  c \notin free' /\ c[1] \in managers' /\ users'[c] = 1 /\ popper'[c] = u
        <5>1. c \in InUse(u) /\ c \in Buffers /\ c # b
          BY <2>3, <3>4, <4>1, InUseBuffers
        <5> QED BY <1>a, <2>1, <3>1, <5>1 DEF Owned, BufferTypes
      <4> QED BY <4>1 DEF Owned
    <3> QED BY <2>4, <3>5, <3>6
  <2> QED BY <2>5, <2>6
<1>6. ASSUME \/ Stop \/ UNCHANGED vars
             \/ \E t \in Tasks : Dispatch(t) \/ Take(t) \/ Throw(t) \/ Pushed(t)
      PROVE  UNCHANGED <<inp, outp, rel, bufVars>>
  BY <1>6 DEF Stop, vars, Dispatch, Take, Throw, Pushed
<1> QED BY <1>1, <1>2, <1>3, <1>4, <1>5, <1>6 DEF Next, Process

(* At first nothing is in use.                                               *)
LEMMA UseInit == Init => BufferTypes /\ Stages /\ UseInv
<1> SUFFICES ASSUME Init PROVE BufferTypes /\ Stages /\ UseInv
  OBVIOUS
<1>1. BufferTypes
  <2>1. <<>> \in Seq(Buffers) /\ <<>> \in Seq(Buffers \cup {NoBuffer})
    OBVIOUS
  <2> QED BY <2>1 DEF Init, BufferTypes, States
<1>2. Stages
  BY DEF Init, Stages
<1>3. UseInv
  <2>1. \A t \in Tasks : Range(inp[t]) = {} /\ Range(outp[t]) = {} /\ Range(rel[t]) = {} /\ DOMAIN rel[t] = {}
    BY DEF Init, Range
  <2>2. \A t \in Tasks : InUse(t) = {}
    BY <2>1 DEF InUse
  <2> QED BY <2>1, <2>2 DEF Init, UseInv, Managed, Owned, Once
<1> QED BY <1>1, <1>2, <1>3

(* A buffer in a task's lists is in no other task's, and no manager can give *)
(* it away: setCurrentNodeIO and releaseCurrentNodeBuffer keep its only user. *)
THEOREM BuffersUsedOnce == Spec => []OneUser
<1>1. BufferTypes /\ Stages /\ UseInv /\ [Next]_vars => (BufferTypes /\ Stages /\ UseInv)'
  BY StagesStep, UseStep
<1>2. UseInv => OneUser
  <2>1. ASSUME Owned PROVE \A t \in Tasks : /\ InUse(t) \cap free = {}
                                            /\ \A u \in Tasks \ {t} : InUse(t) \cap InUse(u) = {}
    BY <2>1 DEF Owned
  <2> QED BY <2>1 DEF UseInv, OneUser
<1> QED BY <1>1, <1>2, UseInit, PTL DEF Spec

----------------------------------------------------------------------------
(* What a task holds. *)

(* What a node was given is released or put down for the next node, unless   *)
(* it stays out.                                                             *)
LEMMA AllReturned ==
  ASSUME BufferTypes, NoRepeats, NEW t \in Tasks, st[t] = "work", ~Over(t),
         InputsDeclared(t), OutputsDeclared(t), NEW good \in BOOLEAN
  PROVE  /\ \A b \in Range(inp[t]) : b \in Range(ToRelease(t, good)) \/ Stranded(design[t], b[1])
         /\ \A b \in Range(outp[t]) : \/ b \in Range(ToRelease(t, good))
                                      \/ (good /\ b \in Range(NextInput(t)))
                                      \/ Stranded(design[t], b[1])
         /\ good /\ NextInput(t) # <<>> =>
              /\ pos[t] + 1 <= Len(design[t].id) /\ OfDistinctNames(NextInput(t))
              /\ \A i \in DOMAIN NextInput(t) :
                   \/ NextInput(t)[i][1] \in Range(design[t].in[pos[t] + 1])
                   \/ Stranded(design[t], NextInput(t)[i][1])
<1> DEFINE ins == design[t].in[pos[t]]
           outs == design[t].out[pos[t]]
           p == Found(ins, inp[t])
           q == Found(outs, outp[t])
           S == Buffers \cup {NoBuffer}
           Out(s) == Stranded(design[t], s)
<1>1. pos[t] \in Nat \ {0} /\ inp[t] \in Seq(Buffers) /\ outp[t] \in Seq(Buffers)
  BY DEF BufferTypes
<1>2. pos[t] \in 1 .. Len(design[t].id) /\ pos[t] \in DOMAIN design[t].id
  BY <1>1, DesignTypes DEF Over
<1>3. ins \in Seq(Specs) /\ outs \in Seq(Specs) /\ ~Repeats(outs)
  BY <1>2, DesignTypes DEF NoRepeats
<1>4. Len(outp[t]) <= Len(outs) /\ \A i \in DOMAIN outp[t] : outp[t][i][1] = outs[i]
  BY DEF OutputsDeclared
<1> HIDE DEF Out
<1>5. inp[t] # <<>> => /\ OfDistinctNames(inp[t])
                       /\ \A i \in DOMAIN inp[t] : inp[t][i][1] \in Range(ins) \/ Out(inp[t][i][1])
  BY DEF InputsDeclared, Out
<1> HIDE DEF ins, outs
<1>6. p \in Seq(S) /\ q \in Seq(S)
  BY <1>1, <1>3, FoundOnce
<1>7. \A b \in Range(inp[t]) : b \in Range(p) \/ Out(b[1])
  <2> SUFFICES ASSUME NEW i \in DOMAIN inp[t], ~Out(inp[t][i][1])
               PROVE  inp[t][i] \in Range(p)
    BY DEF Range
  <2>1. inp[t] # <<>>
    OBVIOUS
  <2>2. OfDistinctNames(inp[t]) /\ inp[t][i][1] \in Range(ins)
    BY <1>5, <2>1
  <2> QED BY <1>1, <1>3, <2>2, FoundDeclared
<1>8. \A i \in DOMAIN outp[t] : i \in DOMAIN outs /\ outp[t][i][1] \in Range(outs) /\ i \in Nat
  <2> DEFINE o == outp[t]
  <2>1. o \in Seq(Buffers) /\ Len(o) <= Len(outs) /\ \A i \in DOMAIN o : o[i][1] = outs[i]
    BY <1>1, <1>4
  <2> HIDE DEF o
  <2>2. \A i \in DOMAIN o : i \in DOMAIN outs /\ i \in Nat
    BY <1>3, <2>1
  <2>3. \A i \in DOMAIN o : i \in DOMAIN outs /\ o[i][1] \in Range(outs) /\ i \in Nat
    BY <2>1, <2>2 DEF Range
  <2> QED BY <2>3 DEF o
<1>9. OfDistinctNames(outp[t])
  BY <1>3, <1>4, <1>8 DEF OfDistinctNames, Repeats
<1>10. Range(outp[t]) \subseteq Range(q)
  <2> SUFFICES ASSUME NEW i \in DOMAIN outp[t] PROVE outp[t][i] \in Range(q)
    BY DEF Range
  <2> QED BY <1>1, <1>3, <1>8, <1>9, FoundDeclared
<1>11. /\ ToRelease(t, good) = p \o IF good /\ pos[t] < Len(design[t].id) THEN <<>> ELSE q
       /\ <<>> \in Seq(S)
  BY DEF ToRelease, ins, outs
<1> HIDE DEF p, q, S
<1>12. CASE good /\ pos[t] < Len(design[t].id)
  <2>1. pos[t] \in 1 .. Len(design[t].id) - 1 /\ pos[t] + 1 <= Len(design[t].id)
        /\ pos[t] + 1 \in DOMAIN design[t].id
    BY <1>2, <1>12, DesignTypes
  <2>2. Range(p) \subseteq Range(ToRelease(t, good))
    BY <1>6, <1>11, <1>12, Joined
  <2>3. \A s \in Range(outs) : s \notin Range(design[t].in[pos[t] + 1]) => Out(s)
    BY <2>1 DEF Out, Stranded, outs
  <2>4. CASE design[t].id[pos[t] + 1] > 0
    <3>1. NextInput(t) = outp[t]
      BY <1>12, <2>4 DEF NextInput
    <3> QED BY <1>7, <1>8, <1>9, <1>12, <2>1, <2>2, <2>3, <3>1 DEF Out
  <2>5. CASE ~(design[t].id[pos[t] + 1] > 0)
    <3>1. NextInput(t) = <<>>
      BY <2>5 DEF NextInput
    <3>2. design[t].id[pos[t] + 1] <= 0
      <4>1. design[t].id \in Seq(Int)
        BY TaskBuffersAssumption DEF BufferTypes
      <4>2. design[t].id[pos[t] + 1] \in Int
        BY <2>1, <4>1
      <4> QED BY <2>5, <4>2
    <3>3. \A s \in Range(outs) : Out(s)
      BY <2>1, <3>2 DEF Out, Stranded, outs
    <3>4. \A b \in Range(outp[t]) : Out(b[1])
      BY <1>8, <3>3 DEF Range
    <3> QED BY <1>7, <2>2, <3>1, <3>4 DEF Out
  <2> QED BY <2>4, <2>5
<1>13. CASE ~(good /\ pos[t] < Len(design[t].id))
  <2>1. Range(p) \subseteq Range(ToRelease(t, good)) /\ Range(q) \subseteq Range(ToRelease(t, good))
    BY <1>6, <1>11, <1>13, Joined
  <2>2. good => NextInput(t) = <<>>
    BY <1>13 DEF NextInput
  <2> QED BY <1>7, <1>10, <2>1, <2>2 DEF Out
<1> QED BY <1>12, <1>13

(* Every step keeps what a task holds in its lists.                          *)
LEMMA HeldStep ==
  ASSUME BufferTypes, Stages, UseInv, HeldInv, [Next]_vars PROVE HeldInv'
<1> USE DEF taskVars, bufVars
<1>0. design' = design
  BY DEF Next, Process, vars, Submit, Dispatch, Take, Pop, Run, Throw, Push, Pushed, Stop
<1> SUFFICES ASSUME NoRepeats, NEW t \in Tasks
             PROVE  (InputsDeclared(t) /\ OutputsDeclared(t) /\ AllListed(t))'
  BY <1>0 DEF HeldInv, NoRepeats
<1>a. Managed /\ Owned /\ Once /\ InputsDeclared(t) /\ OutputsDeclared(t) /\ AllListed(t)
  BY DEF UseInv, HeldInv
<1> DEFINE lists == <<inp[t], outp[t], rel[t]>>
<1>b. ASSUME UNCHANGED <<lists, st[t], pos[t]>> PROVE (InputsDeclared(t) /\ OutputsDeclared(t))'
  BY <1>0, <1>a, <1>b DEF InputsDeclared, OutputsDeclared, Over
<1>c. ASSUME UNCHANGED <<lists, popper>>, free \subseteq free' PROVE AllListed(t)'
  BY <1>0, <1>a, <1>c DEF AllListed, InUse
<1>1. ASSUME NEW u \in Tasks, Submit(u) PROVE (InputsDeclared(t) /\ OutputsDeclared(t) /\ AllListed(t))'
  <2>1. UNCHANGED <<lists, pos, popper>> /\ free \subseteq free'
    BY <1>1 DEF Submit
  <2>2. AllListed(t)'
    BY <1>c, <2>1
  <2>3. (InputsDeclared(t) /\ OutputsDeclared(t))'
    <3>1. st'[t] = st[t] \/ st'[t] # "work"
      BY <1>1 DEF Submit, BufferTypes
    <3>2. InputsDeclared(t)'
      BY <1>0, <1>a, <2>1 DEF InputsDeclared, Over
    <3>3. OutputsDeclared(t)'
      BY <1>0, <1>a, <2>1, <3>1 DEF OutputsDeclared
    <3> QED BY <3>2, <3>3
  <2> QED BY <2>2, <2>3
<1>2. ASSUME NEW u \in Tasks, Dispatch(u) \/ Take(u) \/ Throw(u) \/ Pushed(u)
      PROVE  (InputsDeclared(t) /\ OutputsDeclared(t) /\ AllListed(t))'
  <2>1. UNCHANGED <<lists, pos, popper, free>>
    BY <1>2 DEF Dispatch, Take, Throw, Pushed
  <2>2. AllListed(t)'
    BY <1>c, <2>1
  <2>3. InputsDeclared(t)'
    BY <1>0, <1>a, <2>1 DEF InputsDeclared, Over
  <2>4. OutputsDeclared(t)'
    <3>1. CASE st'[t] = st[t] \/ st'[t] # "work"
      BY <1>0, <1>a, <2>1, <3>1 DEF OutputsDeclared
    <3>2. CASE st'[t] # st[t] /\ st'[t] = "work"
      <4>1. Take(u) /\ u = t /\ st[t] = "pool"
        BY <1>2, <3>2 DEF Dispatch, Take, Throw, Pushed, BufferTypes
      <4>2. outp'[t] = <<>> /\ ~Over(t)
        BY <2>1, <4>1 DEF Stages
      <4>3. design[t].out[pos[t]] \in Seq(Specs)
        <5>1. pos[t] \in 1 .. Len(design[t].id)
          BY <4>2, DesignTypes DEF Over, BufferTypes
        <5> QED BY <5>1, DesignTypes
      <4>4. Len(<<>>) = 0 /\ DOMAIN <<>> = {} /\ 0 <= Len(design[t].out[pos[t]])
        BY <4>3
      <4> QED BY <1>0, <2>1, <4>2, <4>4 DEF OutputsDeclared
    <3> QED BY <3>1, <3>2
  <2> QED BY <2>2, <2>3, <2>4
<1>3. ASSUME NEW u \in Tasks, Pop(u) PROVE (InputsDeclared(t) /\ OutputsDeclared(t) /\ AllListed(t))'
  <2>1. PICK b \in free :
          /\ b \in BuffersOf(design[u].out[pos[u]][Len(outp[u]) + 1])
          /\ free' = free \ {b} /\ popper' = [popper EXCEPT ![b] = u]
          /\ outp' = [outp EXCEPT ![u] = Append(@, b)] /\ b \in Buffers
          /\ Range(outp'[u]) = Range(outp[u]) \cup {b}
    BY <1>a, <1>3, PopGives
  <2>2. UNCHANGED <<inp, rel, st, pos>>
    BY <1>3 DEF Pop
  <2>3. InputsDeclared(t)'
    BY <1>0, <1>a, <2>2 DEF InputsDeclared, Over
  <2>4. CASE u # t
    <3>1. outp'[t] = outp[t]
      BY <2>1, <2>4 DEF BufferTypes
    <3>2. OutputsDeclared(t)'
      BY <1>b, <2>2, <3>1
    <3>3. AllListed(t)'
      BY <1>0, <1>a, <2>1, <2>2, <2>4, <3>1 DEF AllListed, InUse, BufferTypes
    <3> QED BY <2>3, <3>2, <3>3
  <2>5. CASE u = t
    <3>1. AllListed(t)'
      <4>1. \A c \in Buffers \ {b} : (popper'[c] = t => popper[c] = t) /\ (c \in free => c \in free')
        BY <2>1 DEF BufferTypes
      <4>2. InUse(t) \subseteq InUse(t)' /\ b \in InUse(t)'
        <5>1. b # NoBuffer
          BY <2>1, NotABuffer
        <5> QED BY <2>1, <2>2, <2>5, <5>1 DEF InUse
      <4> QED BY <1>0, <1>a, <4>1, <4>2 DEF AllListed
    <3>2. OutputsDeclared(t)'
      <4> DEFINE o == outp[t]
                 outs == design[t].out[pos[t]]
      <4>1. /\ o \in Seq(Buffers) /\ outp'[t] = Append(o, b) /\ Len(o) < Len(outs)
            /\ \A i \in DOMAIN o : o[i][1] = outs[i]
        BY <1>3, <1>a, <2>1, <2>5 DEF Pop, OutputsDeclared, BufferTypes
      <4>2. b[1] = outs[Len(o) + 1]
        BY <2>1, <2>5 DEF BuffersOf
      <4>3. outs \in Seq(Specs)
        <5>1. ~Over(t)
          BY <1>3, <2>5 DEF Pop, Stages
        <5>2. pos[t] \in 1 .. Len(design[t].id)
          BY <5>1, DesignTypes DEF Over, BufferTypes
        <5> QED BY <5>2, DesignTypes
      <4> HIDE DEF o, outs
      <4>4. Len(Append(o, b)) <= Len(outs) /\ \A i \in DOMAIN Append(o, b) : Append(o, b)[i][1] = outs[i]
        <5>1. PICK n \in Nat : n = Len(o) /\ DOMAIN o = 1 .. n
          BY <4>1
        <5>2. PICK m \in Nat : m = Len(outs)
          BY <4>3
        <5>3. Len(Append(o, b)) = n + 1 /\ DOMAIN Append(o, b) = 1 .. n + 1
          BY <4>1, <5>1
        <5>4. Append(o, b)[n + 1] = b /\ \A i \in 1 .. n : Append(o, b)[i] = o[i]
          BY <4>1, <5>1
        <5>5. \A i \in 1 .. n + 1 : i \in 1 .. n \/ i = n + 1
          BY <5>1
        <5> QED BY <4>1, <4>2, <5>1, <5>2, <5>3, <5>4, <5>5
      <4>5. outs = design'[t].out[pos'[t]]
        BY <1>0, <2>2 DEF outs
      <4> QED BY <4>1, <4>4, <4>5 DEF OutputsDeclared
    <3> QED BY <2>3, <3>1, <3>2
  <2> QED BY <2>4, <2>5
<1>4. ASSUME NEW u \in Tasks, Run(u) PROVE (InputsDeclared(t) /\ OutputsDeclared(t) /\ AllListed(t))'
  <2>1. PICK good \in BOOLEAN :
          /\ rel' = [rel EXCEPT ![u] = ToRelease(u, good)]
          /\ pos' = [pos EXCEPT ![u] = IF good THEN @ + 1 ELSE Len(design[u].id) + 1]
          /\ inp' = [inp EXCEPT ![u] = IF good THEN NextInput(u) ELSE <<>>]
    BY <1>4 DEF Run
  <2>2. /\ outp' = [outp EXCEPT ![u] = <<>>] /\ st' = [st EXCEPT ![u] = "push"]
        /\ st[u] = "work" /\ ~Over(u) /\ UNCHANGED <<free, popper>>
    BY <1>4 DEF Run, Popped, Stages
  <2>3. CASE u # t
    <3>1. UNCHANGED <<lists, st[t], pos[t]>>
      BY <2>1, <2>2, <2>3 DEF BufferTypes
    <3> QED BY <1>b, <1>c, <2>2, <3>1
  <2>4. CASE u = t
    <3>1. /\ rel'[t] = ToRelease(t, good) /\ inp'[t] = (IF good THEN NextInput(t) ELSE <<>>)
          /\ good => pos'[t] = pos[t] + 1
          /\ st'[t] = "push"
      BY <2>1, <2>2, <2>4 DEF BufferTypes
    <3>2. rel[t] = <<>>
      BY <2>2, <2>4 DEF Stages
    <3>3. /\ \A b \in Range(inp[t]) : b \in Range(rel'[t]) \/ Stranded(design[t], b[1])
          /\ \A b \in Range(outp[t]) : \/ b \in Range(rel'[t]) \/ (good /\ b \in Range(NextInput(t)))
                                       \/ Stranded(design[t], b[1])
      BY <1>a, <2>2, <2>4, <3>1, AllReturned
    <3>4. \A b \in InUse(t) : b \in InUse(t)' \/ Stranded(design[t], b[1])
      <4>1. Range(<<>>) = {}
        BY DEF Range
      <4> QED BY <3>1, <3>2, <3>3, <4>1 DEF InUse
    <3>5. AllListed(t)'
      BY <1>0, <1>a, <2>2, <3>4 DEF AllListed
    <3>6. OutputsDeclared(t)'
      BY <3>1 DEF OutputsDeclared
    <3>7. InputsDeclared(t)'
      <4> SUFFICES ASSUME good, NextInput(t) # <<>>
                   PROVE  /\ ~Over(t)' /\ OfDistinctNames(inp'[t])
                          /\ \A i \in DOMAIN inp'[t] :
                               \/ inp'[t][i][1] \in Range(design'[t].in[pos'[t]])
                               \/ Stranded(design'[t], inp'[t][i][1])
        BY <3>1 DEF InputsDeclared
      <4>1. /\ pos[t] + 1 <= Len(design[t].id) /\ OfDistinctNames(NextInput(t))
            /\ \A i \in DOMAIN NextInput(t) :
                 \/ NextInput(t)[i][1] \in Range(design[t].in[pos[t] + 1])
                 \/ Stranded(design[t], NextInput(t)[i][1])
        BY <1>a, <2>2, <2>4, AllReturned
      <4>2. inp'[t] = NextInput(t) /\ pos'[t] = pos[t] + 1
        BY <3>1
      <4>3. ~Over(t)'
        <5>1. pos[t] \in Nat /\ Len(design[t].id) \in Nat
          BY DesignTypes DEF BufferTypes
        <5> QED BY <1>0, <4>1, <4>2, <5>1 DEF Over
      <4> QED BY <1>0, <4>1, <4>2, <4>3
    <3> QED BY <3>5, <3>6, <3>7
  <2> QED BY <2>3, <2>4
<1>5. ASSUME NEW u \in Tasks, Push(u) PROVE (InputsDeclared(t) /\ OutputsDeclared(t) /\ AllListed(t))'
  <2>1. UNCHANGED <<st, pos, inp, outp, popper>> /\ rel' = [rel EXCEPT ![u] = Tail(@)]
    BY <1>5 DEF Push
  <2>2. InputsDeclared(t)' /\ OutputsDeclared(t)'
    BY <1>0, <1>a, <2>1 DEF InputsDeclared, OutputsDeclared, Over
  <2>3. /\ free \subseteq free'
        /\ Head(rel[u]) # NoBuffer => Head(rel[u]) \in free'
    <3>1. CASE Head(rel[u]) = NoBuffer
      BY <1>5, <3>1 DEF Push
    <3>2. CASE Head(rel[u]) # NoBuffer
      BY <1>a, <1>5, <3>2, PushFrees
    <3> QED BY <3>1, <3>2
  <2>4. CASE u # t
    <3>1. UNCHANGED lists
      BY <2>1, <2>4 DEF BufferTypes
    <3> QED BY <1>c, <2>1, <2>2, <2>3, <3>1
  <2>5. CASE u = t
    <3>1. Range(rel[t]) = {Head(rel[t])} \cup Range(rel'[t])
      <4>1. rel'[t] = Tail(rel[t])
        BY <2>1, <2>5 DEF BufferTypes
      <4>2. Range(rel[t]) = {Head(rel[t])} \cup Range(Tail(rel[t]))
        BY <1>a, <1>5, <2>5, HeadOnce
      <4> QED BY <4>1, <4>2
    <3>2. InUse(t) \subseteq InUse(t)' \cup {Head(rel[t])} /\ NoBuffer \notin InUse(t)
      BY <2>1, <3>1 DEF InUse
    <3>3. AllListed(t)'
      BY <1>0, <1>a, <2>1, <2>3, <2>5, <3>2 DEF AllListed
    <3> QED BY <2>2, <3>3
  <2> QED BY <2>4, <2>5
<1>6. ASSUME Stop \/ UNCHANGED vars PROVE (InputsDeclared(t) /\ OutputsDeclared(t) /\ AllListed(t))'
  <2>1. UNCHANGED <<lists, st, pos, popper, free>>
    BY <1>6 DEF Stop, vars
  <2> QED BY <1>b, <1>c, <2>1
<1> QED BY <1>1, <1>2, <1>3, <1>4, <1>5, <1>6 DEF Next, Process

(* At first no task has popped a buffer.                                     *)
LEMMA HeldInit == Init => HeldInv
<1> SUFFICES ASSUME Init, NEW t \in Tasks
             PROVE  InputsDeclared(t) /\ OutputsDeclared(t) /\ AllListed(t)
  BY DEF HeldInv
<1>1. \A b \in Buffers : popper[b] # t
  BY TaskBuffersAssumption DEF Init
<1> QED BY <1>1 DEF Init, InputsDeclared, OutputsDeclared, AllListed

(* What a task popped is available again or in its lists, which are empty    *)
(* once it was reported; only outputs the next node does not take stay out.  *)
THEOREM AllAccounted == Spec => []BuffersAccounted
<1>1. BufferInv /\ [Next]_vars => BufferInv'
  BY StagesStep, UseStep, HeldStep DEF BufferInv
<1>2. BufferInv => BuffersAccounted
  <2> SUFFICES ASSUME BufferInv, NoRepeats, NEW t \in Tasks, NEW b \in Buffers, popper[b] = t,
                      b \notin free, ~Stranded(design[t], b[1])
               PROVE  b \in InUse(t) /\ st[t] # "over"
    BY DEF BuffersAccounted
  <2>1. b \in InUse(t)
    BY DEF BufferInv, HeldInv, AllListed
  <2>2. ASSUME st[t] = "over" PROVE FALSE
    <3>1. outp[t] = <<>> /\ rel[t] = <<>> /\ Over(t)
      BY <2>2 DEF BufferInv, Stages
    <3>2. inp[t] = <<>>
      BY <3>1 DEF BufferInv, HeldInv, InputsDeclared
    <3> QED BY <2>1, <3>1, <3>2 DEF InUse, Range
  <2> QED BY <2>1, <2>2
<1> QED BY <1>1, <1>2, UseInit, HeldInit, PTL DEF Spec, BufferInv

----------------------------------------------------------------------------
(* What tasks do to a manager. *)

(* The pool counts as the tasks do.                                          *)
LEMMA SameCardinality == \A s \in Specs : \A S : Pool(s)!Cardinality(S) = Cardinality(S)
  BY DEF Pool!Cardinality, Cardinality

(* Two tables that differ in one place.                                      *)
LEMMA OneShare ==
  ASSUME NEW T, NEW B, NEW f \in [T -> [B -> Nat]], NEW g \in [T -> [B -> Nat]],
         NEW t \in T, NEW b \in B, NEW n \in Nat,
         \A u \in T, c \in B : g[u][c] = IF u = t /\ c = b THEN n ELSE f[u][c]
  PROVE  g = [f EXCEPT ![t][b] = n]
<1>1. g[t] = [f[t] EXCEPT ![b] = n]
  OBVIOUS
<1>2. \A u \in T \ {t} : g[u] = f[u]
  OBVIOUS
<1> QED BY <1>1, <1>2

(* What a task has to return is a number of shares.                          *)
LEMMA ShareTypes ==
  ASSUME NEW s \in Specs, BufferTypes PROVE Shares(s) \in [Tasks -> [BuffersOf(s) -> Nat]]
<1>1. BuffersOf(s) \subseteq Buffers
  BY DEF Buffers
<1> QED BY <1>1 DEF BufferTypes, Shares

(* A step that leaves a manager's buffers with the tasks that have them      *)
(* changes nothing in its pool.                                              *)
LEMMA PoolUntouched ==
  ASSUME NEW s \in Specs,
         \A t \in Tasks, b \in BuffersOf(s) : Shares(s)'[t][b] = Shares(s)[t][b]
  PROVE  UNCHANGED Pool(s)!vars
<1>1. Shares(s)' = Shares(s)
  BY DEF Shares
<1> QED BY <1>1 DEF Pool!vars

(* popBuffer gives the task a buffer of which no task has a share.           *)
LEMMA PopFromPool ==
  ASSUME NEW s \in Specs, BufferTypes, Managed, Owned, NEW t \in Tasks, Pop(t)
  PROVE  [Pool(s)!Next]_(Pool(s)!vars)
<1>1. PICK b \in free : /\ b \in Buffers /\ users' = [users EXCEPT ![b] = 1]
                        /\ popper' = [popper EXCEPT ![b] = t]
  BY PopGives
<1>2. users[b] = 0 /\ users \in [Buffers -> Nat] /\ popper \in [Buffers -> Tasks \cup {NoTask}]
  BY <1>1 DEF Managed, BufferTypes
<1>3. BuffersOf(s) \subseteq Buffers
  BY DEF Buffers
<1>4. CASE b \notin BuffersOf(s)
  <2>1. \A u \in Tasks, c \in BuffersOf(s) : Shares(s)'[u][c] = Shares(s)[u][c]
    BY <1>1, <1>2, <1>3, <1>4 DEF Shares
  <2> QED BY <2>1, PoolUntouched
<1>5. CASE b \in BuffersOf(s)
  <2> DEFINE Out == {c \in BuffersOf(s) : Pool(s)!InUse(c)}
  <2>1. Shares(s)' = [Shares(s) EXCEPT ![t][b] = 1]
    <3>1. \A u \in Tasks, c \in BuffersOf(s) :
            Shares(s)'[u][c] = IF u = t /\ c = b THEN 1 ELSE Shares(s)[u][c]
      BY <1>1, <1>2, <1>3, <1>5 DEF Shares
    <3>2. Shares(s) \in [Tasks -> [BuffersOf(s) -> Nat]]
      BY ShareTypes
    <3>3. Shares(s)' \in [Tasks -> [BuffersOf(s) -> Nat]]
      BY <1>1, <1>2, <1>3 DEF Shares
    <3> QED BY <3>1, <3>2, <3>3, <1>5, OneShare
  <2>2. ~Pool(s)!InUse(b)
    BY <1>2, <1>5 DEF Pool!InUse, Shares
  <2>3. Cardinality(Out) < MaxQueue[s]
    <3>1. MaxQueue[s] \in Nat
      BY TaskBuffersAssumption
    <3>2. IsFiniteSet(BuffersOf(s)) /\ Cardinality(BuffersOf(s)) = MaxQueue[s]
      <4>1. IsFiniteSet(1 .. MaxQueue[s]) /\ Cardinality(1 .. MaxQueue[s]) = MaxQueue[s]
        BY <3>1, FS_Interval
      <4>2. IsFiniteSet({s}) /\ Cardinality({s}) = 1
        BY FS_Singleton
      <4>3. /\ IsFiniteSet({s} \X (1 .. MaxQueue[s]))
            /\ Cardinality({s} \X (1 .. MaxQueue[s])) = 1 * MaxQueue[s]
        BY <4>1, <4>2, FS_Product
      <4> QED BY <3>1, <4>3 DEF BuffersOf
    <3>3. /\ IsFiniteSet(BuffersOf(s) \ {b})
          /\ Cardinality(BuffersOf(s) \ {b}) = MaxQueue[s] - 1
      BY <1>5, <3>2, FS_RemoveElement
    <3>4. Out \subseteq BuffersOf(s) \ {b}
      BY <2>2
    <3> HIDE DEF Out
    <3>5. Cardinality(Out) <= MaxQueue[s] - 1 /\ IsFiniteSet(Out)
      BY <3>3, <3>4, FS_Subset
    <3>6. Cardinality(Out) \in Nat
      BY <3>5, FS_CardinalityType
    <3> QED BY <3>1, <3>5, <3>6
  <2>4. Pool(s)!Cardinality(Out) < MaxQueue[s]
    <3> HIDE DEF Out
    <3> QED BY <2>3, SameCardinality
  <2>5. Pool(s)!Pop(t, b)
    BY <2>1, <2>2, <2>4 DEF Pool!Pop
  <2> QED BY <1>5, <2>5 DEF Pool!Next
<1> QED BY <1>4, <1>5

(* pushBuffer takes back a buffer of which the task has a share.             *)
LEMMA PushToPool ==
  ASSUME NEW s \in Specs, BufferTypes, Stages, Managed, Owned, Once, NEW t \in Tasks, Push(t)
  PROVE  [Pool(s)!Next]_(Pool(s)!vars)
<1> DEFINE b == Head(rel[t])
<1>0. popper' = popper
  BY DEF Push
<1>1. CASE b = NoBuffer
  <2>1. users' = users
    BY <1>1 DEF Push
  <2>2. \A u \in Tasks, c \in BuffersOf(s) : Shares(s)'[u][c] = Shares(s)[u][c]
    BY <1>0, <2>1 DEF Shares
  <2> QED BY <2>2, PoolUntouched
<1>2. CASE b # NoBuffer
  <2>1. b \in Buffers /\ b \in InUse(t) /\ users' = [users EXCEPT ![b] = 0]
    BY <1>2, PushFrees
  <2>2. users[b] = 1 /\ popper[b] = t /\ users \in [Buffers -> Nat]
    BY <2>1 DEF Owned, BufferTypes
  <2>3. BuffersOf(s) \subseteq Buffers
    BY DEF Buffers
  <2> HIDE DEF b
  <2>4. CASE b \notin BuffersOf(s)
    <3>1. \A u \in Tasks, c \in BuffersOf(s) : Shares(s)'[u][c] = Shares(s)[u][c]
      BY <1>0, <2>1, <2>2, <2>3, <2>4 DEF Shares
    <3> QED BY <3>1, PoolUntouched
  <2>5. CASE b \in BuffersOf(s)
    <3>1. Shares(s)[t][b] = 1
      BY <2>2, <2>5 DEF Shares
    <3>2. \A u \in Tasks, c \in BuffersOf(s) :
            Shares(s)'[u][c] = IF u = t /\ c = b THEN 0 ELSE Shares(s)[u][c]
      BY <1>0, <2>1, <2>2, <2>3, <2>5 DEF Shares
    <3>3. Shares(s)' = [Shares(s) EXCEPT ![t][b] = @ - 1]
      <4>1. Shares(s) \in [Tasks -> [BuffersOf(s) -> Nat]]
        BY ShareTypes
      <4>2. Shares(s)' \in [Tasks -> [BuffersOf(s) -> Nat]]
        BY <1>0, <2>1, <2>2, <2>3 DEF Shares
      <4>3. Shares(s)' = [Shares(s) EXCEPT ![t][b] = 0]
        BY <3>2, <4>1, <4>2, <2>5, OneShare
      <4> QED BY <3>1, <4>3
    <3>4. Pool(s)!Push(t, b)
      BY <3>1, <3>3 DEF Pool!Push
    <3> QED BY <2>5, <3>4 DEF Pool!Next
  <2> QED BY <2>4, <2>5
<1> QED BY <1>1, <1>2

(* Tasks use every manager as a buffer pool is to be used: none returns a    *)
(* buffer it does not hold, and none is given one that is in use or more     *)
(* than maxQueueSize allow, as long as no node declares a name twice.        *)
THEOREM PoolsUsed == Spec => UsesPools
<1>1. Init => \A s \in Specs : Pool(s)!Init
  <2> SUFFICES ASSUME Init, NEW s \in Specs PROVE Pool(s)!Init
    OBVIOUS
  <2>1. BuffersOf(s) \subseteq Buffers
    BY DEF Buffers
  <2>2. Shares(s) = [t \in Tasks |-> [b \in BuffersOf(s) |-> 0]]
    BY <2>1 DEF Init, Shares
  <2> QED BY <2>2 DEF Pool!Init
<1>2. BufferTypes /\ Stages /\ UseInv /\ [Next]_vars =>
        (NoRepeats => \A s \in Specs : [Pool(s)!Next]_(Pool(s)!vars))
  <2> SUFFICES ASSUME BufferTypes, Stages, UseInv, [Next]_vars, NoRepeats, NEW s \in Specs
               PROVE  [Pool(s)!Next]_(Pool(s)!vars)
    OBVIOUS
  <2>1. Managed /\ Owned /\ Once
    BY DEF UseInv
  <2>2. CASE \E t \in Tasks : Pop(t)
    BY <2>1, <2>2, PopFromPool
  <2>3. CASE \E t \in Tasks : Push(t)
    BY <2>1, <2>3, PushToPool
  <2>4. CASE UNCHANGED <<users, popper>>
    <3>1. \A t \in Tasks, b \in BuffersOf(s) : Shares(s)'[t][b] = Shares(s)[t][b]
      BY <2>4 DEF Shares
    <3> QED BY <3>1, PoolUntouched
  <2> QED BY <2>2, <2>3, <2>4
        DEF Next, Process, Submit, Dispatch, Take, Run, Throw, Pushed, Stop, vars, bufVars
<1>3. BufferTypes /\ Stages /\ UseInv /\ [Next]_vars => (BufferTypes /\ Stages /\ UseInv)'
  BY StagesStep, UseStep
<1> QED BY <1>1, <1>2, <1>3, UseInit, PTL DEF Spec, UsesPools
=============================================================================
