------------------------------ MODULE TaskPool ------------------------------
(***************************************************************************)
(* What utils::ThreadPool promises its callers, and the only thing the     *)
(* other modules rely on: tasks start in the order they were accepted,     *)
(* each worker runs one at a time, each accepted task is run exactly once, *)
(* and the destructor returns only when all of them have been.             *)
(***************************************************************************)
EXTENDS Naturals, Sequences, TLAPS

CONSTANTS Tasks,     \* the closures handed to submit() or enqueue()
          Workers,   \* the pool's threads
          NoTask     \* what a worker runs between two tasks, not one of Tasks

VARIABLES queue,     \* accepted, not yet started
          running,   \* running[w] is the task in the hands of worker w
          done,      \* the tasks that have returned
          phase      \* "open", "closing" (destructor entered), "closed"

vars == <<queue, running, done, phase>>

Accepted(t) == \/ \E i \in 1..Len(queue) : queue[i] = t
               \/ \E w \in Workers : running[w] = t
               \/ t \in done

Init == /\ queue = <<>>
        /\ running = [w \in Workers |-> NoTask]
        /\ done = {}
        /\ phase = "open"

Submit(t) == /\ phase = "open"
             /\ ~Accepted(t)
             /\ queue' = Append(queue, t)
             /\ UNCHANGED <<running, done, phase>>

Take(w) == /\ phase # "closed"
           /\ running[w] = NoTask
           /\ queue # <<>>
           /\ running' = [running EXCEPT ![w] = Head(queue)]
           /\ queue' = Tail(queue)
           /\ UNCHANGED <<done, phase>>

Finish(w) == /\ running[w] # NoTask
             /\ done' = done \cup {running[w]}
             /\ running' = [running EXCEPT ![w] = NoTask]
             /\ UNCHANGED <<queue, phase>>

Close == /\ phase = "open"
         /\ phase' = "closing"
         /\ UNCHANGED <<queue, running, done>>

Drained == queue = <<>> /\ \A w \in Workers : running[w] = NoTask

Closed == /\ phase = "closing"
          /\ Drained
          /\ phase' = "closed"
          /\ UNCHANGED <<queue, running, done>>

Next == \/ \E t \in Tasks : Submit(t)
        \/ \E w \in Workers : Take(w) \/ Finish(w)
        \/ Close
        \/ Closed

Spec == Init /\ [][Next]_vars

-----------------------------------------------------------------------------
(* A task that was accepted waits, or is in the hands of one worker, or is *)
(* done, and never two of these; when the destructor has returned nothing  *)
(* waits or is run any more (ThreadPool.hpp 30-49, 55-70).                 *)
InOnePlace ==
    /\ \A i, j \in 1..Len(queue) : queue[i] = queue[j] => i = j
    /\ \A v, w \in Workers : running[v] = running[w] /\ running[v] # NoTask => v = w
    /\ \A i \in 1..Len(queue) : queue[i] \notin done /\ \A w \in Workers : running[w] # queue[i]
    /\ \A w \in Workers : running[w] \notin done
    /\ phase = "closed" => Drained

(* No step loses a task that was accepted (ThreadPool.hpp 30-49).          *)
NoneIsLost == [][\A t \in Tasks : Accepted(t) => Accepted(t)']_vars

-----------------------------------------------------------------------------
(* What is not a task is nowhere but in the hands of an idle worker.       *)
Typed == /\ queue \in Seq(Tasks) /\ running \in [Workers -> Tasks \cup {NoTask}]
         /\ done \subseteq Tasks

(* A task leaves a place for another: the end of the queue, its head, a    *)
(* worker's hands, done.                                                   *)
LEMMA Kept ==
    ASSUME NoTask \notin Tasks, Typed, InOnePlace, [Next]_vars
    PROVE  Typed' /\ InOnePlace'
<1> USE DEF Typed, InOnePlace, Drained
<1>1. ASSUME NEW t \in Tasks, Submit(t) PROVE Typed' /\ InOnePlace'
  <2>1. \A i \in 1..Len(queue') : \/ i = Len(queue) + 1 /\ queue'[i] = t
                                  \/ i \in 1..Len(queue) /\ queue'[i] = queue[i]
    BY <1>1 DEF Submit
  <2> QED BY <1>1, <2>1 DEF Submit, Accepted
<1>2. ASSUME NEW w \in Workers, Take(w) PROVE Typed' /\ InOnePlace'
  <2>1. PICK t \in Tasks : t = Head(queue) /\ t = queue[1] /\ 1 \in 1..Len(queue)
    BY <1>2 DEF Take
  <2>2. /\ queue' \in Seq(Tasks)
        /\ \A i \in 1..Len(queue') : i + 1 \in 1..Len(queue) /\ queue'[i] = queue[i + 1]
    BY <1>2 DEF Take
  <2>3. \A i \in 1..Len(queue') : queue'[i] # t
    BY <2>1, <2>2
  <2>4. running' = [running EXCEPT ![w] = t]
    BY <1>2, <2>1 DEF Take
  <2> QED BY <1>2, <2>1, <2>2, <2>3, <2>4 DEF Take
<1>3. ASSUME NEW w \in Workers, Finish(w) PROVE Typed' /\ InOnePlace'
  BY <1>3 DEF Finish
<1>4. CASE Close \/ Closed \/ UNCHANGED vars
  BY <1>4 DEF Close, Closed, vars
<1> QED BY <1>1, <1>2, <1>3, <1>4 DEF Next

(* Whatever moves, what was accepted is still somewhere.                   *)
LEMMA StillAccepted ==
    ASSUME NoTask \notin Tasks, Typed, [Next]_vars, NEW t \in Tasks, Accepted(t)
    PROVE  Accepted(t)'
<1> USE DEF Typed, Accepted
<1>1. ASSUME NEW s \in Tasks, Submit(s) PROVE Accepted(t)'
  <2>1. \A i \in 1..Len(queue) : i \in 1..Len(queue') /\ queue'[i] = queue[i]
    BY <1>1 DEF Submit
  <2> QED BY <1>1, <2>1 DEF Submit
<1>2. ASSUME NEW w \in Workers, Take(w) PROVE Accepted(t)'
  <2>1. running' = [running EXCEPT ![w] = Head(queue)] /\ running[w] = NoTask /\ done' = done
    BY <1>2 DEF Take
  <2>2. ASSUME NEW i \in 1..Len(queue), queue[i] = t PROVE Accepted(t)'
    <3>1. CASE i = 1
      BY <2>1, <2>2, <3>1
    <3>2. CASE i # 1
      <4>1. i - 1 \in 1..Len(queue') /\ queue'[i - 1] = t
        BY <1>2, <2>2, <3>2 DEF Take
      <4> QED BY <4>1
    <3> QED BY <3>1, <3>2
  <2> QED BY <2>1, <2>2
<1>3. ASSUME NEW w \in Workers, Finish(w) PROVE Accepted(t)'
  BY <1>3 DEF Finish
<1>4. CASE Close \/ Closed \/ UNCHANGED vars
  BY <1>4 DEF Close, Closed, vars
<1> QED BY <1>1, <1>2, <1>3, <1>4 DEF Next

(* Each task that was accepted is in one place, at every step, and none is *)
(* left when the pool is closed.                                           *)
THEOREM EachOnce == ASSUME NoTask \notin Tasks PROVE Spec => []InOnePlace
<1>1. Init => Typed /\ InOnePlace
  BY DEF Init, Typed, InOnePlace, Drained
<1>2. Typed /\ InOnePlace /\ [Next]_vars => Typed' /\ InOnePlace'
  BY Kept
<1> QED BY <1>1, <1>2, PTL DEF Spec

(* No accepted task is ever dropped.                                       *)
THEOREM NeverLost == ASSUME NoTask \notin Tasks PROVE Spec => NoneIsLost
<1>1. Init => Typed /\ InOnePlace
  BY DEF Init, Typed, InOnePlace, Drained
<1>2. Typed /\ InOnePlace /\ [Next]_vars => Typed' /\ InOnePlace'
  BY Kept
<1>3. Typed /\ InOnePlace /\ [Next]_vars => [\A t \in Tasks : Accepted(t) => Accepted(t)']_vars
  BY StillAccepted
<1> QED BY <1>1, <1>2, <1>3, PTL DEF Spec, NoneIsLost
=============================================================================
