-------------------------- MODULE ThreadPoolProofs --------------------------
(***************************************************************************)
(* For any finite set of workers and client threads and any set of tasks:  *)
(* types, no lost wake-up, the refinement of TaskPool, and what follows    *)
(* from that: each task runs once.                                         *)
(***************************************************************************)
EXTENDS ThreadPool, FiniteSetTheorems, TLAPS

Inv == TypeOK /\ ThreadsInStep

LEMMA InitInv == Init => Inv
  <1> SUFFICES ASSUME Init PROVE Inv
    OBVIOUS
  <1>1. TypeOK
    <2>1. tasks \in Seq(Tasks)
      BY DEF Init
    <2>2. /\ running \in [Workers -> Tasks \cup {NoTask}]
          /\ wpc \in [Workers -> {"loop", "run", "exit"}]
          /\ cpc \in [Clients -> {"idle", "notify", "waitAll"}]
      BY DEF Init
    <2> QED
      BY <2>1, <2>2 DEF Init, TypeOK
  <1>2. ThreadsInStep
    BY DEF Init, ThreadsInStep
  <1> QED
    BY <1>1, <1>2 DEF Inv

LEMMA HeadTail ==
  ASSUME NEW S, NEW s \in Seq(S), s # <<>>
  PROVE  /\ Head(s) \in S
         /\ Tail(s) \in Seq(S)
         /\ Len(s) \in Nat /\ Len(s) # 0
         /\ Len(Tail(s)) = Len(s) - 1
  OBVIOUS

(* Every step keeps the types and the threads' program counters in step    *)
(* with the queue.                                                         *)
LEMMA NextInv == Inv /\ [Next]_vars => Inv'
  <1> SUFFICES ASSUME Inv, [Next]_vars
               PROVE  Inv'
    OBVIOUS
  <1> USE DistinctThreads, NoTaskIsFresh DEF Inv, TypeOK, ThreadsInStep
  <1>1. ASSUME NEW w \in Workers, Park(w) PROVE Inv'
    BY <1>1 DEF Park, InWait
  <1>2. ASSUME NEW w \in Workers, WorkerExit(w) PROVE Inv'
    BY <1>2 DEF WorkerExit, InWait
  <1>3. ASSUME NEW w \in Workers, TakeTask(w) PROVE Inv'
    <2>1. Head(tasks) \in Tasks /\ Tail(tasks) \in Seq(Tasks)
      BY <1>3, HeadTail DEF TakeTask
    <2> QED
      BY <1>3, <2>1 DEF TakeTask, InWait
  <1>4. ASSUME NEW w \in Workers, FinishTask(w) PROVE Inv'
    BY <1>4 DEF FinishTask
  <1>5. ASSUME NEW c \in Clients, NEW t \in Tasks, Submit(c, t) PROVE Inv'
    BY <1>5 DEF Submit
  <1>6. ASSUME NEW c \in Clients, NotifyOne(c) PROVE Inv'
    BY <1>6 DEF NotifyOne
  <1>7. ASSUME NEW c \in Clients, WaitAll(c) PROVE Inv'
    BY <1>7 DEF WaitAll
  <1>8. ASSUME NEW c \in Clients, WaitAllWakes(c) PROVE Inv'
    BY <1>8 DEF WaitAllWakes
  <1>9. ASSUME NEW x \in Workers \cup Clients, SpuriousWake(x) PROVE Inv'
    BY <1>9 DEF SpuriousWake
  <1>10. CASE SetStop
    BY <1>10 DEF SetStop
  <1>11. CASE NotifyAll
    BY <1>11 DEF NotifyAll
  <1>12. CASE Joined
    BY <1>12 DEF Joined
  <1>13. CASE UNCHANGED vars
    BY <1>13 DEF vars
  <1> QED
    BY <1>1, <1>2, <1>3, <1>4, <1>5, <1>6, <1>7, <1>8, <1>9, <1>10, <1>11,
       <1>12, <1>13 DEF Next, Worker, Client, Destructor

(* The types hold in every reachable state, whatever the sizes.            *)
THEOREM TypesHold == Spec => []TypeOK
  <1>1. Inv => TypeOK
    BY DEF Inv
  <1> QED
    BY InitInv, NextInv, <1>1, PTL DEF Spec

LEMMA Counts ==
  /\ IsFiniteSet(Awake) /\ Cardinality(Awake) \in Nat
  /\ IsFiniteSet(Notifying) /\ Cardinality(Notifying) \in Nat
  BY AtLeastOneWorker, FinitelyManyClients, FS_Subset, FS_CardinalityType
     DEF Awake, Notifying

LEMMA CountsNext ==
  /\ IsFiniteSet(Awake') /\ Cardinality(Awake') \in Nat
  /\ IsFiniteSet(Notifying') /\ Cardinality(Notifying') \in Nat
  BY AtLeastOneWorker, FinitelyManyClients, FS_Subset, FS_CardinalityType
     DEF Awake, Notifying

(* Each step pays for the task it queues with a pending notification, and  *)
(* for the notification it consumes with an awake worker.                  *)
LEMMA NextWorkConserving ==
  Inv /\ WorkConserving /\ [Next]_vars => WorkConserving'
  <1> SUFFICES ASSUME Inv, WorkConserving, [Next]_vars,
                      WaitAllCallers' = {}, parked' # {}, dpc' # "notify"
               PROVE  (Len(tasks) <= Cardinality(Awake) + Cardinality(Notifying))'
    BY DEF WorkConserving
  <1> USE DistinctThreads, NoTaskIsFresh DEF Inv, TypeOK, ThreadsInStep
  <1>0. tasks = <<>> \/ (tasks # <<>> /\ Len(tasks) \in Nat)
    OBVIOUS
  <1>e. ASSUME tasks' = <<>> PROVE (Len(tasks) <= Cardinality(Awake) + Cardinality(Notifying))'
    BY <1>e, CountsNext
  <1>m. ASSUME tasks' = tasks, WaitAllCallers = {}, parked # {}, dpc # "notify",
               Awake \subseteq Awake', Notifying \subseteq Notifying'
        PROVE  (Len(tasks) <= Cardinality(Awake) + Cardinality(Notifying))'
    <2>1. Cardinality(Awake) <= Cardinality(Awake') /\ Cardinality(Notifying) <= Cardinality(Notifying')
      BY <1>m, CountsNext, FS_Subset
    <2> QED
      BY <1>m, <2>1, Counts, CountsNext DEF WorkConserving
  <1>1. ASSUME NEW w \in Workers, Park(w) \/ WorkerExit(w)
        PROVE (Len(tasks) <= Cardinality(Awake) + Cardinality(Notifying))'
    BY <1>1, <1>e DEF Park, WorkerExit
  <1>2. ASSUME NEW w \in Workers, TakeTask(w)
        PROVE (Len(tasks) <= Cardinality(Awake) + Cardinality(Notifying))'
    <2>1. Awake' = Awake \ {w} /\ w \in Awake /\ Notifying' = Notifying
      BY <1>2 DEF TakeTask, Awake, Notifying, InWait
    <2>2. Cardinality(Awake') = Cardinality(Awake) - 1
      BY <2>1, Counts, FS_RemoveElement
    <2>3. Len(tasks') = Len(tasks) - 1 /\ Len(tasks) \in Nat
      BY <1>2, HeadTail DEF TakeTask
    <2>4. WaitAllCallers = {} /\ parked # {} /\ dpc # "notify"
      BY <1>2 DEF TakeTask, WaitAllCallers
    <2> QED
      BY <2>1, <2>2, <2>3, <2>4, Counts DEF WorkConserving
  <1>3. ASSUME NEW w \in Workers, FinishTask(w)
        PROVE (Len(tasks) <= Cardinality(Awake) + Cardinality(Notifying))'
    <2>1. Awake \subseteq Awake' /\ Notifying' = Notifying
      BY <1>3 DEF FinishTask, Awake, Notifying, InWait
    <2>2. WaitAllCallers = {} /\ parked # {} /\ dpc # "notify" /\ tasks' = tasks
      BY <1>3 DEF FinishTask, WaitAllCallers
    <2> QED
      BY <2>1, <2>2, <1>m
  <1>4. ASSUME NEW c \in Clients, NEW t \in Tasks, Submit(c, t)
        PROVE (Len(tasks) <= Cardinality(Awake) + Cardinality(Notifying))'
    <2>1. Awake' = Awake /\ Notifying' = Notifying \cup {c} /\ c \notin Notifying
      BY <1>4 DEF Submit, Awake, Notifying, InWait
    <2>2. Cardinality(Notifying') = Cardinality(Notifying) + 1
      BY <2>1, Counts, FS_AddElement
    <2>3. Len(tasks') = Len(tasks) + 1 /\ Len(tasks) \in Nat
      BY <1>4 DEF Submit
    <2>4. WaitAllCallers = {} /\ parked # {} /\ dpc # "notify"
      BY <1>4 DEF Submit, WaitAllCallers
    <2> QED
      BY <2>1, <2>2, <2>3, <2>4, Counts DEF WorkConserving
  <1>5. ASSUME NEW c \in Clients, NotifyOne(c)
        PROVE (Len(tasks) <= Cardinality(Awake) + Cardinality(Notifying))'
    <2>1. PICK x \in parked : parked' = parked \ {x}
      BY <1>5 DEF NotifyOne
    <2>2. WaitAllCallers = {} /\ dpc # "notify" /\ tasks' = tasks
      BY <1>5 DEF NotifyOne, WaitAllCallers
    <2>3. x \in Workers /\ wpc[x] = "loop"
      BY <2>2 DEF WaitAllCallers
    <2>4. Awake' = Awake \cup {x} /\ x \notin Awake
      BY <1>5, <2>1, <2>3 DEF NotifyOne, Awake, InWait
    <2>5. Notifying' = Notifying \ {c} /\ c \in Notifying
      BY <1>5 DEF NotifyOne, Notifying
    <2>6. Cardinality(Awake') = Cardinality(Awake) + 1
      BY <2>4, Counts, FS_AddElement
    <2>7. Cardinality(Notifying') = Cardinality(Notifying) - 1
      BY <2>5, Counts, FS_RemoveElement
    <2> QED
      BY <2>1, <2>2, <2>6, <2>7, Counts DEF WorkConserving
  <1>6. ASSUME NEW c \in Clients, WaitAll(c)
        PROVE FALSE
    BY <1>6 DEF WaitAll, WaitAllCallers
  <1>7. ASSUME NEW c \in Clients, WaitAllWakes(c)
        PROVE (Len(tasks) <= Cardinality(Awake) + Cardinality(Notifying))'
    <2>1. cpc'[c] # "waitAll"
      BY DEF WaitAllCallers
    <2> QED
      BY <1>7, <2>1, <1>e DEF WaitAllWakes
  <1>8. ASSUME NEW x \in Workers \cup Clients, SpuriousWake(x)
        PROVE (Len(tasks) <= Cardinality(Awake) + Cardinality(Notifying))'
    <2>1. Awake \subseteq Awake' /\ Notifying' = Notifying
      BY <1>8 DEF SpuriousWake, Awake, Notifying, InWait
    <2>2. WaitAllCallers = {} /\ parked # {} /\ dpc # "notify" /\ tasks' = tasks
      BY <1>8 DEF SpuriousWake, WaitAllCallers
    <2> QED
      BY <2>1, <2>2, <1>m
  <1>9. CASE SetStop
    BY <1>9 DEF SetStop
  <1>10. CASE NotifyAll
    BY <1>10 DEF NotifyAll
  <1>11. CASE Joined \/ UNCHANGED vars
    <2>1. Awake' = Awake /\ Notifying' = Notifying
      BY <1>11 DEF Joined, vars, Awake, Notifying, InWait
    <2>2. WaitAllCallers = {} /\ parked # {} /\ dpc # "notify" /\ tasks' = tasks
      BY <1>11 DEF Joined, vars, WaitAllCallers
    <2> QED
      BY <2>1, <2>2, <1>m
  <1> QED
    BY <1>1, <1>2, <1>3, <1>4, <1>5, <1>6, <1>7, <1>8, <1>9, <1>10, <1>11
       DEF Next, Worker, Client, Destructor

(* No wake-up is lost (ThreadPool.hpp:90-100, 110-120, 58-63).             *)
THEOREM NoLostWakeup == Spec => []WorkConserving
  <1>1. Init => WorkConserving
    BY DEF Init, WorkConserving
  <1> QED
    BY InitInv, NextInv, <1>1, NextWorkConserving, PTL DEF Spec

-----------------------------------------------------------------------------
(* Each step of the pool is a step of TaskPool, or leaves its view alone.  *)
LEMMA StepRefines == Inv /\ [Next]_vars => [Abstract!Next]_(Abstract!vars)
  <1> SUFFICES ASSUME Inv, [Next]_vars
               PROVE  [Abstract!Next]_(Abstract!vars)
    OBVIOUS
  <1> USE DistinctThreads, NoTaskIsFresh
          DEF Inv, TypeOK, ThreadsInStep, Abstract!vars
  <1>1. ASSUME NEW w \in Workers, TakeTask(w) PROVE Abstract!Take(w)
    BY <1>1 DEF TakeTask, InWait, Abstract!Take
  <1>2. ASSUME NEW w \in Workers, FinishTask(w) PROVE Abstract!Finish(w)
    BY <1>2 DEF FinishTask, Abstract!Finish
  <1>3. ASSUME NEW c \in Clients, NEW t \in Tasks, Submit(c, t) PROVE Abstract!Submit(t)
    BY <1>3 DEF Submit, Fresh, Abstract!Submit, Abstract!Accepted
  <1>4. CASE SetStop
    BY <1>4 DEF SetStop, Abstract!Close, Abstract!Next
  <1>5. CASE Joined
    <2>1. Abstract!Drained
      BY <1>5, AtLeastOneWorker DEF Joined, Abstract!Drained
    <2> QED
      BY <1>5, <2>1 DEF Joined, Abstract!Closed, Abstract!Next
  <1>6. ASSUME NEW w \in Workers, Park(w) \/ WorkerExit(w)
        PROVE  UNCHANGED Abstract!vars
    BY <1>6 DEF Park, WorkerExit
  <1>7. ASSUME NEW c \in Clients, NotifyOne(c) \/ WaitAll(c) \/ WaitAllWakes(c)
        PROVE  UNCHANGED Abstract!vars
    BY <1>7 DEF NotifyOne, WaitAll, WaitAllWakes
  <1>8. ASSUME NEW x \in Workers \cup Clients, SpuriousWake(x)
        PROVE  UNCHANGED Abstract!vars
    BY <1>8 DEF SpuriousWake
  <1>9. CASE NotifyAll \/ UNCHANGED vars
    BY <1>9 DEF NotifyAll, vars
  <1> QED
    BY <1>1, <1>2, <1>3, <1>4, <1>5, <1>6, <1>7, <1>8, <1>9
       DEF Next, Worker, Client, Destructor, Abstract!Next

(* The pool implements TaskPool: order of start, each task once, and a     *)
(* destructor that drains.                                                 *)
THEOREM PoolRefinesTaskPool == Spec => RefinesTaskPool
  <1>1. Init => Abstract!Init
    BY DEF Init, Abstract!Init
  <1> QED
    BY InitInv, NextInv, <1>1, StepRefines, PTL DEF Spec, RefinesTaskPool, Abstract!Spec

(* So what is proved of TaskPool is true of this pool: every task that was *)
(* accepted is in the queue, or run by one worker, or has been run, never  *)
(* two of these; none is lost, and the destructor returns when all have    *)
(* been run, whatever clients, waiters, spurious wake-ups and the          *)
(* destructor do in between (ThreadPool.hpp 30-70).                        *)
THEOREM TasksRunOnce == Spec => []Abstract!InOnePlace /\ Abstract!NoneIsLost
<1>1. Abstract!Spec => []Abstract!InOnePlace /\ Abstract!NoneIsLost
  BY NoTaskIsFresh, Abstract!EachOnce, Abstract!NeverLost, PTL
<1> QED BY <1>1, PoolRefinesTaskPool, PTL DEF RefinesTaskPool
=============================================================================
