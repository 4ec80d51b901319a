----------------------------- MODULE ThreadPool -----------------------------
(***************************************************************************)
(* utils/ThreadPool.hpp: a queue under queueMutex_, one condition variable *)
(* shared by the workers and by waitAll(), an atomic stop_ flag, and a     *)
(* destructor that joins the workers.                                      *)
(*                                                                         *)
(* A critical section of queueMutex_ is one action.  notify_one() and      *)
(* notify_all() come after the unlock, so they are steps of their own.     *)
(* parked is the set of threads asleep in condition_.wait: waking one      *)
(* takes it out of the set, and it evaluates its predicate again in a      *)
(* later step.                                                             *)
(***************************************************************************)
EXTENDS Naturals, Sequences, FiniteSets

CONSTANTS Tasks, Workers, NoTask,
          Clients    \* the threads that call submit(), enqueue() and waitAll()

ASSUME NoTaskIsFresh == NoTask \notin Tasks
ASSUME DistinctThreads == Workers \cap Clients = {}
ASSUME AtLeastOneWorker == Workers # {} /\ IsFiniteSet(Workers)
ASSUME FinitelyManyClients == IsFiniteSet(Clients)

VARIABLES tasks,     \* tasks_
          stop,      \* stop_
          parked,    \* the threads asleep in condition_.wait
          running,   \* the task each worker took out of the queue
          done,      \* the tasks that have returned
          wpc,       \* a worker is in its "loop", in task() ("run"), or over ("exit")
          cpc,       \* a client is "idle", about to "notify", or in "waitAll"
          dpc        \* the destructor: "alive", "notify", "join", "gone"

vars == <<tasks, stop, parked, running, done, wpc, cpc, dpc>>

-----------------------------------------------------------------------------
Init == /\ tasks = <<>>
        /\ stop = FALSE
        /\ parked = {}
        /\ running = [w \in Workers |-> NoTask]
        /\ done = {}
        /\ wpc = [w \in Workers |-> "loop"]
        /\ cpc = [c \in Clients |-> "idle"]
        /\ dpc = "alive"

Fresh(t) == /\ \A i \in 1..Len(tasks) : tasks[i] # t
            /\ \A w \in Workers : running[w] # t
            /\ t \notin done

InWait(w) == wpc[w] = "loop" /\ w \notin parked

(* Mutant: the worker waits without its predicate.                         *)
ParkUnchecked(w) == /\ InWait(w)
                    /\ parked' = parked \cup {w}
                    /\ UNCHANGED <<tasks, stop, running, done, wpc, cpc, dpc>>

(* The predicate of the worker's wait is false: the lock is released and   *)
(* the thread sleeps.                                                      *)
Park(w) == /\ InWait(w)
           /\ ~stop /\ tasks = <<>>
           /\ parked' = parked \cup {w}
           /\ UNCHANGED <<tasks, stop, running, done, wpc, cpc, dpc>>

(* Mutant: the worker leaves on stop_ alone, with tasks still queued.      *)
ExitOnStop(w) == /\ InWait(w)
                 /\ stop
                 /\ wpc' = [wpc EXCEPT ![w] = "exit"]
                 /\ UNCHANGED <<tasks, stop, parked, running, done, cpc, dpc>>

WorkerExit(w) == /\ InWait(w)
                 /\ stop /\ tasks = <<>>
                 /\ wpc' = [wpc EXCEPT ![w] = "exit"]
                 /\ UNCHANGED <<tasks, stop, parked, running, done, cpc, dpc>>

TakeTask(w) == /\ InWait(w)
               /\ tasks # <<>>
               /\ running' = [running EXCEPT ![w] = Head(tasks)]
               /\ tasks' = Tail(tasks)
               /\ wpc' = [wpc EXCEPT ![w] = "run"]
               /\ UNCHANGED <<stop, parked, done, cpc, dpc>>

(* Mutant: the worker's task is cleared before it is recorded.             *)
FinishSwapped(w) == /\ wpc[w] = "run"
                    /\ running' = [running EXCEPT ![w] = NoTask]
                    /\ done' = done \cup {running'[w]}
                    /\ wpc' = [wpc EXCEPT ![w] = "loop"]
                    /\ UNCHANGED <<tasks, stop, parked, cpc, dpc>>

FinishTask(w) == /\ wpc[w] = "run"
                 /\ done' = done \cup {running[w]}
                 /\ running' = [running EXCEPT ![w] = NoTask]
                 /\ wpc' = [wpc EXCEPT ![w] = "loop"]
                 /\ UNCHANGED <<tasks, stop, parked, cpc, dpc>>

-----------------------------------------------------------------------------
(* Mutant: submit() forgets condition_.notify_one().                       *)
SubmitSilently(c, t) == /\ cpc[c] = "idle" /\ dpc # "gone"
                        /\ ~stop
                        /\ Fresh(t)
                        /\ tasks' = Append(tasks, t)
                        /\ UNCHANGED <<stop, parked, running, done, wpc, cpc, dpc>>

(* submit() and enqueue(): the test of stop_ and the push are one critical *)
(* section.  A stopped pool takes nothing (submit returns, enqueue         *)
(* throws), which leaves this state as it is.                              *)
Submit(c, t) == /\ cpc[c] = "idle" /\ dpc # "gone"
                /\ ~stop
                /\ Fresh(t)
                /\ tasks' = Append(tasks, t)
                /\ cpc' = [cpc EXCEPT ![c] = "notify"]
                /\ UNCHANGED <<stop, parked, running, done, wpc, dpc>>

NotifyOne(c) == /\ cpc[c] = "notify"
                /\ cpc' = [cpc EXCEPT ![c] = "idle"]
                /\ IF parked = {} THEN UNCHANGED parked
                   ELSE \E x \in parked : parked' = parked \ {x}
                /\ UNCHANGED <<tasks, stop, running, done, wpc, dpc>>

(* waitAll() sleeps on the same condition variable as the workers, and     *)
(* nothing notifies it when the queue runs empty.                          *)
WaitAll(c) == /\ cpc[c] = "idle" /\ dpc = "alive"
              /\ tasks # <<>>
              /\ cpc' = [cpc EXCEPT ![c] = "waitAll"]
              /\ parked' = parked \cup {c}
              /\ UNCHANGED <<tasks, stop, running, done, wpc, dpc>>

WaitAllWakes(c) == /\ cpc[c] = "waitAll" /\ c \notin parked
                   /\ IF tasks = <<>>
                      THEN cpc' = [cpc EXCEPT ![c] = "idle"] /\ UNCHANGED parked
                      ELSE parked' = parked \cup {c} /\ UNCHANGED cpc
                   /\ UNCHANGED <<tasks, stop, running, done, wpc, dpc>>

(* condition_variable::wait may return with no notification.               *)
SpuriousWake(x) == /\ x \in parked
                   /\ parked' = parked \ {x}
                   /\ UNCHANGED <<tasks, stop, running, done, wpc, cpc, dpc>>

-----------------------------------------------------------------------------
(* ~ThreadPool().  A caller's duty, kept by both owners of a pool: nobody   *)
(* is inside waitAll() when the destructor starts, and a submit() under    *)
(* way returns before the object is freed.                                 *)
SetStop == /\ dpc = "alive"
           /\ \A c \in Clients : cpc[c] # "waitAll"
           /\ stop' = TRUE
           /\ dpc' = "notify"
           /\ UNCHANGED <<tasks, parked, running, done, wpc, cpc>>

(* Mutant: the destructor calls notify_one().                              *)
NotifyJustOne == /\ dpc = "notify"
                 /\ IF parked = {} THEN UNCHANGED parked
                    ELSE \E x \in parked : parked' = parked \ {x}
                 /\ dpc' = "join"
                 /\ UNCHANGED <<tasks, stop, running, done, wpc, cpc>>

NotifyAll == /\ dpc = "notify"
             /\ parked' = {}
             /\ dpc' = "join"
             /\ UNCHANGED <<tasks, stop, running, done, wpc, cpc>>

Joined == /\ dpc = "join"
          /\ \A w \in Workers : wpc[w] = "exit"
          /\ \A c \in Clients : cpc[c] # "notify"
          /\ dpc' = "gone"
          /\ UNCHANGED <<tasks, stop, parked, running, done, wpc, cpc>>

-----------------------------------------------------------------------------
Worker(w) == Park(w) \/ WorkerExit(w) \/ TakeTask(w) \/ FinishTask(w)

Client(c) == \/ \E t \in Tasks : Submit(c, t)
             \/ NotifyOne(c)
             \/ WaitAll(c)
             \/ WaitAllWakes(c)

Destructor == SetStop \/ NotifyAll \/ Joined

Next == \/ \E w \in Workers : Worker(w)
        \/ \E c \in Clients : Client(c)
        \/ \E x \in Workers \cup Clients : SpuriousWake(x)
        \/ Destructor

Spec == Init /\ [][Next]_vars

(* The operating system keeps scheduling every thread that is not blocked, *)
(* and a task returns.  Nobody owes another submit, waitAll or delete, and *)
(* spurious wake-ups are not owed either.                                  *)
Fairness == /\ \A w \in Workers : WF_vars(Worker(w))
            /\ \A c \in Clients : WF_vars(NotifyOne(c)) /\ WF_vars(WaitAllWakes(c))
            /\ WF_vars(NotifyAll) /\ WF_vars(Joined)

FairSpec == Spec /\ Fairness
-----------------------------------------------------------------------------
TypeOK == /\ tasks \in Seq(Tasks)
          /\ stop \in BOOLEAN
          /\ parked \subseteq Workers \cup Clients
          /\ running \in [Workers -> Tasks \cup {NoTask}]
          /\ done \subseteq Tasks
          /\ wpc \in [Workers -> {"loop", "run", "exit"}]
          /\ cpc \in [Clients -> {"idle", "notify", "waitAll"}]
          /\ dpc \in {"alive", "notify", "join", "gone"}

Awake == {w \in Workers : InWait(w)}
Notifying == {c \in Clients : cpc[c] = "notify"}
WaitAllCallers == {c \in Clients : cpc[c] = "waitAll"}

(* What ties the threads' program counters to the data; with WorkConserving *)
(* it is inductive (ThreadPoolProofs).                                     *)
ThreadsInStep ==
    /\ \A w \in Workers : /\ w \in parked => wpc[w] = "loop"
                          /\ wpc[w] = "run" <=> running[w] # NoTask
                          /\ wpc[w] = "exit" => stop /\ tasks = <<>>
    /\ \A c \in Clients : c \in parked => cpc[c] = "waitAll"
    /\ stop <=> dpc # "alive"
    /\ dpc = "gone" => \A w \in Workers : wpc[w] = "exit"

(* No wake-up is lost: as long as nobody calls waitAll(), a worker sleeps  *)
(* only if every queued task has an awake worker or a notify_one() on the  *)
(* way to it (or the destructor's notify_all() is).  The code relies on    *)
(* tasks_ and stop_ being written under queueMutex_ before the unlock that *)
(* precedes each notify (ThreadPool.hpp:90-100, 110-120, 58-63).           *)
WorkConserving ==
    (WaitAllCallers = {} /\ parked # {} /\ dpc # "notify")
        => Len(tasks) <= Cardinality(Awake) + Cardinality(Notifying)

(* The pool keeps TaskPool's promise: tasks start in the order they were   *)
(* accepted, none is dropped or run twice, and the destructor returns only *)
(* once all of them have run.                                              *)
Abstract == INSTANCE TaskPool
    WITH queue <- tasks,
         phase <- IF dpc = "gone" THEN "closed"
                  ELSE IF stop THEN "closing" ELSE "open"

RefinesTaskPool == Abstract!Spec

(* Every accepted task runs, unless a waitAll() caller sleeps on the       *)
(* workers' condition variable: it can take the one wake-up that was meant *)
(* for a worker, go back to sleep, and leave the task queued.              *)
EveryAcceptedTaskRuns ==
    \A t \in Tasks :
        (\E i \in 1..Len(tasks) : tasks[i] = t)
            ~> (t \in done \/ WaitAllCallers # {})

(* delete returns: every worker leaves its loop and is joined.             *)
DestructorReturns == (dpc = "notify") ~> (dpc = "gone")
=============================================================================
