------------------------ MODULE DeviceManagerProofs -------------------------
(***************************************************************************)
(* For any number of hot-plug events and of attempts, with and without     *)
(* reconnection: the types of DeviceManager, that a thread asleep in       *)
(* waitForDevice() has not missed the camera, and that a manager at rest   *)
(* knows what is on the bus.                                               *)
(*                                                                         *)
(* The waiter is safe because it holds deviceMutex_ from its predicate to  *)
(* its sleep, and a change of state needs the mutex, for the argument of   *)
(* the callback, before it notifies (Locked, ToldWaiter).  The last result *)
(* is about the calm runs, where no two threads have got in each other's   *)
(* way and stop() was not called.  There one event is handled at a time    *)
(* and its place tells what is on the bus (OneEvent, OnTheBus); one change *)
(* of state is announced at a time (Pending, Heard); and, from the moment  *)
(* the event has dropped the old handle, then from the moment it has set   *)
(* DISCONNECTED, device and state are not older than the event (Dropped,   *)
(* Lost), until the event or the worker has found the camera (Arrived).    *)
(***************************************************************************)
EXTENDS DeviceManager, TLAPS

(* Where each thread can be: an event after the camera has gone, an event  *)
(* after it has come, the worker, stop().                                  *)
Gone == {"removed", "lost", "retry"}
There == {"removedAdded", "lostAdded", "retryAdded", "added", "grab", "found", "done"}
EventPlaces == {"out", "over"} \cup Gone \cup There
WorkerPlaces == {"idle", "check", "try", "delay", "query", "grab", "found", "done",
                 "verdict", "fail", "giveUp", "exit"}
StopPlaces == {"out", "cancel", "notify", "join", "lock", "set", "unlock", "over"}
Placed == /\ \A e \in Events : pc[e] \in EventPlaces
          /\ pc[Worker] \in WorkerPlaces
          /\ pc[Stopper] \in StopPlaces
          /\ pc[Stopper] = "out" => ~shouldStop

(* Who holds deviceMutex_ from step to step.                               *)
Locked == /\ waiter = "checked" => held = Waiter
          /\ pc[Stopper] \in {"set", "unlock"} => held = Stopper

(* CONNECTED is still to be announced to a waiter about to sleep, and      *)
(* still to be notified to one that sleeps.                                *)
ToldWaiter ==
    deviceState = "CONNECTED" =>
        /\ waiter = "checked" => \E t \in Setters : setting[t] = "CONNECTED"
        /\ waiter = "parked" => \E t \in Setters : setting[t] = "CONNECTED" \/ t \in notifying

(* Nothing has crossed and stop() was not called.                          *)
Calm == ~crossed /\ pc[Stopper] = "out"

(* One hot-plug event is handled at a time, and what it is about is true.  *)
OneEvent == \A e, f \in Events : Active(e) /\ Active(f) => e = f
OnTheBus == \A e \in Events : /\ pc[e] \in Gone => ~plugged
                              /\ pc[e] \in There => plugged

(* At most one thread is announcing, and what it announces is the state;   *)
(* the pipelines have heard of every state but that one.                   *)
Pending == /\ \A t, u \in Setters : setting[t] # "none" /\ setting[u] # "none" => t = u
           /\ \A t \in Setters : setting[t] \in {"none", deviceState}

Silent == \A t \in Setters : setting[t] = "none"
Heard == Silent /\ pipelines => deviceState = "CONNECTED"

(* After handleDeviceDisconnection() has dropped the handle, every handle  *)
(* a thread has, or is about to store, is of the camera on the bus.        *)
Dropped ==
    (\A e \in Events : pc[e] \notin Disconnecting) =>
        /\ ~plugged => device = "none" /\ \A t \in Setters : ~Grabbing(t)
        /\ plugged => \A t \in Setters : /\ pc[t] = "grab" => list[t] = "live"
                                         /\ pc[t] = "found" => device = "live"

(* After it has set DISCONNECTED, CONNECTED means the camera on the bus.   *)
Lost ==
    (\A e \in Events : pc[e] \notin Disconnecting \cup {"lost", "lostAdded"}) =>
        (deviceState = "CONNECTED" =>
            plugged /\ device = "live" /\ (Silent => pipelines \/ "pipelines" \in refused))

(* A camera whose event has been handled is CONNECTED, unless it has       *)
(* refused, or the worker is on its way to find it (again).                *)
Arrived ==
    plugged /\ (\A e \in Events : pc[e] \in {"out", "over", "done"}) =>
        \/ deviceState = "CONNECTED" \/ "connection" \in refused
        \/ pc[Worker] \in {"delay", "query", "grab", "found"}

(* The calm runs follow the bus; the rest holds in every run.              *)
Following == OneEvent /\ OnTheBus /\ Pending /\ Heard /\ Dropped /\ Lost /\ Arrived
IInv == Placed /\ Locked /\ ToldWaiter /\ (Calm => Following)
-----------------------------------------------------------------------------
(* The threads have different numbers.                                     *)
LEMMA Names == /\ Events \subseteq Setters /\ Worker \in Setters /\ Stopper \in Setters
               /\ Worker \notin Events /\ Stopper \notin Events /\ Stopper # Worker
               /\ Waiter # Stopper /\ Waiter # Nobody /\ Stopper # Nobody
               /\ \A t \in Setters : t \in Events \/ t = Worker \/ t = Stopper
BY ConfigAssumption DEF Events, Setters, Worker, Stopper, Waiter, Nobody

(* initialize() and start() leave every variable in its type.              *)
LEMMA TypeStarts == Init => TypeOK
<1> SUFFICES ASSUME Init PROVE TypeOK
  OBVIOUS
<1>1. pc \in [Setters -> Places] /\ list \in [Setters -> Handles]
      /\ setting \in [Setters -> DeviceStates \cup {"none"}]
  BY DEF Init, Places, Handles
<1>2. attempts \in 0..maxReconnectAttempts
  BY ConfigAssumption DEF Init
<1> QED BY <1>1, <1>2 DEF Init, TypeOK, Handles, DeviceStates

(* A thread goes from place to place.                                      *)
LEMMA GoesTyped ==
    ASSUME TypeOK, NEW t \in Setters, NEW l \in Places, Goes(t, l)
    PROVE  pc' \in [Setters -> Places]
BY DEF TypeOK, Goes

(* setDeviceState() stores a state and has it announced.                   *)
LEMMA ExchangeTyped ==
    ASSUME TypeOK, NEW t \in Setters, NEW s \in DeviceStates, Exchange(t, s)
    PROVE  /\ deviceState' \in DeviceStates /\ crossed' \in BOOLEAN
           /\ refused' \subseteq Refusals
           /\ setting' \in [Setters -> DeviceStates \cup {"none"}]
<1>1. crossed' \in BOOLEAN /\ refused' \subseteq Refusals
  BY DEF Exchange, Crosses, TypeOK
<1> QED BY <1>1 DEF TypeOK, Exchange

(* attemptConnection() stores handles, whether it fails or not.            *)
LEMMA AttemptTyped ==
    ASSUME TypeOK, NEW t \in Setters, NEW found, NEW failed,
           Query(t, found, failed) \/ Grab(t, found, failed)
    PROVE  /\ list' \in [Setters -> Handles] /\ device' \in Handles
           /\ refused' \subseteq Refusals
<1>1. CASE Query(t, found, failed)
  BY <1>1 DEF Query, Refuses, Gives, Handles, Refusals, TypeOK
<1>2. CASE Grab(t, found, failed)
  BY <1>2 DEF Grab, Refuses, Gives, Handles, Refusals, TypeOK
<1> QED BY <1>1, <1>2

(* Every step keeps the types; attempts_ stays within its limit.           *)
LEMMA TypeKept == TypeOK /\ [Next]_vars => TypeOK'
<1> SUFFICES ASSUME TypeOK, [Next]_vars PROVE TypeOK'
  OBVIOUS
<1> USE Names DEF atomics, announcing, vars
<1>1. ASSUME NEW e \in Events, Unplug(e) \/ Plug(e) \/ Reboot(e) PROVE TypeOK'
  <2>0. PICK there \in BOOLEAN, first \in {"removed", "added", "removedAdded"} :
             HotPlug(e, there, first)
    BY <1>1 DEF Unplug, Plug, Reboot
  <2>1. pc' \in [Setters -> Places]
    BY <2>0, GoesTyped DEF HotPlug, Places
  <2>2. crossed' \in BOOLEAN /\ refused' \subseteq Refusals
    BY <2>0 DEF HotPlug, Crosses, TypeOK
  <2>3. device' \in Handles /\ list' \in [Setters -> Handles]
    BY <2>0 DEF HotPlug, Aged, Handles, TypeOK
  <2> QED BY <2>0, <2>1, <2>2, <2>3 DEF HotPlug, TypeOK
<1>2. ASSUME NEW e \in Events, DropDevice(e) PROVE TypeOK'
  <2>1. pc' \in [Setters -> Places]
    BY <1>2, GoesTyped DEF DropDevice, Places
  <2>2. crossed' \in BOOLEAN /\ device' \in Handles /\ refused' \subseteq Refusals
    BY <1>2 DEF DropDevice, Handles, Crosses, TypeOK
  <2> QED BY <1>2, <2>1, <2>2 DEF DropDevice, TypeOK
<1>3. ASSUME NEW e \in Events, SetLost(e) PROVE TypeOK'
  <2>1. pc' \in [Setters -> Places]
    BY <1>3, GoesTyped DEF SetLost, Places
  <2>2. deviceState' \in DeviceStates /\ crossed' \in BOOLEAN
        /\ refused' \subseteq Refusals
        /\ setting' \in [Setters -> DeviceStates \cup {"none"}]
    BY <1>3, ExchangeTyped DEF SetLost, DeviceStates
  <2> QED BY <1>3, <2>1, <2>2 DEF SetLost, TypeOK
<1>4. ASSUME NEW e \in Events, AskRetry(e) PROVE TypeOK'
  <2>1. pc' \in [Setters -> Places]
    BY <1>4, GoesTyped DEF AskRetry, Wake, Places
  <2>3. attempts' \in 0..maxReconnectAttempts
    BY <1>4, ConfigAssumption DEF AskRetry, Wake, TypeOK
  <2> QED BY <1>4, <2>1, <2>3 DEF AskRetry, Wake, TypeOK
<1>5. ASSUME NEW e \in Events, QueryAdded(e) \/ GrabAdded(e) PROVE TypeOK'
  <2>1. pc' \in [Setters -> Places]
    BY <1>5, GoesTyped DEF QueryAdded, GrabAdded, Query, Grab, Handles, Places
  <2>2. list' \in [Setters -> Handles] /\ device' \in Handles /\ refused' \subseteq Refusals
    BY <1>5, AttemptTyped DEF QueryAdded, GrabAdded
  <2> QED BY <1>5, <2>1, <2>2 DEF QueryAdded, GrabAdded, Query, Grab, TypeOK
<1>6. ASSUME NEW e \in Events, SetFound(e, "done") PROVE TypeOK'
  <2>1. pc' \in [Setters -> Places]
    BY <1>6, GoesTyped DEF SetFound, Places
  <2>2. deviceState' \in DeviceStates /\ crossed' \in BOOLEAN
        /\ refused' \subseteq Refusals
        /\ setting' \in [Setters -> DeviceStates \cup {"none"}]
    BY <1>6, ExchangeTyped DEF SetFound, DeviceStates
  <2> QED BY <1>6, <2>1, <2>2 DEF SetFound, TypeOK
<1>7. ASSUME NEW e \in Events, EventDone(e) PROVE TypeOK'
  <2>1. pc' \in [Setters -> Places]
    BY <1>7, GoesTyped DEF EventDone, RetryDone, Places
  <2>3. attempts' \in 0..maxReconnectAttempts
    BY <1>7, ConfigAssumption DEF EventDone, RetryDone, TypeOK
  <2> QED BY <1>7, <2>1, <2>3 DEF EventDone, RetryDone, TypeOK
<1>8. CASE WorkerIdle \/ Retry \/ Delay \/ Verdict \/ GiveUp \/ WorkerDone
  <2>1. pc' \in [Setters -> Places]
    BY <1>8, GoesTyped DEF WorkerIdle, Retry, Delay, Verdict, GiveUp, WorkerDone, RetryDone,
       WorkerGoes, Places
  <2>2. attempts' \in 0..maxReconnectAttempts
    BY <1>8, ConfigAssumption DEF WorkerIdle, Retry, Delay, Verdict, GiveUp, WorkerDone, RetryDone,
       WorkerGoes, TypeOK
  <2> QED BY <1>8, <2>1, <2>2 DEF WorkerIdle, Retry, Delay, Verdict, GiveUp, WorkerDone, RetryDone,
          WorkerGoes, TypeOK
<1>9. CASE SetRetrying \/ SetError
  <2>1. pc' \in [Setters -> Places]
    BY <1>9, GoesTyped DEF SetRetrying, SetError, Places
  <2>2. deviceState' \in DeviceStates /\ crossed' \in BOOLEAN
        /\ refused' \subseteq Refusals
        /\ setting' \in [Setters -> DeviceStates \cup {"none"}]
    BY <1>9, ExchangeTyped DEF SetRetrying, SetError, DeviceStates
  <2> QED BY <1>9, <2>1, <2>2 DEF SetRetrying, SetError, TypeOK
<1>10. CASE QueryRetry \/ GrabRetry
  <2>1. pc' \in [Setters -> Places]
    BY <1>10, GoesTyped DEF QueryRetry, GrabRetry, Query, Grab, Handles, Places
  <2>2. list' \in [Setters -> Handles] /\ device' \in Handles /\ refused' \subseteq Refusals
    BY <1>10, AttemptTyped DEF QueryRetry, GrabRetry
  <2> QED BY <1>10, <2>1, <2>2 DEF QueryRetry, GrabRetry, Query, Grab, TypeOK
<1>11. CASE SetFound(Worker, "done")
  <2>1. pc' \in [Setters -> Places]
    BY <1>11, GoesTyped DEF SetFound, Places
  <2>2. deviceState' \in DeviceStates /\ crossed' \in BOOLEAN
        /\ refused' \subseteq Refusals
        /\ setting' \in [Setters -> DeviceStates \cup {"none"}]
    BY <1>11, ExchangeTyped DEF SetFound, DeviceStates
  <2> QED BY <1>11, <2>1, <2>2 DEF SetFound, TypeOK
<1>12. ASSUME NEW t \in Setters, Announce(t) PROVE TypeOK'
  BY <1>12 DEF Announce, Refuses, Gives, Refusals, TypeOK
<1>13. ASSUME NEW t \in Setters, NotifyConnected(t) PROVE TypeOK'
  BY <1>13 DEF NotifyConnected, Wake, TypeOK
<1>14. CASE WaitForDevice \/ WaiterParks \/ WaitTimesOut
  BY <1>14 DEF WaitForDevice, WaiterParks, WaitTimesOut, WaitIsOver, TypeOK
<1>15. CASE StopFlag \/ StopCancel \/ StopNotify \/ StopJoin
  <2>1. pc' \in [Setters -> Places]
    BY <1>15, GoesTyped DEF StopFlag, StopCancel, StopNotify, StopJoin, Wake, Places
  <2> QED BY <1>15, <2>1 DEF StopFlag, StopCancel, StopNotify, StopJoin, Wake, Crosses, TypeOK
<1>16. CASE StopLock \/ StopUnlock
  <2>1. pc' \in [Setters -> Places]
    BY <1>16, GoesTyped DEF StopLock, StopUnlock, Handles, Places
  <2> QED BY <1>16, <2>1 DEF StopLock, StopUnlock, Handles, TypeOK
<1>17. CASE StopSet
  <2>1. pc' \in [Setters -> Places]
    BY <1>17, GoesTyped DEF StopSet, Places
  <2>2. deviceState' \in DeviceStates /\ crossed' \in BOOLEAN
        /\ refused' \subseteq Refusals
        /\ setting' \in [Setters -> DeviceStates \cup {"none"}]
    BY <1>17, ExchangeTyped DEF StopSet, DeviceStates
  <2> QED BY <1>17, <2>1, <2>2 DEF StopSet, TypeOK
<1>18. CASE UNCHANGED vars
  BY <1>18 DEF vars, TypeOK
<1> QED BY <1>1, <1>2, <1>3, <1>4, <1>5, <1>6, <1>7, <1>8, <1>9, <1>10, <1>11, <1>12, <1>13,
           <1>14, <1>15, <1>16, <1>17, <1>18
        DEF Next, Event, Reconnection, StopRest

(* Every thread keeps to the places of its own function.                   *)
LEMMA PlacedKept == TypeOK /\ Placed /\ [Next]_vars => Placed'
<1> SUFFICES ASSUME TypeOK, Placed, [Next]_vars PROVE Placed'
  OBVIOUS
<1> USE Names DEF atomics, announcing, Crosses, Refuses, Gives,
        Placed, EventPlaces, WorkerPlaces, StopPlaces, Gone, There
<1>1. ASSUME NEW e \in Events, Unplug(e) \/ Plug(e) \/ Reboot(e) PROVE Placed'
  BY <1>1 DEF Unplug, Plug, Reboot, HotPlug, Goes, TypeOK, Disconnecting
<1>2. ASSUME NEW e \in Events, DropDevice(e) PROVE Placed'
  BY <1>2 DEF DropDevice, Free, Goes, TypeOK, Disconnecting
<1>3. ASSUME NEW e \in Events, SetLost(e) PROVE Placed'
  BY <1>3 DEF SetLost, Free, Exchange, Goes, TypeOK, Disconnecting
<1>4. ASSUME NEW e \in Events, AskRetry(e) PROVE Placed'
  BY <1>4 DEF AskRetry, Free, Wake, Goes, TypeOK, Disconnecting
<1>5. ASSUME NEW e \in Events, QueryAdded(e) \/ GrabAdded(e) PROVE Placed'
  BY <1>5 DEF QueryAdded, GrabAdded, Query, Grab, At, Free, Goes, TypeOK, Disconnecting
<1>6. ASSUME NEW e \in Events, SetFound(e, "done") PROVE Placed'
  BY <1>6 DEF SetFound, At, Free, Exchange, Goes, TypeOK, Disconnecting
<1>7. ASSUME NEW e \in Events, EventDone(e) PROVE Placed'
  BY <1>7 DEF EventDone, RetryDone, At, Free, Goes, TypeOK, Disconnecting
<1>8. CASE WorkerIdle \/ Retry \/ Delay \/ Verdict \/ GiveUp \/ WorkerDone
  BY <1>8 DEF WorkerIdle, Retry, Delay, Verdict, GiveUp, WorkerDone, RetryDone,
     WorkerGoes, At, Free, Goes, TypeOK, Disconnecting
<1>9. CASE SetRetrying \/ SetError
  <2>1. \/ pc' = [pc EXCEPT ![Worker] = "delay"]
        \/ pc' = [pc EXCEPT ![Worker] = "giveUp"]
    BY <1>9 DEF SetRetrying, SetError, Goes
  <2>2. UNCHANGED shouldStop
    BY <1>9 DEF SetRetrying, SetError
  <2> QED BY <2>1, <2>2 DEF TypeOK
<1>10. CASE QueryRetry \/ GrabRetry
  BY <1>10 DEF QueryRetry, GrabRetry, Query, Grab, At, Free, Goes, TypeOK, Disconnecting
<1>11. CASE SetFound(Worker, "done")
  BY <1>11 DEF SetFound, At, Free, Exchange, Goes, TypeOK, Disconnecting
<1>12. ASSUME NEW t \in Setters, Announce(t) PROVE Placed'
  BY <1>12 DEF Announce, TypeOK, Disconnecting
<1>13. ASSUME NEW t \in Setters, NotifyConnected(t) PROVE Placed'
  BY <1>13 DEF NotifyConnected, Wake, TypeOK, Disconnecting
<1>14. CASE WaitForDevice \/ WaiterParks \/ WaitTimesOut
  BY <1>14 DEF WaitForDevice, WaiterParks, WaitTimesOut, WaitIsOver, TypeOK, Disconnecting
<1>15. CASE StopFlag \/ StopCancel \/ StopNotify \/ StopJoin
  BY <1>15 DEF StopFlag, StopCancel, StopNotify, StopJoin, Wake, At, Free, Goes, TypeOK,
     Disconnecting
<1>16. CASE StopLock \/ StopUnlock
  BY <1>16 DEF StopLock, StopUnlock, At, Free, Goes, TypeOK, Disconnecting
<1>17. CASE StopSet
  BY <1>17 DEF StopSet, At, Free, Exchange, Goes, TypeOK, Disconnecting
<1>18. CASE UNCHANGED vars
  BY <1>18 DEF vars, Disconnecting
<1> QED BY <1>1, <1>2, <1>3, <1>4, <1>5, <1>6, <1>7, <1>8, <1>9, <1>10, <1>11, <1>12, <1>13,
           <1>14, <1>15, <1>16, <1>17, <1>18
        DEF Next, Event, Reconnection, StopRest

(* deviceMutex_ is left by the thread that took it.                        *)
LEMMA LockedKept == TypeOK /\ Placed /\ Locked /\ [Next]_vars => Locked'
<1> SUFFICES ASSUME TypeOK, Placed, Locked, [Next]_vars PROVE Locked'
  OBVIOUS
<1> USE Names DEF atomics, announcing, Crosses, Refuses, Gives, Locked
<1>1. ASSUME NEW e \in Events, Unplug(e) \/ Plug(e) \/ Reboot(e) PROVE Locked'
  BY <1>1 DEF Unplug, Plug, Reboot, HotPlug, Goes, TypeOK
<1>2. ASSUME NEW e \in Events, DropDevice(e) PROVE Locked'
  BY <1>2 DEF DropDevice, Free, Goes, TypeOK
<1>3. ASSUME NEW e \in Events, SetLost(e) PROVE Locked'
  BY <1>3 DEF SetLost, Free, Exchange, Goes, TypeOK
<1>4. ASSUME NEW e \in Events, AskRetry(e) PROVE Locked'
  BY <1>4 DEF AskRetry, Free, Wake, Goes, TypeOK
<1>5. ASSUME NEW e \in Events, QueryAdded(e) \/ GrabAdded(e) PROVE Locked'
  BY <1>5 DEF QueryAdded, GrabAdded, Query, Grab, At, Free, Goes, TypeOK
<1>6. ASSUME NEW e \in Events, SetFound(e, "done") PROVE Locked'
  BY <1>6 DEF SetFound, At, Free, Exchange, Goes, TypeOK
<1>7. ASSUME NEW e \in Events, EventDone(e) PROVE Locked'
  BY <1>7 DEF EventDone, RetryDone, At, Free, Goes, TypeOK
<1>8. CASE WorkerIdle \/ Retry \/ Delay \/ Verdict \/ GiveUp \/ WorkerDone
  BY <1>8 DEF WorkerIdle, Retry, Delay, Verdict, GiveUp, WorkerDone, RetryDone,
     WorkerGoes, At, Free, Goes, TypeOK
<1>9. CASE SetRetrying \/ SetError
  BY <1>9 DEF SetRetrying, SetError, At, Free, Exchange, Goes, TypeOK
<1>10. CASE QueryRetry \/ GrabRetry
  BY <1>10 DEF QueryRetry, GrabRetry, Query, Grab, At, Free, Goes, TypeOK
<1>11. CASE SetFound(Worker, "done")
  BY <1>11 DEF SetFound, At, Free, Exchange, Goes, TypeOK
<1>12. ASSUME NEW t \in Setters, Announce(t) PROVE Locked'
  BY <1>12 DEF Announce, TypeOK
<1>13. ASSUME NEW t \in Setters, NotifyConnected(t) PROVE Locked'
  BY <1>13 DEF NotifyConnected, Wake, TypeOK
<1>14. CASE WaitForDevice \/ WaiterParks \/ WaitTimesOut
  BY <1>14 DEF WaitForDevice, WaiterParks, WaitTimesOut, WaitIsOver, TypeOK
<1>15. CASE StopFlag \/ StopCancel \/ StopNotify \/ StopJoin
  BY <1>15 DEF StopFlag, StopCancel, StopNotify, StopJoin, Wake, At, Free, Goes, TypeOK
<1>16. CASE StopLock \/ StopUnlock
  BY <1>16 DEF StopLock, StopUnlock, At, Free, Goes, TypeOK
<1>17. CASE StopSet
  BY <1>17 DEF StopSet, At, Free, Exchange, Goes, TypeOK
<1>18. CASE UNCHANGED vars
  BY <1>18 DEF vars
<1> QED BY <1>1, <1>2, <1>3, <1>4, <1>5, <1>6, <1>7, <1>8, <1>9, <1>10, <1>11, <1>12, <1>13,
           <1>14, <1>15, <1>16, <1>17, <1>18
        DEF Next, Event, Reconnection, StopRest

(* setDeviceState() cannot get past its callback, and so not notify, while *)
(* the waiter is between its predicate and its sleep.                      *)
LEMMA ToldWaiterKept == TypeOK /\ Locked /\ ToldWaiter /\ [Next]_vars => ToldWaiter'
<1> SUFFICES ASSUME TypeOK, Locked, ToldWaiter, [Next]_vars PROVE ToldWaiter'
  OBVIOUS
<1> USE Names DEF atomics, announcing, Crosses, Refuses, Gives, ToldWaiter, Locked
<1>1. ASSUME NEW e \in Events, Unplug(e) \/ Plug(e) \/ Reboot(e) PROVE ToldWaiter'
  BY <1>1 DEF Unplug, Plug, Reboot, HotPlug, Goes, TypeOK
<1>2. ASSUME NEW e \in Events, DropDevice(e) PROVE ToldWaiter'
  BY <1>2 DEF DropDevice, Free, Goes, TypeOK
<1>3. ASSUME NEW e \in Events, SetLost(e) PROVE ToldWaiter'
  BY <1>3 DEF SetLost, Free, Exchange, Goes, TypeOK
<1>4. ASSUME NEW e \in Events, AskRetry(e) PROVE ToldWaiter'
  BY <1>4 DEF AskRetry, Free, Wake, Goes, TypeOK
<1>5. ASSUME NEW e \in Events, QueryAdded(e) \/ GrabAdded(e) PROVE ToldWaiter'
  BY <1>5 DEF QueryAdded, GrabAdded, Query, Grab, At, Free, Goes, TypeOK
<1>6. ASSUME NEW e \in Events, SetFound(e, "done") PROVE ToldWaiter'
  BY <1>6 DEF SetFound, At, Free, Exchange, Goes, TypeOK
<1>7. ASSUME NEW e \in Events, EventDone(e) PROVE ToldWaiter'
  BY <1>7 DEF EventDone, RetryDone, At, Free, Goes, TypeOK
<1>8. CASE WorkerIdle \/ Retry \/ Delay \/ Verdict \/ GiveUp \/ WorkerDone
  BY <1>8 DEF WorkerIdle, Retry, Delay, Verdict, GiveUp, WorkerDone, RetryDone,
     WorkerGoes, At, Free, Goes, TypeOK
<1>9. CASE SetRetrying \/ SetError
  BY <1>9 DEF SetRetrying, SetError, At, Free, Exchange, Goes, TypeOK
<1>10. CASE QueryRetry \/ GrabRetry
  BY <1>10 DEF QueryRetry, GrabRetry, Query, Grab, At, Free, Goes, TypeOK
<1>11. CASE SetFound(Worker, "done")
  BY <1>11 DEF SetFound, At, Free, Exchange, Goes, TypeOK
<1>12. ASSUME NEW t \in Setters, Announce(t) PROVE ToldWaiter'
  BY <1>12 DEF Announce, TypeOK
<1>13. ASSUME NEW t \in Setters, NotifyConnected(t) PROVE ToldWaiter'
  BY <1>13 DEF NotifyConnected, Wake, TypeOK
<1>14. CASE WaitForDevice \/ WaiterParks \/ WaitTimesOut
  BY <1>14 DEF WaitForDevice, WaiterParks, WaitTimesOut, WaitIsOver, TypeOK
<1>15. CASE StopFlag \/ StopCancel \/ StopNotify \/ StopJoin
  BY <1>15 DEF StopFlag, StopCancel, StopNotify, StopJoin, Wake, At, Free, Goes, TypeOK
<1>16. CASE StopLock \/ StopUnlock
  BY <1>16 DEF StopLock, StopUnlock, At, Free, Goes, TypeOK
<1>17. CASE StopSet
  BY <1>17 DEF StopSet, At, Free, Exchange, Goes, TypeOK
<1>18. CASE UNCHANGED vars
  BY <1>18 DEF vars
<1> QED BY <1>1, <1>2, <1>3, <1>4, <1>5, <1>6, <1>7, <1>8, <1>9, <1>10, <1>11, <1>12, <1>13,
           <1>14, <1>15, <1>16, <1>17, <1>18
        DEF Next, Event, Reconnection, StopRest

-----------------------------------------------------------------------------
(* A run that is calm was calm before, and stop() takes no step in it.     *)
LEMMA CalmBefore == TypeOK /\ [Next]_vars => (Calm' => Calm)
<1> SUFFICES ASSUME TypeOK, [Next]_vars PROVE (Calm' => Calm)
  OBVIOUS
<1> USE Names DEF atomics, announcing, Crosses, Refuses, Gives, Calm
<1>1. ASSUME NEW e \in Events, Unplug(e) \/ Plug(e) \/ Reboot(e) PROVE (Calm' => Calm)
  BY <1>1 DEF Unplug, Plug, Reboot, HotPlug, Goes, TypeOK
<1>2. ASSUME NEW e \in Events, DropDevice(e) PROVE (Calm' => Calm)
  BY <1>2 DEF DropDevice, Free, Goes, TypeOK
<1>3. ASSUME NEW e \in Events, SetLost(e) PROVE (Calm' => Calm)
  BY <1>3 DEF SetLost, Free, Exchange, Goes, TypeOK
<1>4. ASSUME NEW e \in Events, AskRetry(e) PROVE (Calm' => Calm)
  BY <1>4 DEF AskRetry, Free, Wake, Goes, TypeOK
<1>5. ASSUME NEW e \in Events, QueryAdded(e) \/ GrabAdded(e) PROVE (Calm' => Calm)
  BY <1>5 DEF QueryAdded, GrabAdded, Query, Grab, At, Free, Goes, TypeOK
<1>6. ASSUME NEW e \in Events, SetFound(e, "done") PROVE (Calm' => Calm)
  BY <1>6 DEF SetFound, At, Free, Exchange, Goes, TypeOK
<1>7. ASSUME NEW e \in Events, EventDone(e) PROVE (Calm' => Calm)
  BY <1>7 DEF EventDone, RetryDone, At, Free, Goes, TypeOK
<1>8. CASE WorkerIdle \/ Retry \/ Delay \/ Verdict \/ GiveUp \/ WorkerDone
  BY <1>8 DEF WorkerIdle, Retry, Delay, Verdict, GiveUp, WorkerDone, RetryDone,
     WorkerGoes, At, Free, Goes, TypeOK
<1>9. CASE SetRetrying \/ SetError
  BY <1>9 DEF SetRetrying, SetError, At, Free, Exchange, Goes, TypeOK
<1>10. CASE QueryRetry \/ GrabRetry
  BY <1>10 DEF QueryRetry, GrabRetry, Query, Grab, At, Free, Goes, TypeOK
<1>11. CASE SetFound(Worker, "done")
  BY <1>11 DEF SetFound, At, Free, Exchange, Goes, TypeOK
<1>12. ASSUME NEW t \in Setters, Announce(t) PROVE (Calm' => Calm)
  BY <1>12 DEF Announce, TypeOK
<1>13. ASSUME NEW t \in Setters, NotifyConnected(t) PROVE (Calm' => Calm)
  BY <1>13 DEF NotifyConnected, Wake, TypeOK
<1>14. CASE WaitForDevice \/ WaiterParks \/ WaitTimesOut
  BY <1>14 DEF WaitForDevice, WaiterParks, WaitTimesOut, WaitIsOver, TypeOK
<1>15. CASE StopFlag \/ StopCancel \/ StopNotify \/ StopJoin
  BY <1>15 DEF StopFlag, StopCancel, StopNotify, StopJoin, Wake, At, Free, Goes, TypeOK
<1>16. CASE StopLock \/ StopUnlock
  BY <1>16 DEF StopLock, StopUnlock, At, Free, Goes, TypeOK
<1>17. CASE StopSet
  BY <1>17 DEF StopSet, At, Free, Exchange, Goes, TypeOK
<1>18. CASE UNCHANGED vars
  BY <1>18 DEF vars
<1> QED BY <1>1, <1>2, <1>3, <1>4, <1>5, <1>6, <1>7, <1>8, <1>9, <1>10, <1>11, <1>12, <1>13,
           <1>14, <1>15, <1>16, <1>17, <1>18
        DEF Next, Event, Reconnection, StopRest

LEMMA CalmStops == ASSUME TypeOK, Calm' PROVE ~StopFlag /\ ~StopRest
BY Names DEF Calm, TypeOK, Goes, StopFlag, StopRest, StopCancel, StopNotify, StopJoin, StopLock,
   StopSet, StopUnlock

(* A hot-plug event while another one is handled is a crossing.            *)
LEMMA OneEventKept ==
    ASSUME TypeOK, Placed, OneEvent, Calm', [Next]_vars
    PROVE  OneEvent'
<1>0. Calm
  BY CalmBefore
<1> USE Names DEF atomics, announcing, Crosses, Refuses, Gives, OneEvent, Active, Calm
<1>1. ASSUME NEW e \in Events, Unplug(e) \/ Plug(e) \/ Reboot(e) PROVE OneEvent'
  BY <1>1 DEF Unplug, Plug, Reboot, HotPlug, Goes, TypeOK, Disconnecting, Placed, EventPlaces,
     Gone, There
<1>2. ASSUME NEW e \in Events, DropDevice(e) PROVE OneEvent'
  BY <1>2 DEF DropDevice, Free, Goes, TypeOK, Disconnecting, Placed, EventPlaces, Gone, There
<1>3. ASSUME NEW e \in Events, SetLost(e) PROVE OneEvent'
  BY <1>3 DEF SetLost, Free, Exchange, Goes, TypeOK, Disconnecting, Placed, EventPlaces, Gone, There
<1>4. ASSUME NEW e \in Events, AskRetry(e) PROVE OneEvent'
  BY <1>4 DEF AskRetry, Free, Wake, Goes, TypeOK, Disconnecting, Placed, EventPlaces, Gone, There
<1>5. ASSUME NEW e \in Events, QueryAdded(e) \/ GrabAdded(e) PROVE OneEvent'
  BY <1>5 DEF QueryAdded, GrabAdded, Query, Grab, At, Free, Goes, TypeOK, Disconnecting,
     Placed, EventPlaces, Gone, There
<1>6. ASSUME NEW e \in Events, SetFound(e, "done") PROVE OneEvent'
  BY <1>6 DEF SetFound, At, Free, Exchange, Goes, TypeOK, Disconnecting, Placed, EventPlaces,
     Gone, There
<1>7. ASSUME NEW e \in Events, EventDone(e) PROVE OneEvent'
  BY <1>7 DEF EventDone, RetryDone, At, Free, Goes, TypeOK, Disconnecting, Placed, EventPlaces,
     Gone, There
<1>8. CASE WorkerIdle \/ Retry \/ Delay \/ Verdict \/ GiveUp \/ WorkerDone
  BY <1>8 DEF WorkerIdle, Retry, Delay, Verdict, GiveUp, WorkerDone, RetryDone,
     WorkerGoes, At, Free, Goes, TypeOK, Disconnecting, Placed, EventPlaces, Gone, There
<1>9. CASE SetRetrying \/ SetError
  BY <1>9 DEF SetRetrying, SetError, At, Free, Exchange, Goes, TypeOK, Disconnecting, Placed,
     EventPlaces, Gone, There
<1>10. CASE QueryRetry \/ GrabRetry
  BY <1>10 DEF QueryRetry, GrabRetry, Query, Grab, At, Free, Goes, TypeOK, Disconnecting,
     Placed, EventPlaces, Gone, There
<1>11. CASE SetFound(Worker, "done")
  BY <1>11 DEF SetFound, At, Free, Exchange, Goes, TypeOK, Disconnecting, Placed, EventPlaces,
     Gone, There
<1>12. ASSUME NEW t \in Setters, Announce(t) PROVE OneEvent'
  BY <1>12 DEF Announce, TypeOK, Disconnecting, Placed, EventPlaces, Gone, There
<1>13. ASSUME NEW t \in Setters, NotifyConnected(t) PROVE OneEvent'
  BY <1>13 DEF NotifyConnected, Wake, TypeOK, Disconnecting, Placed, EventPlaces, Gone, There
<1>14. CASE WaitForDevice \/ WaiterParks \/ WaitTimesOut
  BY <1>14 DEF WaitForDevice, WaiterParks, WaitTimesOut, WaitIsOver, TypeOK, Disconnecting,
     Placed, EventPlaces, Gone, There
<1>15. ~StopFlag /\ ~StopRest
  BY <1>0, CalmStops
<1>16. CASE UNCHANGED vars
  BY <1>16 DEF vars, Disconnecting, Placed, EventPlaces, Gone, There
<1> QED BY <1>1, <1>2, <1>3, <1>4, <1>5, <1>6, <1>7, <1>8, <1>9, <1>10, <1>11, <1>12, <1>13,
           <1>14, <1>15, <1>16
        DEF Next, Event, Reconnection, StopRest

(* The camera comes and goes with its events only.                         *)
LEMMA OnTheBusKept ==
    ASSUME TypeOK, Placed, OneEvent, OnTheBus, Calm', [Next]_vars
    PROVE  OnTheBus'
<1>0. Calm
  BY CalmBefore
<1> USE Names DEF atomics, announcing, Crosses, Refuses, Gives, OnTheBus, Gone, There, Calm
<1>1. ASSUME NEW e \in Events, Unplug(e) \/ Plug(e) \/ Reboot(e) PROVE OnTheBus'
  BY <1>1 DEF Unplug, Plug, Reboot, HotPlug, Active, Goes, TypeOK
<1>2. ASSUME NEW e \in Events, DropDevice(e) PROVE OnTheBus'
  BY <1>2 DEF DropDevice, Free, Goes, TypeOK, Disconnecting
<1>3. ASSUME NEW e \in Events, SetLost(e) PROVE OnTheBus'
  BY <1>3 DEF SetLost, Free, Exchange, Goes, TypeOK, Disconnecting
<1>4. ASSUME NEW e \in Events, AskRetry(e) PROVE OnTheBus'
  BY <1>4 DEF AskRetry, Free, Wake, Goes, TypeOK, Disconnecting
<1>5. ASSUME NEW e \in Events, QueryAdded(e) \/ GrabAdded(e) PROVE OnTheBus'
  BY <1>5 DEF QueryAdded, GrabAdded, Query, Grab, At, Free, Goes, TypeOK, Disconnecting
<1>6. ASSUME NEW e \in Events, SetFound(e, "done") PROVE OnTheBus'
  BY <1>6 DEF SetFound, At, Free, Exchange, Goes, TypeOK, Disconnecting
<1>7. ASSUME NEW e \in Events, EventDone(e) PROVE OnTheBus'
  BY <1>7 DEF EventDone, RetryDone, At, Free, Goes, TypeOK, Disconnecting
<1>8. CASE WorkerIdle \/ Retry \/ Delay \/ Verdict \/ GiveUp \/ WorkerDone
  BY <1>8 DEF WorkerIdle, Retry, Delay, Verdict, GiveUp, WorkerDone, RetryDone,
     WorkerGoes, At, Free, Goes, TypeOK, Disconnecting
<1>9. CASE SetRetrying \/ SetError
  BY <1>9 DEF SetRetrying, SetError, At, Free, Exchange, Goes, TypeOK, Disconnecting
<1>10. CASE QueryRetry \/ GrabRetry
  BY <1>10 DEF QueryRetry, GrabRetry, Query, Grab, At, Free, Goes, TypeOK, Disconnecting
<1>11. CASE SetFound(Worker, "done")
  BY <1>11 DEF SetFound, At, Free, Exchange, Goes, TypeOK, Disconnecting
<1>12. ASSUME NEW t \in Setters, Announce(t) PROVE OnTheBus'
  BY <1>12 DEF Announce, TypeOK, Disconnecting
<1>13. ASSUME NEW t \in Setters, NotifyConnected(t) PROVE OnTheBus'
  BY <1>13 DEF NotifyConnected, Wake, TypeOK, Disconnecting
<1>14. CASE WaitForDevice \/ WaiterParks \/ WaitTimesOut
  BY <1>14 DEF WaitForDevice, WaiterParks, WaitTimesOut, WaitIsOver, TypeOK, Disconnecting
<1>15. ~StopFlag /\ ~StopRest
  BY <1>0, CalmStops
<1>16. CASE UNCHANGED vars
  BY <1>16 DEF vars, Disconnecting
<1> QED BY <1>1, <1>2, <1>3, <1>4, <1>5, <1>6, <1>7, <1>8, <1>9, <1>10, <1>11, <1>12, <1>13,
           <1>14, <1>15, <1>16
        DEF Next, Event, Reconnection, StopRest

(* setDeviceState() before another change has been announced is a crossing. *)
LEMMA PendingKept ==
    ASSUME TypeOK, Placed, Pending, Calm', [Next]_vars
    PROVE  Pending'
<1>0. Calm
  BY CalmBefore
<1> USE Names DEF atomics, announcing, Crosses, Refuses, Gives, Pending, Calm
<1>1. ASSUME NEW e \in Events, Unplug(e) \/ Plug(e) \/ Reboot(e) PROVE Pending'
  BY <1>1 DEF Unplug, Plug, Reboot, HotPlug, Goes, TypeOK
<1>2. ASSUME NEW e \in Events, DropDevice(e) PROVE Pending'
  BY <1>2 DEF DropDevice, Free, Goes, TypeOK
<1>3. ASSUME NEW e \in Events, SetLost(e) PROVE Pending'
  BY <1>3 DEF SetLost, Free, Exchange, Goes, TypeOK
<1>4. ASSUME NEW e \in Events, AskRetry(e) PROVE Pending'
  BY <1>4 DEF AskRetry, Free, Wake, Goes, TypeOK
<1>5. ASSUME NEW e \in Events, QueryAdded(e) \/ GrabAdded(e) PROVE Pending'
  BY <1>5 DEF QueryAdded, GrabAdded, Query, Grab, At, Free, Goes, TypeOK
<1>6. ASSUME NEW e \in Events, SetFound(e, "done") PROVE Pending'
  BY <1>6 DEF SetFound, At, Free, Exchange, Goes, TypeOK
<1>7. ASSUME NEW e \in Events, EventDone(e) PROVE Pending'
  BY <1>7 DEF EventDone, RetryDone, At, Free, Goes, TypeOK
<1>8. CASE WorkerIdle \/ Retry \/ Delay \/ Verdict \/ GiveUp \/ WorkerDone
  BY <1>8 DEF WorkerIdle, Retry, Delay, Verdict, GiveUp, WorkerDone, RetryDone,
     WorkerGoes, At, Free, Goes, TypeOK
<1>9. CASE SetRetrying \/ SetError
  <2>1. PICK s \in {"RECONNECTING", "ERROR"} : Exchange(Worker, s) /\ setting[Worker] = "none"
    BY <1>9 DEF SetRetrying, SetError, At, Free
  <2> QED BY <2>1 DEF Exchange, TypeOK
<1>10. CASE QueryRetry \/ GrabRetry
  BY <1>10 DEF QueryRetry, GrabRetry, Query, Grab, At, Free, Goes, TypeOK
<1>11. CASE SetFound(Worker, "done")
  BY <1>11 DEF SetFound, At, Free, Exchange, Goes, TypeOK
<1>12. ASSUME NEW t \in Setters, Announce(t) PROVE Pending'
  BY <1>12 DEF Announce, TypeOK
<1>13. ASSUME NEW t \in Setters, NotifyConnected(t) PROVE Pending'
  BY <1>13 DEF NotifyConnected, Wake, TypeOK
<1>14. CASE WaitForDevice \/ WaiterParks \/ WaitTimesOut
  BY <1>14 DEF WaitForDevice, WaiterParks, WaitTimesOut, WaitIsOver, TypeOK
<1>15. ~StopFlag /\ ~StopRest
  BY <1>0, CalmStops
<1>16. CASE UNCHANGED vars
  BY <1>16 DEF vars
<1> QED BY <1>1, <1>2, <1>3, <1>4, <1>5, <1>6, <1>7, <1>8, <1>9, <1>10, <1>11, <1>12, <1>13,
           <1>14, <1>15, <1>16
        DEF Next, Event, Reconnection, StopRest

(* onDeviceStateChanged() runs the pipelines for CONNECTED only.           *)
LEMMA HeardKept ==
    ASSUME TypeOK, Placed, Pending, Heard, Calm', [Next]_vars
    PROVE  Heard'
<1>0. Calm
  BY CalmBefore
<1> USE Names DEF atomics, announcing, Crosses, Refuses, Gives, Pending, Heard, Silent, Calm
<1>1. ASSUME NEW e \in Events, Unplug(e) \/ Plug(e) \/ Reboot(e) PROVE Heard'
  BY <1>1 DEF Unplug, Plug, Reboot, HotPlug, Goes, TypeOK
<1>2. ASSUME NEW e \in Events, DropDevice(e) PROVE Heard'
  BY <1>2 DEF DropDevice, Free, Goes, TypeOK
<1>3. ASSUME NEW e \in Events, SetLost(e) PROVE Heard'
  BY <1>3 DEF SetLost, Free, Exchange, Goes, TypeOK
<1>4. ASSUME NEW e \in Events, AskRetry(e) PROVE Heard'
  BY <1>4 DEF AskRetry, Free, Wake, Goes, TypeOK
<1>5. ASSUME NEW e \in Events, QueryAdded(e) \/ GrabAdded(e) PROVE Heard'
  BY <1>5 DEF QueryAdded, GrabAdded, Query, Grab, At, Free, Goes, TypeOK
<1>6. ASSUME NEW e \in Events, SetFound(e, "done") PROVE Heard'
  BY <1>6 DEF SetFound, At, Free, Exchange, Goes, TypeOK
<1>7. ASSUME NEW e \in Events, EventDone(e) PROVE Heard'
  BY <1>7 DEF EventDone, RetryDone, At, Free, Goes, TypeOK
<1>8. CASE WorkerIdle \/ Retry \/ Delay \/ Verdict \/ GiveUp \/ WorkerDone
  BY <1>8 DEF WorkerIdle, Retry, Delay, Verdict, GiveUp, WorkerDone, RetryDone,
     WorkerGoes, At, Free, Goes, TypeOK
<1>9. CASE SetRetrying \/ SetError
  BY <1>9 DEF SetRetrying, SetError, At, Free, Exchange, Goes, TypeOK
<1>10. CASE QueryRetry \/ GrabRetry
  BY <1>10 DEF QueryRetry, GrabRetry, Query, Grab, At, Free, Goes, TypeOK
<1>11. CASE SetFound(Worker, "done")
  BY <1>11 DEF SetFound, At, Free, Exchange, Goes, TypeOK
<1>12. ASSUME NEW t \in Setters, Announce(t) PROVE Heard'
  BY <1>12 DEF Announce, TypeOK
<1>13. ASSUME NEW t \in Setters, NotifyConnected(t) PROVE Heard'
  BY <1>13 DEF NotifyConnected, Wake, TypeOK
<1>14. CASE WaitForDevice \/ WaiterParks \/ WaitTimesOut
  BY <1>14 DEF WaitForDevice, WaiterParks, WaitTimesOut, WaitIsOver, TypeOK
<1>15. ~StopFlag /\ ~StopRest
  BY <1>0, CalmStops
<1>16. CASE UNCHANGED vars
  BY <1>16 DEF vars
<1> QED BY <1>1, <1>2, <1>3, <1>4, <1>5, <1>6, <1>7, <1>8, <1>9, <1>10, <1>11, <1>12, <1>13,
           <1>14, <1>15, <1>16
        DEF Next, Event, Reconnection, StopRest

(* Dropping the device while another thread connects it is a crossing; a   *)
(* query after that finds what is on the bus.                              *)
LEMMA DroppedKept ==
    ASSUME TypeOK, Placed, OneEvent, OnTheBus, Dropped, Calm', [Next]_vars
    PROVE  Dropped'
<1>0. Calm
  BY CalmBefore
<1> USE Names DEF atomics, announcing, Crosses, Refuses, Gives,
        Dropped, Grabbing, Disconnecting, Calm
<1>1. ASSUME NEW e \in Events, Unplug(e) \/ Plug(e) \/ Reboot(e) PROVE Dropped'
  BY <1>1 DEF Unplug, Plug, Reboot, HotPlug, Goes, TypeOK
<1>2. ASSUME NEW e \in Events, DropDevice(e) PROVE Dropped'
  BY <1>2 DEF DropDevice, Free, Goes, TypeOK
<1>3. ASSUME NEW e \in Events, SetLost(e) PROVE Dropped'
  BY <1>3 DEF SetLost, Free, Exchange, Goes, TypeOK
<1>4. ASSUME NEW e \in Events, AskRetry(e) PROVE Dropped'
  BY <1>4 DEF AskRetry, Free, Wake, Goes, TypeOK
<1>5. ASSUME NEW e \in Events, QueryAdded(e) \/ GrabAdded(e) PROVE Dropped'
  BY <1>5 DEF QueryAdded, GrabAdded, Query, Grab, At, Free, Goes, TypeOK
<1>6. ASSUME NEW e \in Events, SetFound(e, "done") PROVE Dropped'
  BY <1>6 DEF SetFound, At, Free, Exchange, Goes, TypeOK
<1>7. ASSUME NEW e \in Events, EventDone(e) PROVE Dropped'
  BY <1>7 DEF EventDone, RetryDone, At, Free, Goes, TypeOK
<1>8. CASE WorkerIdle \/ Retry \/ Delay \/ Verdict \/ GiveUp \/ WorkerDone
  BY <1>8 DEF WorkerIdle, Retry, Delay, Verdict, GiveUp, WorkerDone, RetryDone,
     WorkerGoes, At, Free, Goes, TypeOK
<1>9. CASE SetRetrying \/ SetError
  BY <1>9 DEF SetRetrying, SetError, At, Free, Exchange, Goes, TypeOK
<1>10. CASE QueryRetry \/ GrabRetry
  BY <1>10 DEF QueryRetry, GrabRetry, Query, Grab, At, Free, Goes, TypeOK
<1>11. CASE SetFound(Worker, "done")
  BY <1>11 DEF SetFound, At, Free, Exchange, Goes, TypeOK
<1>12. ASSUME NEW t \in Setters, Announce(t) PROVE Dropped'
  BY <1>12 DEF Announce, TypeOK
<1>13. ASSUME NEW t \in Setters, NotifyConnected(t) PROVE Dropped'
  BY <1>13 DEF NotifyConnected, Wake, TypeOK
<1>14. CASE WaitForDevice \/ WaiterParks \/ WaitTimesOut
  BY <1>14 DEF WaitForDevice, WaiterParks, WaitTimesOut, WaitIsOver, TypeOK
<1>15. ~StopFlag /\ ~StopRest
  BY <1>0, CalmStops
<1>16. CASE UNCHANGED vars
  BY <1>16 DEF vars
<1> QED BY <1>1, <1>2, <1>3, <1>4, <1>5, <1>6, <1>7, <1>8, <1>9, <1>10, <1>11, <1>12, <1>13,
           <1>14, <1>15, <1>16
        DEF Next, Event, Reconnection, StopRest

(* CONNECTED is only set by a thread that has just stored a live handle.   *)
LEMMA LostKept ==
    ASSUME TypeOK, Placed, OneEvent, OnTheBus, Pending, Dropped, Lost, Calm', [Next]_vars
    PROVE  Lost'
<1>0. Calm
  BY CalmBefore
<1> USE Names DEF atomics, announcing, Crosses, Refuses, Gives,
        Lost, Silent, Pending, Disconnecting, Calm
<1>1. ASSUME NEW e \in Events, Unplug(e) \/ Plug(e) \/ Reboot(e) PROVE Lost'
  BY <1>1 DEF Unplug, Plug, Reboot, HotPlug, Active, Goes, TypeOK
<1>2. ASSUME NEW e \in Events, DropDevice(e) PROVE Lost'
  BY <1>2 DEF DropDevice, Free, Goes, TypeOK
<1>3. ASSUME NEW e \in Events, SetLost(e) PROVE Lost'
  BY <1>3 DEF SetLost, Free, Exchange, Goes, TypeOK
<1>4. ASSUME NEW e \in Events, AskRetry(e) PROVE Lost'
  BY <1>4 DEF AskRetry, Free, Wake, Goes, TypeOK
<1>5. ASSUME NEW e \in Events, QueryAdded(e) \/ GrabAdded(e) PROVE Lost'
  BY <1>5 DEF QueryAdded, GrabAdded, Query, Grab, At, Free, Goes, TypeOK, OnTheBus, Gone,
     There, Dropped
<1>6. ASSUME NEW e \in Events, SetFound(e, "done") PROVE Lost'
  BY <1>6 DEF SetFound, At, Free, Exchange, Goes, TypeOK, OnTheBus, Gone, There, Dropped
<1>7. ASSUME NEW e \in Events, EventDone(e) PROVE Lost'
  BY <1>7 DEF EventDone, RetryDone, At, Free, Goes, TypeOK
<1>8. CASE WorkerIdle \/ Retry \/ Delay \/ Verdict \/ GiveUp \/ WorkerDone
  BY <1>8 DEF WorkerIdle, Retry, Delay, Verdict, GiveUp, WorkerDone, RetryDone,
     WorkerGoes, At, Free, Goes, TypeOK
<1>9. CASE SetRetrying \/ SetError
  BY <1>9 DEF SetRetrying, SetError, At, Free, Exchange, Goes, TypeOK
<1>10. CASE QueryRetry \/ GrabRetry
  BY <1>10 DEF QueryRetry, GrabRetry, Query, Grab, At, Free, Goes, TypeOK, Dropped, Grabbing
<1>11. CASE SetFound(Worker, "done")
  BY <1>11 DEF SetFound, At, Free, Exchange, Goes, TypeOK, OnTheBus, Gone, There, Dropped, Grabbing
<1>12. ASSUME NEW t \in Setters, Announce(t) PROVE Lost'
  BY <1>12 DEF Announce, TypeOK
<1>13. ASSUME NEW t \in Setters, NotifyConnected(t) PROVE Lost'
  BY <1>13 DEF NotifyConnected, Wake, TypeOK
<1>14. CASE WaitForDevice \/ WaiterParks \/ WaitTimesOut
  BY <1>14 DEF WaitForDevice, WaiterParks, WaitTimesOut, WaitIsOver, TypeOK
<1>15. ~StopFlag /\ ~StopRest
  BY <1>0, CalmStops
<1>16. CASE UNCHANGED vars
  BY <1>16 DEF vars
<1> QED BY <1>1, <1>2, <1>3, <1>4, <1>5, <1>6, <1>7, <1>8, <1>9, <1>10, <1>11, <1>12, <1>13,
           <1>14, <1>15, <1>16
        DEF Next, Event, Reconnection, StopRest

(* The worker does not give up on a camera that is there: its next query   *)
(* finds it; and giving up on one an event has connected is a crossing.    *)
LEMMA ArrivedKept ==
    ASSUME TypeOK, Placed, OneEvent, OnTheBus, Dropped, Lost, Arrived, Calm', [Next]_vars
    PROVE  Arrived'
<1>0. Calm
  BY CalmBefore
<1> USE Names DEF atomics, announcing, Crosses, Refuses, Gives, Arrived, Disconnecting, Calm
<1>1. ASSUME NEW e \in Events, Unplug(e) \/ Plug(e) \/ Reboot(e) PROVE Arrived'
  BY <1>1 DEF Unplug, Plug, Reboot, HotPlug, Goes, TypeOK
<1>2. ASSUME NEW e \in Events, DropDevice(e) PROVE Arrived'
  BY <1>2 DEF DropDevice, Free, Goes, TypeOK
<1>3. ASSUME NEW e \in Events, SetLost(e) PROVE Arrived'
  BY <1>3 DEF SetLost, Free, Exchange, Goes, TypeOK
<1>4. ASSUME NEW e \in Events, AskRetry(e) PROVE Arrived'
  BY <1>4 DEF AskRetry, Free, Goes, TypeOK, OnTheBus, Gone, There
<1>5. ASSUME NEW e \in Events, QueryAdded(e) \/ GrabAdded(e) PROVE Arrived'
  BY <1>5 DEF QueryAdded, GrabAdded, Query, Grab, At, Free, Goes, TypeOK, OnTheBus, There, Dropped
<1>6. ASSUME NEW e \in Events, SetFound(e, "done") PROVE Arrived'
  BY <1>6 DEF SetFound, At, Free, Exchange, Goes, TypeOK
<1>7. ASSUME NEW e \in Events, EventDone(e) PROVE Arrived'
  BY <1>7 DEF EventDone, RetryDone, At, Free, Goes, TypeOK
<1>8. CASE WorkerIdle \/ Retry \/ Delay \/ Verdict \/ GiveUp \/ WorkerDone
  BY <1>8 DEF WorkerIdle, Retry, Delay, Verdict, GiveUp, WorkerDone, RetryDone,
     WorkerGoes, At, Free, Goes, TypeOK, Placed
<1>9. CASE SetRetrying \/ SetError
  BY <1>9 DEF SetRetrying, SetError, At, Free, Exchange, Goes, TypeOK
<1>10. CASE QueryRetry \/ GrabRetry
  BY <1>10 DEF QueryRetry, GrabRetry, Query, Grab, At, Free, Goes, TypeOK, Dropped
<1>11. CASE SetFound(Worker, "done")
  BY <1>11 DEF SetFound, At, Free, Exchange, Goes, TypeOK
<1>12. ASSUME NEW t \in Setters, Announce(t) PROVE Arrived'
  BY <1>12 DEF Announce, TypeOK
<1>13. ASSUME NEW t \in Setters, NotifyConnected(t) PROVE Arrived'
  BY <1>13 DEF NotifyConnected, Wake, TypeOK
<1>14. CASE WaitForDevice \/ WaiterParks \/ WaitTimesOut
  BY <1>14 DEF WaitForDevice, WaiterParks, WaitTimesOut, WaitIsOver, TypeOK
<1>15. ~StopFlag /\ ~StopRest
  BY <1>0, CalmStops
<1>16. CASE UNCHANGED vars
  BY <1>16 DEF vars
<1> QED BY <1>1, <1>2, <1>3, <1>4, <1>5, <1>6, <1>7, <1>8, <1>9, <1>10, <1>11, <1>12, <1>13,
           <1>14, <1>15, <1>16
        DEF Next, Event, Reconnection, StopRest

-----------------------------------------------------------------------------
(* The invariant holds after initialize() and start(), and every step      *)
(* keeps it.                                                               *)
LEMMA IInvStarts == Init => TypeOK /\ IInv
<1> SUFFICES ASSUME Init PROVE TypeOK /\ IInv
  OBVIOUS
<1> USE Names DEF Init
<1>1. TypeOK
  BY TypeStarts
<1>2. /\ \A e \in Events : pc[e] = "out"
      /\ pc[Worker] = "idle" /\ pc[Stopper] = "out"
      /\ \A t \in Setters : setting[t] = "none"
  OBVIOUS
<1>3. Placed /\ Locked /\ ToldWaiter
  BY <1>2 DEF Placed, EventPlaces, WorkerPlaces, StopPlaces, Locked, ToldWaiter
<1>4. OneEvent /\ OnTheBus /\ Pending /\ Heard
  BY <1>2 DEF OneEvent, Active, OnTheBus, Gone, There, Pending, Heard, Silent
<1>5. \A t \in Setters : pc[t] \notin {"grab", "found"}
  BY <1>2
<1>6. /\ plugged /\ deviceState # "CONNECTED" => "connection" \in refused
      /\ deviceState = "CONNECTED" /\ ~pipelines => "pipelines" \in refused
  BY DEF Refusals
<1>7. Dropped
  BY <1>2, <1>5 DEF Dropped, Grabbing, Disconnecting
<1>8. Lost /\ Arrived
  BY <1>2, <1>6 DEF Lost, Silent, Arrived
<1> QED BY <1>1, <1>3, <1>4, <1>7, <1>8 DEF IInv, Following

LEMMA IInvKept == TypeOK /\ IInv /\ [Next]_vars => (TypeOK /\ IInv)'
<1> SUFFICES ASSUME TypeOK, IInv, [Next]_vars PROVE (TypeOK /\ IInv)'
  OBVIOUS
<1>1. TypeOK' /\ Placed' /\ Locked' /\ ToldWaiter'
  BY TypeKept, PlacedKept, LockedKept, ToldWaiterKept DEF IInv
<1>2. ASSUME Calm' PROVE Following'
  <2>1. Placed /\ Following
    BY <1>2, CalmBefore DEF IInv
  <2> QED BY <1>2, <2>1, OneEventKept, OnTheBusKept, PendingKept, HeardKept, DroppedKept, LostKept,
             ArrivedKept DEF Following
<1> QED BY <1>1, <1>2 DEF IInv

LEMMA AlwaysIInv == Spec => [](TypeOK /\ IInv)
BY IInvStarts, IInvKept, PTL DEF Spec

(* Every variable keeps its type: in particular the worker never counts    *)
(* more attempts than maxReconnectAttempts.                                *)
THEOREM ManagerTyped == Spec => []TypeOK
BY AlwaysIInv, PTL

(* A thread asleep in waitForDevice() while the state is CONNECTED is owed *)
(* a notify_all, for every interleaving of the events, the worker, stop()  *)
(* and the waiter: the callback between the change and the notification    *)
(* takes the mutex that the waiter holds until it sleeps.                  *)
THEOREM NoWakeupLost == Spec => []NoMissedDevice
<1>1. IInv => NoMissedDevice
  BY DEF IInv, ToldWaiter, NoMissedDevice
<1> QED BY <1>1, AlwaysIInv, PTL

(* With no event under way and no retry, the state, the handle and the     *)
(* pipelines agree with what is on the bus, after any number of            *)
(* disconnections, connections and reboots of the camera, at any point of  *)
(* a retry, and of failed attempts but for the last, as long as no two     *)
(* threads have crossed (DeviceManager.cpp:148-302).                       *)
THEOREM SettledAgrees == Spec => []SettledIsConsistent
<1>1. TypeOK /\ IInv => SettledIsConsistent
  <2> SUFFICES ASSUME TypeOK, IInv, Settled, ~crossed
               PROVE  /\ pipelines => deviceState = "CONNECTED"
                      /\ deviceState = "CONNECTED" => device = "live"
                      /\ device # "none" => plugged
                      /\ plugged => deviceState = "CONNECTED" \/ "connection" \in refused
                      /\ deviceState = "CONNECTED" => pipelines \/ "pipelines" \in refused
    BY DEF SettledIsConsistent
  <2>1. Following
    BY DEF IInv, Calm, Settled
  <2>2. \A e \in Events : pc[e] \in {"out", "over"}
    BY DEF Settled, Active
  <2>3. Silent
    BY DEF Settled, Free, Silent
  <2>4. plugged => deviceState = "CONNECTED" \/ "connection" \in refused
    BY <2>1, <2>2 DEF Following, Arrived, Settled
  <2>5. deviceState = "CONNECTED" => device = "live" /\ (pipelines \/ "pipelines" \in refused)
    BY <2>1, <2>2, <2>3 DEF Following, Lost, Disconnecting
  <2>6. ~plugged => device = "none"
    BY <2>1, <2>2 DEF Following, Dropped, Disconnecting
  <2>7. pipelines => deviceState = "CONNECTED"
    BY <2>1, <2>3 DEF Following, Heard
  <2> QED BY <2>4, <2>5, <2>6, <2>7
<1> QED BY <1>1, AlwaysIInv, PTL
=============================================================================
