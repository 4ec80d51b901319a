---------------------------- MODULE DeviceManager ----------------------------
(***************************************************************************)
(* core/DeviceManager.cpp, with the image receiver's onDeviceStateChanged  *)
(* as its event callback: a detached thread per hot-plug event, the        *)
(* reconnection worker, a thread in waitForDevice(), and stop().           *)
(*                                                                         *)
(* deviceState_, isReconnecting_, reconnectAttempts_ and shouldStop_ are   *)
(* atomics, written without deviceMutex_; the mutex guards currentDevice_  *)
(* and the waits.  A critical section is one action; only the waiter, from *)
(* its predicate to its sleep, and stop() hold the mutex from step to step. *)
(***************************************************************************)
EXTENDS Naturals, FiniteSets

CONSTANTS MaxEvents,              \* bound: hot-plug events
          maxReconnectAttempts,   \* hotPlugConfig
          autoReconnect           \* hotPlugConfig

ASSUME ConfigAssumption == /\ MaxEvents \in Nat
                           /\ maxReconnectAttempts \in Nat \ {0}
                           /\ autoReconnect \in BOOLEAN

Events == 1..MaxEvents
Worker == 0
Stopper == MaxEvents + 1
Waiter == MaxEvents + 2
Nobody == MaxEvents + 3
Setters == Events \cup {Worker, Stopper}    \* the callers of setDeviceState

DeviceStates == {"DISCONNECTED", "CONNECTED", "RECONNECTING", "ERROR"}
Handles == {"none", "live", "stale"}        \* stale: of a device unplugged since
Refusals == {"connection", "pipelines"}

VARIABLES
    plugged,        \* is there a camera on the bus
    device,         \* currentDevice_
    list,           \* what queryDeviceList() gave each thread
    deviceState,    \* deviceState_
    isReconnecting, attempts, shouldStop,
    held,           \* who holds deviceMutex_ between two steps
    pc,             \* of each setter
    setting,        \* setting[t]: the state t is announcing in setDeviceState, or "none"
    notifying,      \* setters past the callback, about to notify_all
    waiter,         \* the thread in waitForDevice: "out", "checked", "parked", "awake", "over"
    pipelines,      \* pipelinesRunning_ of the image receiver
    refused,        \* what the last attempt at failed, with a camera there (Refusals)
    crossed         \* two threads have got in each other's way (see below)

atomics == <<deviceState, isReconnecting, attempts, shouldStop>>
announcing == <<setting, notifying, pipelines>>
vars == <<plugged, device, list, atomics, held, pc, announcing, waiter, refused, crossed>>

-----------------------------------------------------------------------------
(* initialize() and start() are over.  There was no camera, or one that    *)
(* was connected, or one that refused.                                     *)
Init == /\ plugged \in BOOLEAN
        /\ device \in {"none", "live"} /\ (device = "live" => plugged)
        /\ deviceState \in {"CONNECTED", "DISCONNECTED"}
        /\ deviceState = "CONNECTED" => device = "live"
        /\ pipelines \in BOOLEAN /\ (pipelines => deviceState = "CONNECTED")
        /\ refused = {r \in Refusals : IF r = "connection"
                                       THEN plugged /\ deviceState # "CONNECTED"
                                       ELSE deviceState = "CONNECTED" /\ ~pipelines}
        /\ list = [t \in Setters |-> "none"]
        /\ isReconnecting = FALSE
        /\ attempts = 0
        /\ shouldStop = FALSE
        /\ held = Nobody
        /\ pc = [t \in Setters |-> IF t = Worker THEN "idle" ELSE "out"]
        /\ setting = [t \in Setters |-> "none"]
        /\ notifying = {}
        /\ waiter = "out"
        /\ crossed = FALSE

Goes(t, l) == pc' = [pc EXCEPT ![t] = l]
Free(t) == setting[t] = "none" /\ t \notin notifying
At(t, l) == pc[t] = l /\ Free(t)

Wake == waiter' = IF waiter = "parked" THEN "awake" ELSE waiter

-----------------------------------------------------------------------------
(* crossed records what nothing in the code prevents: a thread changes the *)
(* state before another has announced its own change, the worker gives up  *)
(* although an event has just connected the device, the device is dropped  *)
(* while the worker connects it, or the camera comes or goes while the     *)
(* last event is being handled; or stop() has begun.  What the camera has  *)
(* refused until then is of no account any more.                           *)
Crosses(P) == /\ crossed' = (crossed \/ P)
              /\ refused' = IF crossed' THEN {} ELSE refused

Refuses(r) == refused' = IF crossed THEN {} ELSE refused \cup {r}
Gives(r) == refused' = refused \ {r}

(* setDeviceState(): the exchange, in the step of the caller; then, if the *)
(* state changed, the callback, whose argument is getCurrentDevice(), under *)
(* deviceMutex_; then notify_all, if the state is CONNECTED.               *)
Exchange(t, s) ==
    /\ deviceState' = s
    /\ setting' = IF s = deviceState THEN setting ELSE [setting EXCEPT ![t] = s]
    /\ Crosses(\/ s = "ERROR" /\ deviceState = "CONNECTED"
               \/ s # deviceState /\ \E u \in Setters \ {t} : setting[u] # "none")

(* Mutant: the callback is given currentDevice_ without the lock.          *)
AnnounceUnlocked(t) ==
    /\ setting[t] # "none"
    /\ setting' = [setting EXCEPT ![t] = "none"]
    /\ pipelines' = (setting[t] = "CONNECTED" /\ device = "live")
    /\ notifying' = IF setting[t] = "CONNECTED" THEN notifying \cup {t} ELSE notifying
    /\ UNCHANGED <<plugged, device, list, atomics, held, pc, waiter, refused, crossed>>

(* onDeviceStateChanged() stops the pipelines, and starts them again for   *)
(* CONNECTED if there is a device to start, and the SDK starts it.         *)
Announce(t) ==
    /\ setting[t] # "none"
    /\ held = Nobody
    /\ setting' = [setting EXCEPT ![t] = "none"]
    /\ LET start == setting[t] = "CONNECTED" /\ device = "live"
       IN  \/ pipelines' = start /\ Gives("pipelines")
           \/ start /\ pipelines' = FALSE /\ Refuses("pipelines")
    /\ notifying' = IF setting[t] = "CONNECTED" THEN notifying \cup {t} ELSE notifying
    /\ UNCHANGED <<plugged, device, list, atomics, held, pc, waiter, crossed>>

NotifyConnected(t) ==
    /\ t \in notifying
    /\ notifying' = notifying \ {t}
    /\ Wake
    /\ UNCHANGED <<plugged, device, list, atomics, held, pc, setting, pipelines,
                   refused, crossed>>

-----------------------------------------------------------------------------
(* attemptConnection(): the query, then currentDevice_ under the lock.     *)
(* Either may throw, and the attempt has then failed: the query, which     *)
(* leaves nothing; getDevice(), which leaves currentDevice_ as it was; or  *)
(* printDeviceList(), after currentDevice_ has been set.                   *)
Query(t, found, failed) ==
    /\ \/ /\ plugged
          /\ list' = [list EXCEPT ![t] = "live"] /\ Goes(t, found)
          /\ UNCHANGED refused
       \/ /\ list' = [list EXCEPT ![t] = "none"] /\ Goes(t, failed)
          /\ IF plugged THEN Refuses("connection") ELSE UNCHANGED refused
    /\ UNCHANGED <<plugged, device, atomics, held, announcing, waiter, crossed>>

Grab(t, grabbed, failed) ==
    /\ held = Nobody
    /\ \/ /\ device' = list[t] /\ Goes(t, grabbed)
          /\ IF list[t] = "live" THEN Gives("connection") ELSE UNCHANGED refused
       \/ /\ device' \in {device, list[t]} /\ Goes(t, failed)
          /\ IF list[t] = "live" THEN Refuses("connection") ELSE UNCHANGED refused
    /\ list' = [list EXCEPT ![t] = "none"]
    /\ UNCHANGED <<plugged, atomics, held, announcing, waiter, crossed>>

-----------------------------------------------------------------------------
(* The camera is pulled, plugged in, or both at once (a reboot): the SDK   *)
(* calls onDeviceChanged, which detaches a thread.                         *)
Active(t) == pc[t] \notin {"out", "over"}
Grabbing(t) == pc[t] \in {"grab", "found"}
Aged(h) == IF h = "live" THEN "stale" ELSE h

HotPlug(e, there, first) ==
    /\ pc[e] = "out" /\ \A f \in 1..(e - 1) : pc[f] # "out"
    /\ plugged' = there
    /\ device' = Aged(device)
    /\ list' = [t \in Setters |-> Aged(list[t])]
    /\ Goes(e, first)
    /\ Crosses(\E f \in Events : Active(f))
    /\ UNCHANGED <<atomics, held, announcing, waiter>>

Unplug(e) == plugged /\ HotPlug(e, FALSE, "removed")
Plug(e) == ~plugged /\ HotPlug(e, TRUE, "added")
Reboot(e) == plugged /\ HotPlug(e, TRUE, "removedAdded")

(* handleDeviceDisconnection().                                            *)
Disconnecting == {"removed", "removedAdded"}

(* Mutant: the lost device is not dropped.                                 *)
KeepDevice(e) == /\ pc[e] \in Disconnecting /\ Free(e)
                 /\ held = Nobody
                 /\ Goes(e, IF pc[e] = "removed" THEN "lost" ELSE "lostAdded")
                 /\ Crosses(\E t \in Setters : Grabbing(t))
                 /\ UNCHANGED <<plugged, device, list, atomics, held, announcing, waiter>>

DropDevice(e) == /\ pc[e] \in Disconnecting /\ Free(e)
                 /\ held = Nobody
                 /\ device' = "none"
                 /\ Goes(e, IF pc[e] = "removed" THEN "lost" ELSE "lostAdded")
                 /\ Crosses(\E t \in Setters : Grabbing(t))
                 /\ UNCHANGED <<plugged, list, atomics, held, announcing, waiter>>

SetLost(e) == /\ pc[e] \in {"lost", "lostAdded"} /\ Free(e)
              /\ Exchange(e, "DISCONNECTED")
              /\ Goes(e, IF pc[e] = "lost" THEN "retry" ELSE "retryAdded")
              /\ UNCHANGED <<plugged, device, list, isReconnecting, attempts, shouldStop, held,
                             notifying, pipelines, waiter>>

AskRetry(e) == /\ pc[e] \in {"retry", "retryAdded"} /\ Free(e)
               /\ IF autoReconnect
                  THEN isReconnecting' = TRUE /\ attempts' = 0 /\ Wake
                  ELSE UNCHANGED <<isReconnecting, attempts, waiter>>
               /\ Goes(e, IF pc[e] = "retry" THEN "over" ELSE "added")
               /\ UNCHANGED <<plugged, device, list, deviceState, shouldStop, held,
                              announcing, refused, crossed>>

(* handleDeviceConnection(), after the stabilising delay.                  *)
QueryAdded(e) == At(e, "added") /\ Query(e, "grab", "over")
GrabAdded(e) == At(e, "grab") /\ Grab(e, "found", "over")

SetFound(t, next) ==
    /\ At(t, "found")
    /\ Exchange(t, "CONNECTED")
    /\ Goes(t, next)
    /\ UNCHANGED <<plugged, device, list, isReconnecting, attempts, shouldStop, held,
                   notifying, pipelines, waiter>>

RetryDone(t, next) ==
    /\ isReconnecting' = FALSE
    /\ attempts' = 0
    /\ Goes(t, next)
    /\ UNCHANGED <<plugged, device, list, deviceState, shouldStop, held, announcing,
                   waiter, refused, crossed>>

EventDone(e) == At(e, "done") /\ RetryDone(e, "over")

Event(e) == \/ DropDevice(e) \/ SetLost(e) \/ AskRetry(e)
            \/ QueryAdded(e) \/ GrabAdded(e) \/ SetFound(e, "done") \/ EventDone(e)

-----------------------------------------------------------------------------
(* reconnectionWorker().  Its own wait ends by itself every 100 ms.        *)
WorkerGoes(l) == /\ Goes(Worker, l)
                 /\ UNCHANGED <<plugged, device, list, atomics, held, announcing, waiter,
                                refused, crossed>>

(* Mutant: the worker looks for something to retry before it looks for     *)
(* stop().                                                                 *)
WorkerIdleDeaf == /\ At(Worker, "idle")
                  /\ \/ isReconnecting /\ held = Nobody /\ WorkerGoes("check")
                     \/ ~isReconnecting /\ shouldStop /\ WorkerGoes("exit")

WorkerIdle == /\ At(Worker, "idle")
              /\ \/ shouldStop /\ WorkerGoes("exit")
                 \/ ~shouldStop /\ isReconnecting /\ held = Nobody /\ WorkerGoes("check")

(* Mutant: the worker retries for ever.                                    *)
RetryUnbounded == /\ At(Worker, "check")
                  /\ IF isReconnecting /\ ~shouldStop
                     THEN /\ attempts' = IF attempts < maxReconnectAttempts
                                         THEN attempts + 1 ELSE attempts
                          /\ Goes(Worker, "try")
                     ELSE UNCHANGED attempts /\ Goes(Worker, "verdict")
                  /\ UNCHANGED <<plugged, device, list, deviceState, isReconnecting, shouldStop,
                                 held, announcing, waiter, refused, crossed>>

(* Mutant: one attempt too many.                                           *)
RetryOnceMore == /\ At(Worker, "check")
                 /\ IF isReconnecting /\ attempts <= maxReconnectAttempts /\ ~shouldStop
                    THEN attempts' = attempts + 1 /\ Goes(Worker, "try")
                    ELSE UNCHANGED attempts /\ Goes(Worker, "verdict")
                 /\ UNCHANGED <<plugged, device, list, deviceState, isReconnecting, shouldStop,
                                held, announcing, waiter, refused, crossed>>

Retry == /\ At(Worker, "check")
         /\ IF isReconnecting /\ attempts < maxReconnectAttempts /\ ~shouldStop
            THEN attempts' = attempts + 1 /\ Goes(Worker, "try")
            ELSE UNCHANGED attempts /\ Goes(Worker, "verdict")
         /\ UNCHANGED <<plugged, device, list, deviceState, isReconnecting, shouldStop, held,
                        announcing, waiter, refused, crossed>>

SetRetrying == /\ At(Worker, "try")
               /\ Exchange(Worker, "RECONNECTING")
               /\ Goes(Worker, "delay")
               /\ UNCHANGED <<plugged, device, list, isReconnecting, attempts, shouldStop, held,
                              notifying, pipelines, waiter>>

Delay == At(Worker, "delay") /\ WorkerGoes(IF shouldStop THEN "verdict" ELSE "query")

QueryRetry == At(Worker, "query") /\ Query(Worker, "grab", "check")
GrabRetry == At(Worker, "grab") /\ Grab(Worker, "found", "check")
WorkerDone == At(Worker, "done") /\ RetryDone(Worker, "verdict")

Verdict == /\ At(Worker, "verdict")
           /\ WorkerGoes(IF isReconnecting /\ attempts >= maxReconnectAttempts
                         THEN "fail" ELSE "idle")

SetError == /\ At(Worker, "fail")
            /\ Exchange(Worker, "ERROR")
            /\ Goes(Worker, "giveUp")
            /\ UNCHANGED <<plugged, device, list, isReconnecting, attempts, shouldStop, held,
                           notifying, pipelines, waiter>>

GiveUp == /\ At(Worker, "giveUp")
          /\ isReconnecting' = FALSE
          /\ Goes(Worker, "idle")
          /\ UNCHANGED <<plugged, device, list, deviceState, attempts, shouldStop, held,
                         announcing, waiter, refused, crossed>>

Reconnection == \/ WorkerIdle \/ Retry \/ SetRetrying \/ Delay
                \/ QueryRetry \/ GrabRetry \/ SetFound(Worker, "done") \/ WorkerDone
                \/ Verdict \/ SetError \/ GiveUp

-----------------------------------------------------------------------------
(* waitForDevice(), called once: start() calls it before the loop.         *)
WaitIsOver == deviceState = "CONNECTED" \/ shouldStop

WaitForDevice == /\ waiter \in {"out", "awake"} /\ held = Nobody
                 /\ IF WaitIsOver THEN waiter' = "over" /\ UNCHANGED held
                                  ELSE waiter' = "checked" /\ held' = Waiter
                 /\ UNCHANGED <<plugged, device, list, atomics, pc, announcing,
                                refused, crossed>>

WaiterParks == /\ waiter = "checked"
               /\ waiter' = "parked"
               /\ held' = Nobody
               /\ UNCHANGED <<plugged, device, list, atomics, pc, announcing,
                              refused, crossed>>

WaitTimesOut == /\ waiter = "parked" /\ held = Nobody
                /\ waiter' = "over"
                /\ UNCHANGED <<plugged, device, list, atomics, held, pc, announcing,
                               refused, crossed>>

-----------------------------------------------------------------------------
(* stop().                                                                 *)
StopFlag == /\ At(Stopper, "out")
            /\ shouldStop' = TRUE
            /\ Crosses(TRUE)
            /\ Goes(Stopper, "cancel")
            /\ UNCHANGED <<plugged, device, list, deviceState, isReconnecting, attempts, held,
                           announcing, waiter>>

StopCancel == /\ At(Stopper, "cancel")
              /\ isReconnecting' = FALSE
              /\ Goes(Stopper, "notify")
              /\ UNCHANGED <<plugged, device, list, deviceState, attempts, shouldStop, held,
                             announcing, waiter, refused, crossed>>

StopNotify == /\ At(Stopper, "notify")
              /\ Wake
              /\ Goes(Stopper, "join")
              /\ UNCHANGED <<plugged, device, list, atomics, held, announcing,
                             refused, crossed>>

(* join() has no timeout of its own: the two seconds are only looked at    *)
(* before it.                                                              *)
StopJoin == /\ At(Stopper, "join")
            /\ pc[Worker] = "exit"
            /\ Goes(Stopper, "lock")
            /\ UNCHANGED <<plugged, device, list, atomics, held, announcing, waiter,
                           refused, crossed>>

StopLock == /\ At(Stopper, "lock")
            /\ held = Nobody
            /\ held' = Stopper
            /\ device' = "none"
            /\ Goes(Stopper, "set")
            /\ UNCHANGED <<plugged, list, atomics, announcing, waiter, refused, crossed>>

StopSet == /\ At(Stopper, "set")
           /\ Exchange(Stopper, "DISCONNECTED")
           /\ Goes(Stopper, "unlock")
           /\ UNCHANGED <<plugged, device, list, isReconnecting, attempts, shouldStop, held,
                          notifying, pipelines, waiter>>

StopUnlock == /\ At(Stopper, "unlock")
              /\ held' = Nobody
              /\ Goes(Stopper, "over")
              /\ UNCHANGED <<plugged, device, list, atomics, announcing, waiter,
                             refused, crossed>>

StopRest == StopCancel \/ StopNotify \/ StopJoin \/ StopLock \/ StopSet \/ StopUnlock

-----------------------------------------------------------------------------
Next == \/ \E e \in Events : Unplug(e) \/ Plug(e) \/ Reboot(e) \/ Event(e)
        \/ Reconnection
        \/ \E t \in Setters : Announce(t) \/ NotifyConnected(t)
        \/ WaitForDevice \/ WaiterParks \/ WaitTimesOut
        \/ StopFlag \/ StopRest

Spec == Init /\ [][Next]_vars

(* Every thread runs whenever it can.  Nobody owes a hot-plug event, a     *)
(* stop() or a time-out.  Weak fairness is enough: nobody takes            *)
(* deviceMutex_ again and again.                                           *)
Fairness == /\ \A e \in Events : WF_vars(Event(e))
            /\ WF_vars(Reconnection)
            /\ \A t \in Setters : WF_vars(Announce(t)) /\ WF_vars(NotifyConnected(t))
            /\ WF_vars(WaiterParks) /\ WF_vars(waiter = "awake" /\ WaitForDevice)
            /\ WF_vars(StopRest)

FairSpec == Spec /\ Fairness
-----------------------------------------------------------------------------
Places == {"out", "over", "removed", "removedAdded", "lost", "lostAdded", "retry",
           "retryAdded", "added", "grab", "found", "done", "idle", "check", "try",
           "delay", "query", "verdict", "fail", "giveUp", "exit", "cancel", "notify",
           "join", "lock", "set", "unlock"}

TypeOK == /\ plugged \in BOOLEAN
          /\ device \in Handles
          /\ list \in [Setters -> Handles]
          /\ deviceState \in DeviceStates
          /\ isReconnecting \in BOOLEAN
          /\ attempts \in 0..maxReconnectAttempts
          /\ shouldStop \in BOOLEAN
          /\ held \in {Waiter, Stopper, Nobody}
          /\ pc \in [Setters -> Places]
          /\ setting \in [Setters -> DeviceStates \cup {"none"}]
          /\ notifying \subseteq Setters
          /\ waiter \in {"out", "checked", "parked", "awake", "over"}
          /\ pipelines \in BOOLEAN
          /\ refused \subseteq Refusals
          /\ crossed \in BOOLEAN

(* A thread asleep in waitForDevice() has not missed the device: if the    *)
(* state is CONNECTED, a notify_all is on its way.  setDeviceState changes *)
(* the state and notifies without deviceMutex_; what saves the waiter is   *)
(* that the argument of the callback in between takes the mutex            *)
(* (DeviceManager.cpp:127-162).                                            *)
NoMissedDevice ==
    (waiter = "parked" /\ deviceState = "CONNECTED")
        => \E t \in Setters : setting[t] = "CONNECTED" \/ t \in notifying

Settled == /\ \A e \in Events : ~Active(e)
           /\ \A t \in Setters : Free(t)
           /\ pc[Worker] = "idle" /\ ~isReconnecting
           /\ pc[Stopper] = "out"

(* When no event is being handled and no retry is under way, the manager   *)
(* knows what is on the bus: the pipelines run only if it is CONNECTED, it *)
(* is CONNECTED only with a device, and has one only if it is plugged in;  *)
(* a camera that is there is CONNECTED unless the last attempt at it has   *)
(* failed, and then streams unless the pipelines did not start.  Earlier   *)
(* attempts may have failed: retries and events make up for them, also     *)
(* one in the middle of the other, as long as no two changes of state have *)
(* crossed (DeviceManager.cpp:148-302, ImageReceiver.cpp:160-199).         *)
SettledIsConsistent ==
    (Settled /\ ~crossed)
        => /\ pipelines => deviceState = "CONNECTED"
           /\ deviceState = "CONNECTED" => device = "live"
           /\ device # "none" => plugged
           /\ plugged => deviceState = "CONNECTED" \/ "connection" \in refused
           /\ deviceState = "CONNECTED" => pipelines \/ "pipelines" \in refused

(* Reconnecting comes to an end, with a device or after the last attempt,  *)
(* unless stop() is called: a disconnection after stop() has cleared the   *)
(* flag sets it for good (DeviceManager.cpp:59, 212, 273-302).             *)
RetryEnds == isReconnecting ~> (~isReconnecting \/ shouldStop)

(* stop() gets past the join of the worker whatever the worker is doing,   *)
(* and comes back unless it has to announce DISCONNECTED: then it waits    *)
(* for the mutex it holds (DeviceManager.cpp:56-96, 155).                  *)
StopGetsThrough ==
    shouldStop ~> (pc[Stopper] = "over" \/ setting[Stopper] = "DISCONNECTED")

(* What perception_framework/README.md:318 says of the ESC key, "exit the  *)
(* program gracefully": stop(), which it leads to, returns.                *)
StopReturns == shouldStop ~> pc[Stopper] = "over"
=============================================================================
