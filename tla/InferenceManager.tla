-------------------------- MODULE InferenceManager --------------------------
(***************************************************************************)
(* inference/InferenceManager.cpp: the frames that threads hand to         *)
(* processFrame(), the queue and worker of the asynchronous mode, and the  *)
(* calls of one controlling thread: initialize(), loadModel(),             *)
(* unloadModel(), runInference(), resetStatistics(), stop().               *)
(*                                                                         *)
(* A critical section of mutex_ (an inference is one) or of queueMutex_ is *)
(* one action, except where a thread keeps the lock from step to step:     *)
(* initialize() keeps mutex_ while it loads the default model, and the     *)
(* worker keeps queueMutex_ from its predicate to its sleep.               *)
(***************************************************************************)
EXTENDS Naturals, Sequences, FiniteSets

CONSTANTS Threads,             \* the threads that call processFrame()
          Models,              \* model names, "default" among them
          maxQueueSize,        \* inferenceConfig
          inferenceInterval,   \* inferenceConfig
          DefaultModel,        \* are defaultModel and defaultModelType configured
          MaxFrames            \* bound: frames that reach the counter

VARIABLES
    infReady,         \* initialized_
    async,            \* config_.asyncInference
    shouldStop,
    mutexHeld,        \* initialize() holds mutex_ between two of its steps
    engines,          \* the names in engines_
    queue,            \* asyncQueue_: the model name of each task
    worker,           \* asyncWorker_
    inHand,           \* the worker's task
    ctl,              \* where the controlling thread is; in resetStatistics(), the
                      \* counter it clears next
    frameCounter,
    fpc, model,       \* where each frame thread is, and the model it chose
    stats,            \* the counters of stats_
    dropped,          \* history: frames counted while no engine was loaded
    unmatched,        \* history: outcomes whose frame stats_ has not counted
    strays,           \* history: what the last reset cleared although it was counted
                      \* while the reset was under way
    taken, raced,     \* history: frames past the interval test; two threads between
                      \* increment and test at once
    missed            \* history: stop() notified while the worker was about to sleep

frameVars == <<frameCounter, fpc, model, taken, raced>>
workVars == <<queue, worker, inHand, missed>>
infVars == <<infReady, async, shouldStop, mutexHeld, engines, ctl>>
counts == <<stats, strays>>
statVars == <<counts, dropped, unmatched>>
vars == <<infVars, workVars, frameVars, statVars>>

Counters == {"processed", "skipped", "ok", "failed"}
Stages == {"idle", "ticked", "counted", "chosen", "out"}

(* Before initialize(), or - without a default model - after it and any    *)
(* calls of loadModel().                                                   *)
Init == /\ infReady \in {FALSE, ~DefaultModel}
        /\ async \in BOOLEAN
        /\ engines \in IF infReady THEN SUBSET Models ELSE {{}}
        /\ worker = IF infReady /\ async THEN "loop" ELSE "none"
        /\ shouldStop = FALSE /\ mutexHeld = FALSE /\ ctl = "idle"
        /\ queue = <<>> /\ inHand = "none" /\ missed = FALSE
        /\ frameCounter = 0 /\ taken = 0 /\ raced = FALSE
        /\ fpc = [t \in Threads |-> "idle"]
        /\ model = [t \in Threads |-> "none"]
        /\ stats = [c \in Counters |-> 0]
        /\ dropped = 0 /\ unmatched = 0 /\ strays = 0

Moves(t, stage) == fpc' = [fpc EXCEPT ![t] = stage]

(* resetStatistics() clears the counters in this order, by one store each  *)
(* and without a lock; Doomed are those it has still to clear.             *)
After == [ok |-> "failed", failed |-> "processed", processed |-> "skipped", skipped |-> "idle"]
Doomed == CASE ctl = "failed" -> {"failed", "processed", "skipped"}
            [] ctl = "processed" -> {"processed", "skipped"}
            [] ctl = "skipped" -> {"skipped"}
            [] OTHER -> {}
Clears(c) == stats' = [stats EXCEPT ![c] = 0] /\ ctl' = After[c]

Counts(c) == /\ stats' = [stats EXCEPT ![c] = @ + 1]
             /\ strays' = IF c \in Doomed THEN strays + 1 ELSE strays
Counted == Cardinality({t \in Threads : fpc[t] \in {"counted", "chosen"}})
Pending == Counted + Len(queue) + (IF inHand = "none" THEN 0 ELSE 1)

-----------------------------------------------------------------------------
(* initialize(): a no-op when initialised.  The worker starts before the   *)
(* default model is loaded, and mutex_ is held all along.                  *)
Initialize ==
    /\ ctl = "idle" /\ ~mutexHeld /\ ~infReady
    /\ IF async THEN shouldStop' = FALSE /\ worker' = "loop"
                ELSE UNCHANGED <<shouldStop, worker>>
    /\ IF DefaultModel THEN mutexHeld' = TRUE /\ ctl' = "loading" /\ UNCHANGED infReady
                       ELSE infReady' = TRUE /\ UNCHANGED <<mutexHeld, ctl>>
    /\ UNCHANGED <<async, engines, queue, inHand, missed, frameVars, statVars>>

(* loadModel() locks mutex_; a bad configuration or file leaves engines_   *)
(* as it is.  Called by initialize() for the default model, the caller     *)
(* holds mutex_ already: std::mutex is not recursive, and the step is      *)
(* never enabled.                                                          *)
LoadModel(m) ==
    /\ ctl = "idle" \/ (ctl = "loading" /\ m = "default")
    /\ ~mutexHeld
    /\ engines' \in {engines, engines \cup {m}}
    /\ ctl' = "idle"
    /\ infReady' = (infReady \/ ctl = "loading")
    /\ UNCHANGED <<async, shouldStop, mutexHeld, workVars, frameVars, statVars>>

UnloadModel(m) ==
    /\ ctl = "idle" /\ ~mutexHeld
    /\ m \in engines
    /\ engines' = engines \ {m}
    /\ UNCHANGED <<infReady, async, shouldStop, mutexHeld, ctl, workVars, frameVars, statVars>>

(* runInference(): an unknown model or an exception counts a failure, and  *)
(* so does a result that is not valid.                                     *)
RunInference(m) == \/ m \in engines /\ Counts("ok")
                   \/ Counts("failed")

RunDirect(m) ==
    /\ ctl = "idle" /\ ~mutexHeld
    /\ unmatched = 0 /\ RunInference(m) /\ unmatched' = 1
    /\ UNCHANGED <<infVars, workVars, frameVars, dropped>>

(* resetStatistics(): frames on their way keep going between its stores,   *)
(* and will be counted when they are done.                                 *)
ResetStatistics ==
    /\ ctl = "idle"
    /\ Clears("ok")
    /\ dropped' = 0 /\ unmatched' = Pending /\ strays' = 0
    /\ UNCHANGED <<infReady, async, shouldStop, mutexHeld, engines, workVars, frameVars>>

ResetNext ==
    /\ ctl \in Counters /\ Clears(ctl)
    /\ UNCHANGED <<infReady, async, shouldStop, mutexHeld, engines, workVars, frameVars,
                   strays, dropped, unmatched>>

-----------------------------------------------------------------------------
(* processFrame(), in the frame's thread: past the gate the counter is     *)
(* incremented and then read again, by two atomic operations.              *)
Tick(t) ==
    /\ fpc[t] = "idle" /\ infReady
    /\ frameCounter < MaxFrames
    /\ frameCounter' = frameCounter + 1
    /\ raced' = (raced \/ \E u \in Threads : fpc[u] = "ticked")
    /\ Moves(t, "ticked")
    /\ UNCHANGED <<model, taken, infVars, workVars, statVars>>

(* One frame in inferenceInterval goes on; its conversion may fail         *)
(* (convertFrameToMat() knows BGR, RGB and Y16), and then counts nothing.  *)
TestAgainst(t, n, failureCounts) ==
    /\ fpc[t] = "ticked"
    /\ IF n % inferenceInterval # 0
       THEN Moves(t, "out") /\ UNCHANGED <<counts, taken>>
       ELSE /\ taken' = taken + 1
            /\ \/ Moves(t, "counted") /\ Counts("processed")
               \/ Moves(t, "out") /\ (IF failureCounts THEN Counts("processed") ELSE UNCHANGED counts)
    /\ UNCHANGED <<frameCounter, model, raced, infVars, workVars, dropped, unmatched>>

(* Mutants: the counter is tested as it was before this frame; a frame is  *)
(* counted before its conversion is checked.                               *)
TestOffByOne(t) == TestAgainst(t, frameCounter - 1, FALSE)
TestCountsFirst(t) == TestAgainst(t, frameCounter, TRUE)

Test(t) == TestAgainst(t, frameCounter, FALSE)

ChooseModel(t) ==
    /\ fpc[t] = "counted" /\ ~mutexHeld
    /\ IF engines = {}
       THEN Moves(t, "out") /\ dropped' = dropped + 1 /\ UNCHANGED model
       ELSE /\ Moves(t, "chosen")
            /\ model' = [model EXCEPT ![t] = IF "default" \in engines THEN "default"
                                             ELSE CHOOSE m \in engines : TRUE]
            /\ UNCHANGED dropped
    /\ UNCHANGED <<frameCounter, taken, raced, infVars, workVars, counts, unmatched>>

Wakes == worker' = IF worker = "parked" THEN "awake" ELSE worker

(* runInferenceAsync(), under queueMutex_.  Nothing here looks at          *)
(* initialized_ again: a frame may be queued after stop() has returned.    *)
EnqueueIf(t, room, wakes) ==
    /\ fpc[t] = "chosen" /\ async
    /\ worker # "deciding"
    /\ IF room THEN queue' = Append(queue, model[t]) /\ wakes /\ UNCHANGED counts
               ELSE Counts("skipped") /\ UNCHANGED <<queue, worker>>
    /\ Moves(t, "out")
    /\ UNCHANGED <<frameCounter, model, taken, raced, infVars, inHand, missed, dropped, unmatched>>

(* Mutants: the queue takes one task more; nobody is notified.             *)
EnqueueOneMore(t) == EnqueueIf(t, Len(queue) <= maxQueueSize, Wakes)
EnqueueSilently(t) == EnqueueIf(t, Len(queue) < maxQueueSize, UNCHANGED worker)

Enqueue(t) == EnqueueIf(t, Len(queue) < maxQueueSize, Wakes)

RunSync(t) ==
    /\ fpc[t] = "chosen" /\ ~async /\ ~mutexHeld
    /\ RunInference(model[t])
    /\ Moves(t, "out")
    /\ UNCHANGED <<frameCounter, model, taken, raced, infVars, workVars, dropped, unmatched>>

-----------------------------------------------------------------------------
(* asyncInferenceWorker(): test, lock, predicate; then the first task, the *)
(* sleep, or the end.                                                      *)
WorkerLoops ==
    /\ worker \in {"loop", "awake"}
    /\ IF shouldStop THEN worker' = "over" /\ UNCHANGED <<queue, inHand>>
       ELSE IF queue = <<>> THEN worker' = "deciding" /\ UNCHANGED <<queue, inHand>>
       ELSE worker' = "infer" /\ inHand' = Head(queue) /\ queue' = Tail(queue)
    /\ UNCHANGED <<missed, infVars, frameVars, statVars>>

WorkerParks ==
    /\ worker = "deciding"
    /\ worker' = "parked"
    /\ UNCHANGED <<queue, inHand, missed, infVars, frameVars, statVars>>

(* The inference, and the callback: PerceptionSystem::handleInferenceResult *)
(* only logs.                                                              *)
WorkerInfers ==
    /\ worker = "infer" /\ ~mutexHeld
    /\ RunInference(inHand)
    /\ worker' = "loop" /\ inHand' = "none"
    /\ UNCHANGED <<queue, missed, infVars, frameVars, dropped, unmatched>>

(* stop() stores the flag and notifies without queueMutex_: a worker       *)
(* between its predicate and its sleep misses both.                        *)
StopFlag ==
    /\ ctl = "idle" /\ infReady
    /\ shouldStop' = TRUE
    /\ ctl' = IF worker = "none" THEN "clear" ELSE "notify"
    /\ UNCHANGED <<infReady, async, mutexHeld, engines, workVars, frameVars, statVars>>

(* Mutant: stop() joins the worker without waking it.                      *)
StopSilently ==
    /\ ctl = "notify"
    /\ ctl' = "join"
    /\ UNCHANGED <<infReady, async, shouldStop, mutexHeld, engines, workVars, frameVars, statVars>>

StopNotify ==
    /\ ctl = "notify"
    /\ ctl' = "join"
    /\ Wakes
    /\ missed' = (worker = "deciding")
    /\ UNCHANGED <<infReady, async, shouldStop, mutexHeld, engines, queue, inHand, frameVars, statVars>>

StopJoin ==
    /\ ctl = "join" /\ worker = "over"
    /\ ctl' = "clear" /\ worker' = "none"
    /\ UNCHANGED <<infReady, async, shouldStop, mutexHeld, engines, queue, inHand, missed, frameVars, statVars>>

(* The queue is not cleared: its tasks wait for the next initialize().     *)
StopClear ==
    /\ ctl = "clear" /\ ~mutexHeld
    /\ engines' = {} /\ infReady' = FALSE /\ ctl' = "idle"
    /\ UNCHANGED <<async, shouldStop, mutexHeld, workVars, frameVars, statVars>>

FrameNext(t) == Tick(t) \/ Test(t) \/ ChooseModel(t) \/ Enqueue(t) \/ RunSync(t)
WorkerNext == WorkerLoops \/ WorkerParks \/ WorkerInfers
StopNext == StopNotify \/ StopJoin \/ StopClear
Calls == \/ Initialize \/ ResetStatistics \/ StopFlag
         \/ \E m \in Models : LoadModel(m) \/ UnloadModel(m) \/ RunDirect(m)

-----------------------------------------------------------------------------
InferenceTypeOK ==
    /\ {infReady, async, shouldStop, mutexHeld, raced, missed} \subseteq BOOLEAN
    /\ engines \subseteq Models
    /\ queue \in Seq(Models) /\ Len(queue) <= maxQueueSize
    /\ worker \in {"none", "loop", "deciding", "parked", "awake", "infer", "over"}
    /\ inHand \in Models \cup {"none"} /\ (inHand # "none" <=> worker = "infer")
    /\ ctl \in {"idle", "loading", "notify", "join", "clear", "failed", "processed", "skipped"}
    /\ fpc \in [Threads -> Stages] /\ model \in [Threads -> Models \cup {"none"}]
    /\ stats \in [Counters -> Nat] /\ {frameCounter, taken, dropped, unmatched, strays} \subseteq Nat

(* The statistics account for every frame: what framesProcessed counted is *)
(* a frame dropped for want of an engine, skipped by the full queue, on    *)
(* its way, or an outcome (InferenceManager.cpp 131, 145-148, 172, 213).   *)
(* Only a direct runInference() and the frames on their way when a reset   *)
(* began leave outcomes without frame.  The seven stores of                *)
(* resetStatistics() are no one step (396-403): counts made among them may *)
(* be cleared, and each of those is out of the balance by one.             *)
FramesAccounted ==
    LET processed == stats["processed"] + unmatched
        accounted == dropped + stats["skipped"] + stats["ok"] + stats["failed"] + Pending
    IN  ctl \notin Counters => /\ processed <= accounted + strays
                              /\ accounted <= processed + strays

(* One frame in inferenceInterval is taken, unless two threads were        *)
(* between the increment and the test at once (InferenceManager.cpp        *)
(* 200-201): then a multiple of the interval may be seen twice or never.   *)
EveryNthUnlessRaced ==
    ~raced /\ (\A t \in Threads : fpc[t] # "ticked") => taken = frameCounter \div inferenceInterval

(* A queued frame is taken up unless the manager is stopped: the worker    *)
(* never sleeps through a submission (InferenceManager.cpp 171-184).       *)
QueueServed == (queue # <<>> /\ infReady) ~> (queue = <<>> \/ shouldStop)

(* stop() returns, unless its notification (InferenceManager.cpp 417) fell *)
(* between the worker's predicate and its sleep.                           *)
StopReturns == ctl = "notify" ~> (ctl = "idle" \/ missed)

(* initialize() returns (tests/inference_demo.cpp 34-39).                  *)
InitializeReturns == ctl = "loading" ~> ctl = "idle"
=============================================================================
