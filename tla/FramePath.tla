------------------------------ MODULE FramePath ------------------------------
(***************************************************************************)
(* What PerceptionSystem does with a frame (PerceptionSystem.cpp           *)
(* processFrame): to the inference manager, then to the calibration        *)
(* manager, in the thread that took the frame - one, or the workers of the *)
(* image receiver's pool.  Another thread enables and disables both, and   *)
(* calls the managers.                                                     *)
(***************************************************************************)
EXTENDS Naturals, Sequences, FiniteSets

CONSTANTS Threads, Models, maxQueueSize, inferenceInterval, DefaultModel,
          MaxFrames, minValidFrames, maxFrames, MaxSessions,
          Configurations,   \* what the configuration enables: subsets of {"inference", "calibration"}
          MaxCalls   \* bound: calls of the managers' controlling thread

ASSUME FramePathAssumption ==
    /\ IsFiniteSet(Threads)
    /\ "default" \in Models /\ "none" \notin Models
    /\ {maxQueueSize, inferenceInterval, minValidFrames} \subseteq Nat \ {0}
    /\ {MaxFrames, maxFrames, MaxSessions, MaxCalls} \subseteq Nat
    /\ maxFrames >= minValidFrames
    /\ DefaultModel \in BOOLEAN
    /\ Configurations \subseteq SUBSET {"inference", "calibration"}

VARIABLES infReady, async, shouldStop, mutexHeld, engines, queue, worker, inHand,
          ctl, frameCounter, fpc, model, stats, dropped, unmatched, strays, taken, raced, missed,
          calReady, calState, points, result, progress, session, computation, calStuck, overtaken,
          configured, inferenceEnabled, calibrationEnabled, calls

Inf == INSTANCE InferenceManager
Cal == INSTANCE CalibrationManager
enabled == <<configured, inferenceEnabled, calibrationEnabled, calls>>
infBut == <<infReady, async, shouldStop, mutexHeld, engines, queue, worker, inHand, ctl,
            frameCounter, model, stats, dropped, unmatched, strays, taken, raced, missed>>
infVars == <<infBut, fpc>>
calVars == <<calReady, calState, points, result, progress, session, computation, calStuck, overtaken>>
vars == <<infVars, calVars, enabled>>

Init == /\ configured \in Configurations
        /\ Inf!Init /\ Cal!Init
        /\ infReady => "inference" \in configured
        /\ calReady = ("calibration" \in configured)
        /\ inferenceEnabled = infReady /\ calibrationEnabled = calReady
        /\ calls = 0

Inference(A) == A /\ UNCHANGED <<calVars, enabled>>
Call == ctl = "idle" /\ calls < MaxCalls /\ calls' = calls + 1
Unchanged == UNCHANGED <<configured, inferenceEnabled, calibrationEnabled>>

(* enableInference() and enableCalibration() want a manager that is ready. *)
EnableInference ==
    /\ Call /\ "inference" \in configured /\ infReady
    /\ inferenceEnabled' = TRUE
    /\ UNCHANGED <<infVars, calVars, configured, calibrationEnabled>>

DisableInference ==
    /\ Call /\ inferenceEnabled
    /\ inferenceEnabled' = FALSE
    /\ UNCHANGED <<infVars, calVars, configured, calibrationEnabled>>

EnableCalibration ==
    /\ Call /\ "calibration" \in configured /\ calReady
    /\ calibrationEnabled' = TRUE
    /\ UNCHANGED <<infVars, calVars, configured, inferenceEnabled>>

DisableCalibration ==
    /\ Call /\ calibrationEnabled
    /\ calibrationEnabled' = FALSE
    /\ Cal!StopCalibration
    /\ UNCHANGED <<infVars, configured, inferenceEnabled>>

(* A frame is given to the inference manager first ...                     *)
FrameToInference(t) ==
    /\ inferenceEnabled
    /\ Inference(Inf!Tick(t))

FrameSteps(t) == Inference(Inf!Test(t) \/ Inf!ChooseModel(t) \/ Inf!Enqueue(t) \/ Inf!RunSync(t))

(* ... and then, whatever became of it there, to the calibration manager.  *)
FrameToCalibration(t) ==
    /\ fpc[t] \in {"idle", "out"}
    /\ fpc' = [fpc EXCEPT ![t] = "idle"]
    /\ UNCHANGED <<infBut, enabled>>
    /\ \/ calibrationEnabled /\ Cal!Collect
       \/ fpc[t] = "out" /\ ~calStuck /\ UNCHANGED calVars

InferenceCalls ==
    /\ Call /\ "inference" \in configured /\ UNCHANGED calVars /\ Unchanged
    /\ \/ Inf!Initialize \/ Inf!ResetStatistics \/ Inf!StopFlag
       \/ \E m \in Models : Inf!UnloadModel(m) \/ Inf!RunDirect(m)

(* The caller's loadModel(), and initialize()'s own.                       *)
Loading ==
    /\ "inference" \in configured /\ (ctl = "loading" \/ calls < MaxCalls)
    /\ calls' = IF ctl = "loading" THEN calls ELSE calls + 1
    /\ \E m \in Models : Inf!LoadModel(m)
    /\ UNCHANGED calVars /\ Unchanged

CalibrationCalls ==
    /\ Call /\ "calibration" \in configured /\ UNCHANGED infVars /\ Unchanged
    /\ \/ Cal!CalInitialize \/ Cal!CalStop
       \/ \E cb \in {"none", "caller"} : Cal!StartCalibration(cb)

Frames == \E t \in Threads : FrameToInference(t) \/ FrameSteps(t) \/ FrameToCalibration(t)
Working == Inference(Inf!WorkerNext)
Stopping == Inference(Inf!StopNext)
Resetting == Inference(Inf!ResetNext)
Computing == Cal!CalThreads /\ UNCHANGED <<infVars, enabled>>

Next == \/ Frames \/ Loading \/ Working \/ Computing \/ Stopping \/ Resetting
        \/ InferenceCalls \/ CalibrationCalls
        \/ EnableInference \/ DisableInference \/ EnableCalibration \/ DisableCalibration

Spec == Init /\ [][Next]_vars

(* Threads that are not blocked run; what the API's caller calls is his.   *)
Fairness == /\ \A t \in Threads : WF_vars(FrameSteps(t)) /\ WF_vars(fpc[t] = "out" /\ FrameToCalibration(t))
            /\ WF_vars(Working) /\ WF_vars(Stopping) /\ WF_vars(Resetting) /\ WF_vars(Computing)
            /\ WF_vars(ctl = "loading" /\ Loading)

FairSpec == Spec /\ Fairness

-----------------------------------------------------------------------------
(* Every variable has its type, in both managers.                          *)
TypeOK == /\ Inf!InferenceTypeOK /\ Cal!CalibrationTypeOK
          /\ {inferenceEnabled, calibrationEnabled} \subseteq BOOLEAN /\ calls \in 0..MaxCalls

(* Every frame that inference accepted is still queued, being worked on,   *)
(* counted or dropped for a reason (InferenceManager.cpp 161-235), but for *)
(* what a reset cleared while it was being counted (395-403).              *)
FramesAccounted == Inf!FramesAccounted

(* Of the frames offered, inference takes every inferenceInterval-th,      *)
(* unless two threads raced in the counter (InferenceManager.cpp 189-201). *)
EveryNthUnlessRaced == Inf!EveryNthUnlessRaced

(* What is queued is served (InferenceManager.cpp 291-326).                *)
QueueServed == Inf!QueueServed

(* stop() returns (InferenceManager.cpp 408-428).                          *)
StopReturns == Inf!StopReturns

(* initialize() returns, with a default model as without                   *)
(* (InferenceManager.cpp 21-68).                                           *)
InitializeReturns == Inf!InitializeReturns

(* A calibration ends in the state of its own result                       *)
(* (CalibrationManager.cpp 126-132).                                       *)
EndsWithItsResult == Cal!EndsWithItsResult

(* No thread waits for a mutex it holds, in the callback of a calibration  *)
(* (PerceptionSystem.cpp 287-288).                                         *)
NoSelfDeadlock == Cal!NoSelfDeadlock
=============================================================================
