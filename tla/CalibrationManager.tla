------------------------- MODULE CalibrationManager -------------------------
(***************************************************************************)
(* calibration/CalibrationManager.cpp: a session collects chessboard       *)
(* corners from the frames; the frame after the last one starts a detached *)
(* thread, which computes the calibration under mutex_, lets the mutex go, *)
(* and takes it again to store the state.  Every operation is one critical *)
(* section of mutex_, so one action; the progress callback runs inside it. *)
(***************************************************************************)
EXTENDS Naturals

CONSTANTS minValidFrames, maxFrames,   \* calibrationConfig
          MaxSessions                  \* bound: sessions started

Sessions == 1..MaxSessions

VARIABLES
    calReady,      \* initialized_
    calState,      \* state_
    points,        \* imagePoints_.size(), and objectPoints_.size()
    result,        \* lastResult_: its session (history) and isValid
    progress,      \* progressCallback_: none, a caller's, or PerceptionSystem's
    session,       \* history: sessions started
    computation,   \* of each session, what its detached thread has done
    calStuck,      \* a thread waits for mutex_ and holds it
    overtaken      \* history: a session was started, or the manager initialised
                   \* again, over a computation that is not over

vars == <<calReady, calState, points, result, progress, session, computation, calStuck, overtaken>>

CalStates == {"IDLE", "COLLECTING", "PROCESSING", "COMPLETED", "FAILED"}
NoResult == [session |-> 0, isValid |-> FALSE]
Outstanding == \E s \in Sessions : computation[s] \in {"started", "valid", "invalid"}

(* initializeCalibrationSystem() is over: if it is configured, the manager *)
(* is ready and has PerceptionSystem's callback.                           *)
Init == /\ calReady \in BOOLEAN /\ calState = "IDLE"
        /\ points = 0 /\ result = NoResult
        /\ progress = IF calReady THEN "system" ELSE "none"
        /\ session = 0 /\ computation = [s \in Sessions |-> "none"]
        /\ calStuck = FALSE /\ overtaken = FALSE

(* The callback of PerceptionSystem asks for getLastResult() when a        *)
(* calibration is completed: it locks mutex_, which its caller holds.      *)
Report(cb, state) == calStuck' = (cb = "system" /\ state = "COMPLETED")

CalInitialize ==
    /\ ~calStuck /\ ~calReady
    /\ calReady' = TRUE /\ calState' = "IDLE" /\ points' = 0 /\ result' = NoResult
    /\ overtaken' = (overtaken \/ Outstanding)
    /\ UNCHANGED <<progress, session, computation, calStuck>>

StartWith(cb) ==
    /\ ~calStuck /\ calReady /\ calState = "IDLE"
    /\ session < MaxSessions
    /\ progress' = cb
    /\ points' = 0 /\ result' = NoResult
    /\ calState' = "COLLECTING"
    /\ session' = session + 1
    /\ overtaken' = (overtaken \/ Outstanding)
    /\ Report(cb, "COLLECTING")
    /\ UNCHANGED <<calReady, computation>>

(* Mutant: the callback is replaced only by one that is given.             *)
StartKeepingCallback(cb) == StartWith(IF cb = "none" THEN progress ELSE cb)

(* startCalibration(): its callback defaults to none, and replaces the one *)
(* setProgressCallback() has set.  After a calibration has ended, it is    *)
(* refused until stopCalibration().                                        *)
StartCalibration(cb) == StartWith(cb)

StopCalibration ==
    /\ ~calStuck
    /\ IF calState = "IDLE" THEN UNCHANGED <<calState, progress>>
                            ELSE calState' = "IDLE" /\ progress' = "none"
    /\ UNCHANGED <<calReady, points, result, session, computation, calStuck, overtaken>>

CalStop ==
    /\ ~calStuck /\ calReady
    /\ calState' = "IDLE" /\ progress' = "none" /\ calReady' = FALSE
    /\ UNCHANGED <<points, result, session, computation, calStuck, overtaken>>

(* processFrame() while collecting, of a frame that converts and comes     *)
(* minInterval after the last one: with maxFrames boards the computation   *)
(* starts, else the frame is searched for a board.  Any other frame        *)
(* changes nothing.                                                        *)
Collect ==
    /\ ~calStuck /\ calReady /\ calState = "COLLECTING"
    /\ IF points >= maxFrames
       THEN /\ calState' = "PROCESSING"
            /\ computation' = [computation EXCEPT ![session] = "started"]
            /\ UNCHANGED <<points, calStuck>>
       ELSE /\ points' = points + 1
            /\ Report(progress, calState)
            /\ UNCHANGED <<calState, computation>>
    /\ UNCHANGED <<calReady, result, progress, session, overtaken>>

(* The first section of the detached thread: performCalibration(), which   *)
(* wants minValidFrames boards, and may fail in OpenCV.                    *)
Compute(s) ==
    /\ ~calStuck /\ computation[s] = "started"
    /\ \E ok \in BOOLEAN :
        /\ ok => points > 0 /\ points >= minValidFrames
        /\ computation' = [computation EXCEPT ![s] = IF ok THEN "valid" ELSE "invalid"]
        /\ result' = [session |-> s, isValid |-> ok]
    /\ UNCHANGED <<calReady, calState, points, progress, session, calStuck, overtaken>>

FinishAs(s, state) ==
    /\ ~calStuck /\ computation[s] \in {"valid", "invalid"}
    /\ computation' = [computation EXCEPT ![s] = "over"]
    /\ calState' = state
    /\ Report(progress, state)
    /\ UNCHANGED <<calReady, points, result, progress, session, overtaken>>

(* Mutant: the result's validity is not looked at.                         *)
FinishRegardless(s) == FinishAs(s, "COMPLETED")

(* The second section stores the outcome, whatever the state is by then.   *)
Finish(s) == FinishAs(s, IF computation[s] = "valid" THEN "COMPLETED" ELSE "FAILED")

CalThreads == \E s \in Sessions : Compute(s) \/ Finish(s)

-----------------------------------------------------------------------------
CalibrationTypeOK ==
    /\ {calReady, calStuck, overtaken} \subseteq BOOLEAN
    /\ calState \in CalStates /\ points \in 0..maxFrames
    /\ result \in [session : 0..MaxSessions, isValid : BOOLEAN]
    /\ progress \in {"none", "caller", "system"}
    /\ session \in 0..MaxSessions
    /\ computation \in [Sessions -> {"none", "started", "valid", "invalid", "over"}]

(* The state a calibration ends in is that of the last result, and of the  *)
(* session started last - also if the session was stopped between the two  *)
(* sections of its thread - unless a session was started meanwhile, which  *)
(* the older computation then ends (CalibrationManager.cpp 126-132).       *)
EndsWithItsResult ==
    calState \in {"COMPLETED", "FAILED"} /\ ~overtaken =>
        result = [session |-> session, isValid |-> calState = "COMPLETED"]

(* No thread waits for mutex_ while it holds it: PerceptionSystem's        *)
(* callback would (PerceptionSystem.cpp 287-288), but every session        *)
(* replaces it (CalibrationManager.cpp 59).                                *)
NoSelfDeadlock == ~calStuck
=============================================================================
