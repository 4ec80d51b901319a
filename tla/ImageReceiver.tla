---------------------------- MODULE ImageReceiver ----------------------------
(***************************************************************************)
(* The pipelines of core/ImageReceiver.cpp, which two threads set up,      *)
(* start and stop without a common lock: the one that handles a change of  *)
(* the system's state (startStreaming, stopStreaming) and the one on which *)
(* the device manager announces a camera (onDeviceStateChanged).  Each     *)
(* step of setupPipelines(), startPipelines() and stopPipelines() is an    *)
(* action.                                                                 *)
(***************************************************************************)
EXTENDS Naturals

CONSTANTS MaxChanges    \* bound: announcements and commands, together

ASSUME ReceiverAssumption == MaxChanges \in Nat

Callers == {"handler", "events"}

VARIABLES
    device,             \* getCurrentDevice() gives a camera
    streamState,        \* streamState_
    pipeline,           \* mainPipeline_: none, created, or running in the SDK
    pipelinesRunning,   \* pipelinesRunning_
    frames,             \* frameMap_ holds a frame
    at, goal,           \* where each caller is, and what it was called for
    changes,
    replugged,          \* history: the events' thread has started the pipeline since the
                        \* handler last stopped it
    refused, crossed    \* history: the last start failed; the two callers were active at once

receiverVars == <<device, streamState, pipeline, pipelinesRunning, frames, at, goal, changes,
                  replugged, refused, crossed>>

Goals == {"start", "stop", "restart", "connected", "lost"}
Points == {"idle", "flag", "sdk", "clear", "setup", "start", "started", "failed"}
OtherCaller(c) == CHOOSE d \in Callers : d # c
Quiet == \A c \in Callers : at[c] = "idle"

(* initialize() has announced the camera, if there was one, and so started *)
(* its pipelines, before any state has been handled.                       *)
ReceiverInit == /\ device \in BOOLEAN
                /\ streamState = "IDLE"
                /\ pipeline = IF device THEN "running" ELSE "none"
                /\ pipelinesRunning = device /\ replugged = device
                /\ frames = FALSE
                /\ at = [c \in Callers |-> "idle"] /\ goal = [c \in Callers |-> "stop"]
                /\ changes = 0 /\ refused = FALSE /\ crossed = FALSE

GoesOn(c, point) == at' = [at EXCEPT ![c] = point]
Begins(c, g, point) ==
    /\ at[c] = "idle" /\ changes < MaxChanges
    /\ changes' = changes + 1
    /\ goal' = [goal EXCEPT ![c] = g] /\ GoesOn(c, point)
    /\ crossed' = (crossed \/ at[OtherCaller(c)] # "idle")
    /\ UNCHANGED <<pipeline, pipelinesRunning, frames, replugged, refused>>

-----------------------------------------------------------------------------
(* startStreaming() is content with its own state, whatever the pipelines  *)
(* do; stopStreaming() with IDLE.  restartStreaming() is both.             *)
StartStreaming ==
    /\ Begins("handler", "start", IF streamState = "RUNNING" THEN "idle" ELSE "setup")
    /\ UNCHANGED <<device, streamState>>

StopStreaming(restart) ==
    /\ Begins("handler", IF restart THEN "restart" ELSE "stop",
              IF streamState # "IDLE" THEN "flag" ELSE IF restart THEN "setup" ELSE "idle")
    /\ UNCHANGED <<device, streamState>>

(* onDeviceStateChanged(): the pipelines are stopped in any case, and      *)
(* started again if the camera is connected - in whatever state the stream *)
(* is.                                                                     *)
Announced(connected) ==
    /\ Begins("events", IF connected THEN "connected" ELSE "lost", "flag")
    /\ device' = connected
    /\ UNCHANGED streamState

-----------------------------------------------------------------------------
(* Mutant: stopStreaming() only resets the state.                          *)
ClearFlagOnly(c) ==
    /\ at[c] = "flag"
    /\ pipelinesRunning' = FALSE
    /\ GoesOn(c, IF c = "handler" THEN "clear" ELSE "sdk")
    /\ UNCHANGED <<device, streamState, pipeline, frames, goal, changes, replugged, refused, crossed>>

(* stopPipelines(): the flag, the SDK's pipeline (stopping one that does   *)
(* not run throws, and is logged), the frames.                             *)
ClearFlag(c) ==
    /\ at[c] = "flag"
    /\ pipelinesRunning' = FALSE
    /\ GoesOn(c, "sdk")
    /\ UNCHANGED <<device, streamState, pipeline, frames, goal, changes, replugged, refused, crossed>>

StopSdk(c) ==
    /\ at[c] = "sdk"
    /\ pipeline' = IF pipeline = "running" THEN "created" ELSE pipeline
    /\ replugged' = (replugged /\ c = "events")
    /\ GoesOn(c, "clear")
    /\ UNCHANGED <<device, streamState, pipelinesRunning, frames, goal, changes, refused, crossed>>

(* Mutant: a camera that connects is not started while the stream is       *)
(* RUNNING, "because it is".                                               *)
AfterStopTrusting(c) == IF goal[c] = "restart" \/ (goal[c] = "connected" /\ streamState # "RUNNING")
                        THEN "setup" ELSE "idle"

(* What follows stopPipelines() in the caller.                             *)
AfterStop(c) == IF goal[c] \in {"restart", "connected"} THEN "setup" ELSE "idle"

ClearFrames(c) ==
    /\ at[c] = "clear"
    /\ frames' = FALSE
    /\ GoesOn(c, AfterStop(c))
    /\ streamState' = IF c = "handler" THEN "IDLE" ELSE streamState
    /\ UNCHANGED <<device, pipeline, pipelinesRunning, goal, changes, replugged, refused, crossed>>

(* setupPipelines(): a new pipeline takes the place of the old one, which  *)
(* its destructor stops.  Without a device, or if the SDK throws before or *)
(* after that: false.                                                      *)
Setup(c) ==
    /\ at[c] = "setup"
    /\ \/ device /\ pipeline' = "created" /\ GoesOn(c, "start") /\ UNCHANGED refused
       \/ /\ GoesOn(c, "failed") /\ refused' = device
          /\ pipeline' \in (IF device THEN {pipeline, "created"} ELSE {pipeline})
    /\ UNCHANGED <<device, streamState, pipelinesRunning, frames, goal, changes, replugged, crossed>>

(* startPipelines(): the SDK may refuse, and does if the pipeline runs.    *)
Start(c) ==
    /\ at[c] = "start"
    /\ \/ pipeline = "created" /\ pipeline' = "running" /\ GoesOn(c, "started")
          /\ refused' = FALSE /\ replugged' = (replugged \/ c = "events")
       \/ GoesOn(c, "failed") /\ refused' = TRUE /\ UNCHANGED <<pipeline, replugged>>
    /\ UNCHANGED <<device, streamState, pipelinesRunning, frames, goal, changes, crossed>>

Started(c) ==
    /\ at[c] = "started"
    /\ pipelinesRunning' = TRUE
    /\ streamState' = IF c = "handler" THEN "RUNNING" ELSE streamState
    /\ GoesOn(c, "idle")
    /\ UNCHANGED <<device, pipeline, frames, goal, changes, replugged, refused, crossed>>

(* A failure is only logged by the events; startStreaming() sets ERROR,    *)
(* and handleRunningState() then handles the ERROR state: stopStreaming(). *)
Failed(c) ==
    /\ at[c] = "failed"
    /\ IF c = "handler" THEN streamState' = "ERROR" /\ GoesOn(c, "flag")
                             /\ goal' = [goal EXCEPT ![c] = "stop"]
                        ELSE UNCHANGED <<streamState, goal>> /\ GoesOn(c, "idle")
    /\ UNCHANGED <<device, pipeline, pipelinesRunning, frames, changes, replugged, refused, crossed>>

FrameArrives ==
    /\ pipeline = "running" /\ ~frames
    /\ frames' = TRUE
    /\ UNCHANGED <<device, streamState, pipeline, pipelinesRunning, at, goal, changes,
                   replugged, refused, crossed>>

PipelineSteps(c) == \/ ClearFlag(c) \/ StopSdk(c) \/ ClearFrames(c)
                    \/ Setup(c) \/ Start(c) \/ Started(c) \/ Failed(c)

ReceiverNext == \/ StartStreaming \/ FrameArrives
                \/ \E b \in BOOLEAN : StopStreaming(b) \/ Announced(b)
                \/ \E c \in Callers : PipelineSteps(c)

ReceiverSpec == ReceiverInit /\ [][ReceiverNext]_receiverVars

-----------------------------------------------------------------------------
ReceiverTypeOK ==
    /\ {device, pipelinesRunning, frames, replugged, refused, crossed} \subseteq BOOLEAN
    /\ streamState \in {"IDLE", "RUNNING", "ERROR"}
    /\ pipeline \in {"none", "created", "running"}
    /\ at \in [Callers -> Points] /\ goal \in [Callers -> Goals]
    /\ changes \in 0..MaxChanges

(* With both threads at rest, the camera streams only in the stream state  *)
(* RUNNING - or because it was connected since the stream was last stopped *)
(* (ImageReceiver.cpp 167-180): then stopStreaming(), content with IDLE,   *)
(* does not stop it either (852-855).                                      *)
StreamsOnlyAsAsked == Quiet /\ pipeline = "running" => streamState = "RUNNING" \/ replugged

(* While the stream is RUNNING, a camera that is there streams, through    *)
(* any number of disconnections, unless the SDK refused it or the two      *)
(* threads met in the pipelines (ImageReceiver.cpp 167-182, 814-847).      *)
CameraStreams ==
    Quiet /\ streamState = "RUNNING" /\ device /\ ~refused /\ ~crossed
        => pipeline = "running" /\ pipelinesRunning
=============================================================================
