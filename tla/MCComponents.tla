---------------------------- MODULE MCComponents ----------------------------
(***************************************************************************)
(* The components that share no state with one another - the receiver's    *)
(* pipelines, the processing of its frames, the window, the remote control *)
(* with its pipes, the inference engine and the configuration - checked by *)
(* one run.  A behaviour is one of one component, chosen at its beginning: *)
(* nothing is interleaved that the code does not interleave.               *)
(***************************************************************************)
EXTENDS ImageReceiver, FrameTasks, RemoteControl, ONNXInference, Config, TLC

CONSTANTS MaxPushes, MaxShows, MaxSpurious    \* CVWindow

ASSUME WindowAssumption == MaxPushes \in Nat /\ MaxShows \in Nat /\ MaxSpurious \in Nat

VARIABLES
    focus,
    closed, srcFrameGroups, frameGroups, renderMat, displayed, showingNoSignal, proc,
        receiver, shows, main, closer, spurious, missed

windowV == <<closed, srcFrameGroups, frameGroups, renderMat, displayed, showingNoSignal,
             proc, receiver, shows, main, closer, spurious, missed>>
allVars == <<focus, receiverVars, tasksVars, windowV, remoteVars, engineVars, configVars>>

(* A set of a color and a depth frame, as from a camera with two streams.  *)
MCSetTypes == <<"COLOR", "DEPTH">>
(* Three boxes in a row: neighbours overlap by more than half, the outer   *)
(* two do not.                                                             *)
MCRects == {<<0, 0, 4, 2>>, <<1, 0, 4, 2>>, <<2, 0, 4, 2>>}
(* An image whose mask has as many points as a square, and another one.    *)
MCSizes == {<<4, 16>>, <<8, 12>>}
(* A field of every type, and one of a section that is never parsed.       *)
MCParsed == <<"stream", "calibration", "logger">>
MCSection == [enableColor |-> "stream", colorWidth |-> "stream", squareSize |-> "calibration",
              minInterval |-> "calibration", logLevel |-> "logger", logDirectory |-> "logger",
              heartbeatInterval |-> "communication"]
MCType == [enableColor |-> "bool", colorWidth |-> "int", squareSize |-> "float",
           minInterval |-> "double", logLevel |-> "level", logDirectory |-> "string",
           heartbeatInterval |-> "int"]
MCDefault == [enableColor |-> TRUE, colorWidth |-> 1, squareSize |-> 2, minInterval |-> 4,
              logLevel |-> 1, logDirectory |-> "./logs/", heartbeatInterval |-> 1]
MCValues == [enableColor |-> {FALSE}, colorWidth |-> {-8}, squareSize |-> {3},
             minInterval |-> {-1}, logLevel |-> {4}, logDirectory |-> {""},
             heartbeatInterval |-> {0}]
(* A file with one key, of any kind of value, before or behind a section   *)
(* that is no object; and one that is not JSON.                            *)
MCJson == {<<"bool", TRUE>>, <<"int", 0>>, <<"int", 6>>, <<"int", 8>>, <<"real", 5>>,
           <<"real", 8>>, <<"string", "dir">>, <<"other", 0>>}
MCDocuments ==
    {Unreadable}
    \cup {[root |-> TRUE, wrong |-> w, member |-> f :> j] :
              w \in {{}, {"calibration"}}, f \in ParsedFields, j \in MCJson}

Window == INSTANCE CVWindow

-----------------------------------------------------------------------------
(* What has several initial states has one when it is not looked at.       *)
Init ==
    /\ focus \in {"receiver", "tasks", "window", "remote", "engine", "config"}
    /\ focus = "receiver" \/ device = FALSE
    /\ focus = "tasks" \/ (enableDump = FALSE /\ colorFormat = "MJPG" /\ parallel = FALSE)
    /\ focus = "engine" \/ modelType = "none"
    /\ ReceiverInit /\ TasksInit /\ Window!Init
    /\ RemoteInit /\ EngineInit /\ ConfigInit

NotReceiver == UNCHANGED <<focus, tasksVars, windowV, remoteVars, engineVars, configVars>>
NotTasks == UNCHANGED <<focus, receiverVars, windowV, remoteVars, engineVars, configVars>>
NotWindow == UNCHANGED <<focus, receiverVars, tasksVars, remoteVars, engineVars, configVars>>
NotRemote == UNCHANGED <<focus, receiverVars, tasksVars, windowV, engineVars, configVars>>
NotEngine == UNCHANGED <<focus, receiverVars, tasksVars, windowV, remoteVars, configVars>>
NotConfig == UNCHANGED <<focus, receiverVars, tasksVars, windowV, remoteVars, engineVars>>

InWindow(A) == focus = "window" /\ A
InRemote(A) == focus = "remote" /\ A

Next == \/ focus = "receiver" /\ ReceiverNext /\ NotReceiver
        \/ focus = "tasks" /\ TasksNext /\ NotTasks
        \/ InWindow(Window!Next) /\ NotWindow
        \/ InRemote(RemoteNext) /\ NotRemote
        \/ focus = "engine" /\ Infer /\ NotEngine
        \/ focus = "config" /\ ConfigNext /\ NotConfig

(* The fairness of CVWindow and of RemoteControl.                          *)
FairSpec ==
    /\ Init /\ [][Next]_allVars
    /\ WF_windowV(InWindow(Window!Fair)) /\ WF_windowV(InWindow(Window!ReceiverGoesOn))
    /\ SF_windowV(InWindow(Window!MainTicks)) /\ WF_windowV(InWindow(Window!MainShows))
    /\ \A s \in {"server", "client"} : WF_remoteVars(InRemote(ProxyConnects(s)))
    /\ WF_remoteVars(InRemote(ServerRuns)) /\ WF_remoteVars(InRemote(ServerPool))
    /\ WF_remoteVars(InRemote(ClientRuns))
    /\ SF_remoteVars(InRemote(SendHeartbeat)) /\ WF_remoteVars(InRemote(Greets))

-----------------------------------------------------------------------------
(* Every component's variables have their types.                           *)
TypeOK == /\ ReceiverTypeOK /\ TasksTypeOK
          /\ Window!WindowTypeOK /\ RemoteTypeOK /\ ConfigTypeOK

(* Closing the window comes to an end, unless its notification is missed   *)
(* (CVWindow.cpp 152-160, 261-268).                                        *)
CloseReturns == Window!CloseReturns

(* A window without signal says so, also over a late frame                 *)
(* (CVWindow.cpp 136-149).                                                 *)
NoSignalReturns == Window!NoSignalReturns
=============================================================================
