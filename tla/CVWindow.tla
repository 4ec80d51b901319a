------------------------------ MODULE CVWindow ------------------------------
(***************************************************************************)
(* utils/CVWindow.cpp: the receiver's thread pushes frames and says when   *)
(* there is no signal, processThread_ renders them, the main thread shows  *)
(* the rendered picture, and whoever drops the window last closes it.  A   *)
(* picture is the number of the push it shows, or NoSignal; layout, text   *)
(* and the keys that change them are left out.                             *)
(***************************************************************************)
EXTENDS Naturals

CONSTANTS MaxPushes, MaxShows, MaxSpurious     \* bounds

VARIABLES
    closed,              \* closed_
    srcFrameGroups,      \* the last push, 0 for none
    frameGroups,         \* processThread_'s copy of it
    renderMat,           \* renderMat_
    displayed,           \* what imshow() was given last
    showingNoSignal,     \* showingNoSignalFrame_
    proc,                \* where processThread_ is
    receiver, shows,     \* where the receiver's thread is; how often it saw no signal
    main,                \* where the main thread is in its loop
    closer,              \* where ~CVWindow() is
    spurious,            \* spurious wake-ups so far
    missed               \* history: close() notified between processThread_'s test of
                         \* closed_ and its wait

procVars == <<frameGroups, proc, spurious>>
mainVars == <<displayed, main>>
receiverVars == <<srcFrameGroups, receiver, shows>>
vars == <<closed, renderMat, showingNoSignal, closer, missed, procVars, mainVars, receiverVars>>

NoSignal == 0
Pictures == 0..MaxPushes

Init == /\ closed = FALSE /\ showingNoSignal = FALSE /\ missed = FALSE
        /\ srcFrameGroups = 0 /\ frameGroups = 0
        /\ renderMat = NoSignal /\ displayed = NoSignal
        /\ proc = "test" /\ receiver = "idle" /\ main = "events" /\ closer = "no"
        /\ shows = 0 /\ spurious = 0

(* The window is in use as long as nobody has dropped it.                  *)
InUse == closer = "no"
Woken == IF proc = "waiting" THEN "awake" ELSE proc

-----------------------------------------------------------------------------
(* processFrames(): closed_ is tested outside the mutex, and the wait has  *)
(* no predicate.                                                           *)
ProcTest ==
    /\ proc = "test"
    /\ proc' = IF closed THEN "exit" ELSE "enter"
    /\ UNCHANGED <<frameGroups, spurious, renderMat>>

ProcWait ==
    /\ proc = "enter" /\ proc' = "waiting"
    /\ UNCHANGED <<frameGroups, spurious, renderMat>>

ProcCopy ==
    /\ proc = "awake"
    /\ frameGroups' = srcFrameGroups
    /\ proc' = IF srcFrameGroups = 0 THEN "test" ELSE "render"
    /\ UNCHANGED <<spurious, renderMat>>

(* visualize() and arrangeFrames(): a format that is not shown, or a       *)
(* picture that cannot be arranged, leaves the last one.                   *)
ProcRender ==
    /\ proc = "render" /\ proc' = "test"
    /\ renderMat' \in {frameGroups, renderMat}
    /\ UNCHANGED <<frameGroups, spurious>>

ProcNext == /\ ProcTest \/ ProcWait \/ ProcCopy \/ ProcRender
            /\ UNCHANGED <<closed, showingNoSignal, closer, missed, mainVars, receiverVars>>

SpuriousWake ==
    /\ proc = "waiting" /\ spurious < MaxSpurious
    /\ proc' = "awake" /\ spurious' = spurious + 1
    /\ UNCHANGED <<frameGroups, closed, renderMat, showingNoSignal, closer, missed,
                   mainVars, receiverVars>>

-----------------------------------------------------------------------------
(* renderFrames(), with frames: they are pushed, then the no-signal        *)
(* picture is given up.                                                    *)
PushFramesToView ==
    /\ receiver = "idle" /\ InUse /\ srcFrameGroups < MaxPushes
    /\ srcFrameGroups' = srcFrameGroups + 1
    /\ receiver' = "hide" /\ proc' = Woken
    /\ UNCHANGED <<shows, showingNoSignal, renderMat, frameGroups, spurious>>

HideNoSignalFrame ==
    /\ receiver = "hide" /\ receiver' = "idle"
    /\ showingNoSignal' = FALSE
    /\ UNCHANGED <<srcFrameGroups, shows, renderMat, procVars>>

(* Without frames, or without a device: the flag first, the picture then.  *)
ShowNoSignalFrame ==
    /\ receiver = "idle" /\ InUse /\ ~closed /\ shows < MaxShows
    /\ showingNoSignal' = TRUE
    /\ receiver' = "show" /\ shows' = shows + 1
    /\ UNCHANGED <<srcFrameGroups, renderMat, procVars>>

NoSignalShown ==
    /\ receiver = "show" /\ receiver' = "idle"
    /\ renderMat' = NoSignal
    /\ UNCHANGED <<srcFrameGroups, shows, showingNoSignal, procVars>>

ReceiverGoesOn == /\ HideNoSignalFrame \/ NoSignalShown
                  /\ UNCHANGED <<closed, closer, missed, mainVars>>
ReceiverCalls == /\ PushFramesToView \/ ShowNoSignalFrame
                 /\ UNCHANGED <<closed, closer, missed, mainVars>>

-----------------------------------------------------------------------------
(* processEvents(): a second after it was made, the no-signal picture is   *)
(* made anew, in place of whatever was rendered - of a frame, too, that    *)
(* came after the flag was read.                                           *)
Polls(next) == /\ main = "events" /\ InUse /\ ~closed
               /\ main' = next /\ UNCHANGED <<displayed, renderMat>>
SecondOver == showingNoSignal /\ Polls("remake")

RemakeAs(picture) == /\ main = "remake" /\ main' = "update"
                     /\ renderMat' = picture /\ UNCHANGED displayed

(* Mutant: the no-signal picture is only made once.                        *)
RemakeIdly == RemakeAs(renderMat)

RemakeNoSignal == RemakeAs(NoSignal)

UpdateWindow == /\ main = "update" /\ main' = "events"
                /\ displayed' = IF closed THEN displayed ELSE renderMat
                /\ UNCHANGED renderMat

MainRest == UNCHANGED <<closed, showingNoSignal, closer, missed, procVars, receiverVars>>
MainTicks == SecondOver /\ MainRest
MainShows == (RemakeNoSignal \/ UpdateWindow) /\ MainRest
MainPolls == Polls("update") /\ MainRest     \* no flag, or before the second is over

(* ESC ends the main thread's loop; the frames' thread goes on until it    *)
(* sees closed_.                                                           *)
Escape == /\ main = "events" /\ InUse /\ ~closed
          /\ closed' = TRUE /\ proc' = Woken
          /\ UNCHANGED <<frameGroups, spurious, renderMat, showingNoSignal, closer, missed,
                         mainVars, receiverVars>>

-----------------------------------------------------------------------------
(* Mutant: close() does not wake the thread it is about to join.           *)
CloseSilently ==
    /\ InUse /\ receiver = "idle" /\ main = "events"
    /\ closer' = "join" /\ closed' = TRUE
    /\ UNCHANGED <<missed, renderMat, showingNoSignal, procVars, mainVars, receiverVars>>

(* ~CVWindow(), close(): closed_ is set and notified under renderMatsMtx_, *)
(* not under the mutex of the wait.                                        *)
Close ==
    /\ InUse /\ receiver = "idle" /\ main = "events"
    /\ closer' = "join" /\ closed' = TRUE /\ proc' = Woken
    /\ missed' = (proc = "enter")
    /\ UNCHANGED <<frameGroups, spurious, renderMat, showingNoSignal, mainVars, receiverVars>>

(* The thread joined, the frames are cleared and the window destroyed.     *)
Joined ==
    /\ closer = "join" /\ proc = "exit"
    /\ closer' = "over" /\ srcFrameGroups' = 0
    /\ UNCHANGED <<closed, renderMat, showingNoSignal, missed, procVars, mainVars, receiver, shows>>

Next == \/ ProcNext \/ SpuriousWake \/ ReceiverGoesOn \/ ReceiverCalls
        \/ MainTicks \/ MainShows \/ MainPolls \/ Escape \/ Close \/ Joined

Spec == Init /\ [][Next]_vars

(* Threads that are not blocked run, and seconds pass.                     *)
Fair == ProcNext \/ Joined
FairSpec == Spec /\ WF_vars(Fair) /\ WF_vars(ReceiverGoesOn) /\ SF_vars(MainTicks)
                 /\ WF_vars(MainShows)

-----------------------------------------------------------------------------
WindowTypeOK ==
    /\ {closed, showingNoSignal, missed} \subseteq BOOLEAN
    /\ {srcFrameGroups, frameGroups, renderMat, displayed} \subseteq Pictures
    /\ proc \in {"test", "enter", "waiting", "awake", "render", "exit"}
    /\ receiver \in {"idle", "hide", "show"} /\ main \in {"events", "remake", "update"}
    /\ closer \in {"no", "join", "over"}
    /\ shows \in 0..MaxShows /\ spurious \in 0..MaxSpurious

(* Closing the window comes to an end, whatever its thread is doing,       *)
(* unless the notification fell between that thread's test of closed_ and  *)
(* its wait: then the join waits for a spurious wake-up                    *)
(* (CVWindow.cpp 152-160, 261-268).                                        *)
CloseReturns == closer = "join" ~> closer = "over" \/ missed

(* Once no signal is announced the window says so, even if a frame pushed  *)
(* before is rendered after: unless frames come or the window is closed    *)
(* (CVWindow.cpp 136-149, 653-669).                                        *)
NoSignalReturns == showingNoSignal ~> displayed = NoSignal \/ ~showingNoSignal \/ closed
=============================================================================
