-------------------------- MODULE PerceptionSystem --------------------------
(***************************************************************************)
(* core/PerceptionSystem.cpp: the system state machine, shared without a   *)
(* lock by the main thread (start, run, stop) and by the handler of        *)
(* commands, a worker of the communication proxy.                          *)
(*                                                                         *)
(* callbackMutex_ serialises the commands (CommProxy), so one Handler      *)
(* stands for all workers.  Of the proxy only start() and stop() appear    *)
(* here, of the image receiver only what startStreaming() and              *)
(* stopStreaming() answer and leave behind.                                *)
(***************************************************************************)
EXTENDS Naturals

CONSTANT MaxCommands    \* bound: commands the peer sends

ASSUME MaxCommandsIsNat == MaxCommands \in Nat

Main == "main"
Handler == "handler"
Actors == {Main, Handler}

States == {"PENDING", "RUNNING", "ERROR", "CALIBRATING", "UPGRADING", "SHUTDOWN"}

VARIABLES
    currentState,   \* currentState_
    isRunning,      \* isRunning_
    shouldExit,     \* shouldExit_
    comm,           \* commProxy_: "off", "up", "closing" (in stop()), "down"
    stream,         \* the image receiver's streamState_
    at, to,         \* setState(to[a]): how far actor a is in its innermost call
    nested,         \* nested[a]: that call was made by the handler of another, for RUNNING
    spc,            \* stop(): program counter of each actor
    mpc,            \* the main thread in start() and run()
    commands,       \* commands handled so far
    lastReport,     \* the status last handed to commProxy_.sendMessage()
    overlapped      \* two setState() calls of different actors have overlapped

sysVars == <<currentState, isRunning, shouldExit, comm, stream>>
calls == <<at, to, nested>>
vars == <<sysVars, calls, spc, mpc, commands, lastReport, overlapped>>

-----------------------------------------------------------------------------
(* initialize() is over: the state is PENDING, the proxy is set up but not *)
(* started, the image receiver is there but does not stream.               *)
Init == /\ currentState = "PENDING"
        /\ isRunning = FALSE
        /\ shouldExit = FALSE
        /\ comm = "off"
        /\ stream = "IDLE"
        /\ at = [a \in Actors |-> "out"]
        /\ to = [a \in Actors |-> "PENDING"]
        /\ nested = [a \in Actors |-> FALSE]
        /\ spc = [a \in Actors |-> "out"]
        /\ mpc = "comm"
        /\ commands = 0
        /\ lastReport = "none"
        /\ overlapped = FALSE

-----------------------------------------------------------------------------
(* setState(newState): a call of the handler of RUNNING may wait in        *)
(* handleStateTransition() for the setState(ERROR) it has made.            *)
Idle(a) == at[a] = "out"
At(a, l) == at[a] = l /\ spc[a] = "out"

Goes(a, l) == at' = [at EXCEPT ![a] = l] /\ UNCHANGED <<to, nested>>

Enters(a, s) == /\ at' = [at EXCEPT ![a] = "check"]
                /\ to' = [to EXCEPT ![a] = s]

(* Mutant: the outer call is not resumed as such.                          *)
ReturnsNested(a) ==
    /\ at' = [at EXCEPT ![a] = IF nested[a] THEN "report" ELSE "out"]
    /\ to' = [to EXCEPT ![a] = IF nested[a] THEN "RUNNING" ELSE @]
    /\ UNCHANGED nested

(* The end of the innermost call: its caller, if it is nested, has only    *)
(* its own report left to send.                                            *)
Returns(a) == /\ at' = [at EXCEPT ![a] = IF nested[a] THEN "report" ELSE "out"]
              /\ to' = [to EXCEPT ![a] = IF nested[a] THEN "RUNNING" ELSE @]
              /\ nested' = [nested EXCEPT ![a] = FALSE]

(* Mutant: SHUTDOWN may be left like any other state.                      *)
ValidFromShutdown(old, new) == /\ old # new
                               /\ old = "ERROR" => new = "PENDING"
                               /\ old = "UPGRADING" => new \in {"PENDING", "ERROR"}

isValidStateTransition(old, new) ==
    /\ old # new
    /\ old = "ERROR" => new = "PENDING"
    /\ old # "SHUTDOWN"
    /\ old = "UPGRADING" => new \in {"PENDING", "ERROR"}

(* Mutant: a refused transition is reported like an accepted one.          *)
CheckReports(a) == /\ At(a, "check")
                   /\ Goes(a, IF isValidStateTransition(currentState, to[a])
                              THEN "write" ELSE "report")
                   /\ UNCHANGED <<sysVars, spc, mpc, commands, lastReport, overlapped>>

Check(a) == /\ At(a, "check")
            /\ IF isValidStateTransition(currentState, to[a])
               THEN Goes(a, "write")
               ELSE Returns(a)
            /\ UNCHANGED <<sysVars, spc, mpc, commands, lastReport, overlapped>>

Write(a) == /\ At(a, "write")
            /\ currentState' = to[a]
            /\ Goes(a, "handle")
            /\ UNCHANGED <<isRunning, shouldExit, comm, stream, spc, mpc, commands,
                           lastReport, overlapped>>

(* Mutant: a state handler forgets the image receiver.                     *)
HandleIdly(a) == /\ At(a, "handle")
                 /\ to[a] \notin {"RUNNING", "SHUTDOWN"}
                 /\ Goes(a, "report")
                 /\ UNCHANGED <<sysVars, spc, mpc, commands, lastReport, overlapped>>

(* handlePendingState, handleErrorState, handleCalibratingState and        *)
(* handleUpgradingState: stopStreaming().                                  *)
HandleQuiet(a) == /\ At(a, "handle")
                  /\ to[a] \notin {"RUNNING", "SHUTDOWN"}
                  /\ stream' = "IDLE"
                  /\ Goes(a, "report")
                  /\ UNCHANGED <<currentState, isRunning, shouldExit, comm, spc, mpc,
                                 commands, lastReport, overlapped>>

(* handleRunningState: startStreaming() succeeds, at once if it runs       *)
(* already, or fails, and the failure is one more setState().              *)
HandleRunning(a) ==
    /\ At(a, "handle")
    /\ to[a] = "RUNNING"
    /\ \/ /\ stream' = "RUNNING"
          /\ Goes(a, "report")
       \/ /\ stream # "RUNNING"
          /\ stream' = "ERROR"
          /\ Enters(a, "ERROR")
          /\ nested' = [nested EXCEPT ![a] = TRUE]
    /\ UNCHANGED <<currentState, isRunning, shouldExit, comm, spc, mpc, commands,
                   lastReport, overlapped>>

(* handleShutdownState: stopStreaming(), then stop().                      *)
HandleShutdown(a) == /\ At(a, "handle")
                     /\ to[a] = "SHUTDOWN"
                     /\ stream' = "IDLE"
                     /\ Goes(a, "report")
                     /\ spc' = [spc EXCEPT ![a] = "guard"]
                     /\ UNCHANGED <<currentState, isRunning, shouldExit, comm, mpc,
                                    commands, lastReport, overlapped>>

Report(a) == /\ At(a, "report")
             /\ lastReport' = to[a]
             /\ Returns(a)
             /\ UNCHANGED <<sysVars, spc, mpc, commands, overlapped>>

SetState(a) == \/ Check(a) \/ Write(a) \/ Report(a)
               \/ HandleQuiet(a) \/ HandleRunning(a) \/ HandleShutdown(a)

-----------------------------------------------------------------------------
(* stop().                                                                 *)
StopGoes(a, l) == spc' = [spc EXCEPT ![a] = l]

StopGuard(a) == /\ spc[a] = "guard"
                /\ StopGoes(a, IF isRunning THEN "exit" ELSE "out")
                /\ UNCHANGED <<sysVars, calls, mpc, commands, lastReport, overlapped>>

StopExit(a) == /\ spc[a] = "exit"
               /\ shouldExit' = TRUE
               /\ StopGoes(a, "run")
               /\ UNCHANGED <<currentState, isRunning, comm, stream, calls, mpc, commands,
                              lastReport, overlapped>>

(* Mutant: stop() relies on shouldExit_ alone.                             *)
StopOnlyExits(a) == /\ spc[a] = "run"
                    /\ StopGoes(a, "stream")
                    /\ UNCHANGED <<sysVars, calls, mpc, commands, lastReport, overlapped>>

StopRun(a) == /\ spc[a] = "run"
              /\ isRunning' = FALSE
              /\ StopGoes(a, "stream")
              /\ UNCHANGED <<currentState, shouldExit, comm, stream, calls, mpc, commands,
                             lastReport, overlapped>>

StopStream(a) == /\ spc[a] = "stream"
                 /\ stream' = "IDLE"
                 /\ StopGoes(a, "comm")
                 /\ UNCHANGED <<currentState, isRunning, shouldExit, comm, calls, mpc,
                                commands, lastReport, overlapped>>

(* commProxy_.stop() drains the commands before it returns.  In a worker   *)
(* it waits for the worker itself, and never does (CommProxy).             *)
StopComm(a) == /\ spc[a] = "comm"
               /\ IF comm = "up" THEN comm' = "closing" /\ StopGoes(a, "drain")
                                 ELSE UNCHANGED comm /\ StopGoes(a, "out")
               /\ UNCHANGED <<currentState, isRunning, shouldExit, stream, calls, mpc,
                              commands, lastReport, overlapped>>

StopDrained == /\ spc[Main] = "drain"
               /\ Idle(Handler)
               /\ comm' = "down"
               /\ StopGoes(Main, "out")
               /\ UNCHANGED <<currentState, isRunning, shouldExit, stream, calls, mpc,
                              commands, lastReport, overlapped>>

StopSteps(a) == \/ StopGuard(a) \/ StopExit(a) \/ StopRun(a)
                \/ StopStream(a) \/ StopComm(a)

-----------------------------------------------------------------------------
(* The main thread: run() calls start(), whose steps are those another     *)
(* thread can see, then the loop, and stop() when the window was closed.   *)
MainAt(l) == mpc = l /\ Idle(Main) /\ spc[Main] = "out"

StartComm == /\ MainAt("comm")
             /\ comm' = "up"
             /\ mpc' = "running"
             /\ UNCHANGED <<currentState, isRunning, shouldExit, stream, calls, spc,
                            commands, lastReport, overlapped>>

StartRunning == /\ MainAt("running")
                /\ isRunning' = TRUE
                /\ mpc' = "noExit"
                /\ UNCHANGED <<currentState, shouldExit, comm, stream, calls, spc,
                               commands, lastReport, overlapped>>

StartNoExit == /\ MainAt("noExit")
               /\ shouldExit' = FALSE
               /\ mpc' = "device"
               /\ UNCHANGED <<currentState, isRunning, comm, stream, calls, spc,
                              commands, lastReport, overlapped>>

(* waitForDevice() has returned, with a device or not; now                 *)
(* setState(RUNNING).                                                      *)
StartState == /\ MainAt("device")
              /\ Enters(Main, "RUNNING") /\ UNCHANGED nested
              /\ overlapped' = (overlapped \/ ~Idle(Handler))
              /\ mpc' = "loop"
              /\ UNCHANGED <<sysVars, spc, commands, lastReport>>

LeaveLoop == /\ MainAt("loop")
             /\ mpc' = "left"
             /\ UNCHANGED <<sysVars, calls, spc, commands, lastReport, overlapped>>

LoopEnds == LeaveLoop /\ (~isRunning \/ shouldExit)
WindowClosed == LeaveLoop /\ isRunning /\ ~shouldExit

AfterLoop == /\ MainAt("left")
             /\ mpc' = "over"
             /\ StopGoes(Main, IF isRunning THEN "guard" ELSE "out")
             /\ UNCHANGED <<sysVars, calls, commands, lastReport, overlapped>>

-----------------------------------------------------------------------------
(* handleCommunicationMessage(): the commands that call setState().  The   *)
(* proxy delivers what it has accepted, until its stop() is done.          *)
Command(s) == /\ comm \in {"up", "closing"}
              /\ Idle(Handler)
              /\ commands < MaxCommands
              /\ commands' = commands + 1
              /\ Enters(Handler, s) /\ UNCHANGED nested
              /\ overlapped' = (overlapped \/ ~Idle(Main))
              /\ UNCHANGED <<sysVars, spc, mpc, lastReport>>

MainSteps == \/ StartComm \/ StartRunning \/ StartNoExit \/ StartState
             \/ LoopEnds \/ AfterLoop
             \/ SetState(Main) \/ StopSteps(Main) \/ StopDrained

Next == \/ MainSteps
        \/ WindowClosed
        \/ \E s \in States : Command(s)
        \/ SetState(Handler) \/ StopSteps(Handler)

Spec == Init /\ [][Next]_vars

(* Both threads run whenever they can; nobody owes a command or a closed   *)
(* window.                                                                 *)
Fairness == /\ WF_vars(MainSteps)
            /\ WF_vars(SetState(Handler) \/ StopSteps(Handler))

FairSpec == Spec /\ Fairness
-----------------------------------------------------------------------------
StopSites == {"out", "guard", "exit", "run", "stream", "comm", "drain"}
MainSites == {"comm", "running", "noExit", "device", "loop", "left", "over"}
CallSites == {"out", "check", "write", "handle", "report"}

TypeOK == /\ currentState \in States
          /\ isRunning \in BOOLEAN /\ shouldExit \in BOOLEAN
          /\ comm \in {"off", "up", "closing", "down"}
          /\ stream \in {"IDLE", "RUNNING", "ERROR"}
          /\ at \in [Actors -> CallSites]
          /\ to \in [Actors -> States]
          /\ nested \in [Actors -> BOOLEAN]
          /\ \A a \in Actors : nested[a] => to[a] = "ERROR" /\ at[a] # "out"
          /\ spc \in [Actors -> StopSites]
          /\ mpc \in MainSites
          /\ commands \in 0..MaxCommands
          /\ lastReport \in States \cup {"none"}
          /\ overlapped \in BOOLEAN

Settled == Idle(Main) /\ Idle(Handler)

(* The handler has written SHUTDOWN, and its stop() gets past its guard.   *)
Stops == \/ isRunning /\ at[Handler] = "handle" /\ to[Handler] = "SHUTDOWN"
         \/ isRunning /\ spc[Handler] = "guard"
         \/ spc[Handler] \in {"exit", "run", "stream", "comm", "drain"}

(* SHUTDOWN is left for no other state (PerceptionSystem.cpp:564-567), but *)
(* setState() tests and writes in two steps without a lock: start()'s call *)
(* may write over a SHUTDOWN it has not seen.  Nothing else does, and the  *)
(* stop() of that SHUTDOWN is under way then, so it is not undone.         *)
ShutdownOutlivesStart ==
    [][currentState = "SHUTDOWN" /\ currentState' # "SHUTDOWN"
         => at[Main] = "write" /\ Stops]_vars

(* Between two calls of setState() streamState_ is RUNNING exactly in      *)
(* RUNNING, as long as stop() has not been called (PerceptionSystem.cpp:   *)
(* 306-358): also after a start that failed, and after commands in any     *)
(* order.  It says what streaming was asked for and answered, and nothing  *)
(* of the pipelines: those start on CONNECTED in any state (ImageReceiver).*)
StreamFollowsState ==
    (Settled /\ isRunning /\ ~overlapped)
        => (stream = "RUNNING" <=> currentState = "RUNNING")

(* The last report names the state the system is in, or RUNNING when the   *)
(* stream did not start and the system is in ERROR: setState(ERROR), which *)
(* handleRunningState calls, reports before its caller does.               *)
ReportFollowsState ==
    (Settled /\ ~overlapped /\ lastReport # "none")
        => \/ lastReport = currentState
           \/ lastReport = "RUNNING" /\ currentState = "ERROR"

(* A stop() that found the system running takes the main thread out of its *)
(* loop, whichever thread called it and however far start() had come       *)
(* (PerceptionSystem.cpp:394-395, 447, 489-490).                           *)
StopEndsMain == \A a \in Actors : spc[a] \in {"exit", "run"} ~> mpc \in {"left", "over"}

(* What the comment at PerceptionSystem.cpp:368, "stop the whole system",  *)
(* says of the SHUTDOWN state: the main thread ends.                       *)
ShutdownEndsMain == currentState = "SHUTDOWN" ~> mpc \in {"left", "over"}

(* What the comment at PerceptionSystem.cpp:521, "send the unified status  *)
(* report", promises the peer: the last report names the current state.    *)
ReportsCurrentState ==
    (Settled /\ ~overlapped /\ lastReport # "none") => lastReport = currentState
=============================================================================
