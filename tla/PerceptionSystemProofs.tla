----------------------- MODULE PerceptionSystemProofs -----------------------
(***************************************************************************)
(* For any number of commands: streamState_ is RUNNING exactly in RUNNING  *)
(* and the peer is told the state, as long as no two calls of setState()   *)
(* have overlapped; and SHUTDOWN is undone by none that do.                *)
(*                                                                         *)
(* The argument: without an overlap at most one actor is inside setState() *)
(* (OneAtATime), so what it has checked still holds when it writes         *)
(* (CheckedMove), and where it stands tells how the stream and the state   *)
(* are related (StreamInStep).  stop() breaks that relation, but only with *)
(* isRunning_ already cleared, and start() never sets it again after a     *)
(* stop() (StopInStep).  Where an actor stands tells as well what its      *)
(* report will say (ReportInStep).  And calls that overlap are start()'s   *)
(* and a command's: isRunning_ is set and the proxy up by then, so the     *)
(* stop() of a SHUTDOWN passes its guard (StartInStep, ShutdownInStep).    *)
(***************************************************************************)
EXTENDS PerceptionSystem, TLAPS

OneAtATime == ~overlapped => Idle(Main) \/ Idle(Handler)

CheckedMove == ~overlapped =>
    \A a \in Actors : at[a] = "write" => isValidStateTransition(currentState, to[a])

NotRunningYet == mpc \in {"comm", "running"}

StopInStep ==
    /\ NotRunningYet => ~isRunning
    /\ \A a \in Actors :
         /\ spc[a] \in {"exit", "run"} => ~NotRunningYet
         /\ spc[a] \in {"stream", "comm", "drain"} => ~NotRunningYet /\ ~isRunning

Follows == stream = "RUNNING" <=> currentState = "RUNNING"

Watched == ~overlapped /\ (isRunning \/ NotRunningYet)

(* After a failed start the nested call finds RUNNING without a stream.    *)
StreamInStep == Watched =>
    /\ Settled => Follows
    /\ \A a \in Actors :
         /\ at[a] \in {"check", "write"} =>
              IF nested[a] THEN currentState = "RUNNING" /\ stream # "RUNNING" ELSE Follows
         /\ at[a] = "handle" => currentState = to[a]
         /\ at[a] = "report" => Follows

(* What the peer was told last: the state, or RUNNING after a failed start. *)
Told == \/ lastReport \in {"none", currentState}
        \/ lastReport = "RUNNING" /\ currentState = "ERROR"

(* It is out of date only inside a call, whose report will make it good: a *)
(* nested call finds RUNNING, and leaves ERROR for its caller to report on. *)
ReportInStep == ~overlapped =>
    /\ Settled => Told
    /\ \A a \in Actors :
         /\ at[a] = "check" => IF nested[a] THEN currentState = "RUNNING" ELSE Told
         /\ at[a] = "handle" => currentState = to[a]
         /\ at[a] = "report" =>
              \/ currentState = to[a]
              \/ to[a] = "RUNNING" /\ currentState = "ERROR"

IInv == TypeOK /\ OneAtATime /\ CheckedMove /\ StopInStep /\ StreamInStep /\ ReportInStep

-----------------------------------------------------------------------------
(* The two actors are different, which is all there is to know of them.    *)
LEMMA TwoActors == /\ Main \in Actors /\ Handler \in Actors /\ Main # Handler
                   /\ \A a \in Actors : a = Main \/ a = Handler
BY DEF Main, Handler, Actors

(* The part of TypeOK about setState().                                    *)
CallTypes == /\ at \in [Actors -> CallSites]
             /\ to \in [Actors -> States]
             /\ nested \in [Actors -> BOOLEAN]
             /\ \A a \in Actors : nested[a] => to[a] = "ERROR" /\ at[a] # "out"

(* The end of a call keeps it.                                             *)
LEMMA ReturnsTypes == ASSUME CallTypes, NEW a \in Actors, Returns(a)
                      PROVE  CallTypes'
<1>1. at' \in [Actors -> CallSites] /\ to' \in [Actors -> States]
  BY DEF CallTypes, Returns, CallSites, States
<1>2. nested' \in [Actors -> BOOLEAN]
  BY DEF CallTypes, Returns
<1>3. ASSUME NEW b \in Actors, nested'[b] PROVE to'[b] = "ERROR" /\ at'[b] # "out"
  BY <1>3 DEF CallTypes, Returns
<1> QED
  BY <1>1, <1>2, <1>3 DEF CallTypes

(* The initial state satisfies the invariant.                              *)
LEMMA InitIInv == Init => IInv
<1> SUFFICES ASSUME Init PROVE IInv
  OBVIOUS
<1>1. TypeOK
  <2> USE DEF Init, States, MainSites, StopSites, CallSites
  <2>1. CallTypes
    BY DEF CallTypes
  <2>2. spc \in [Actors -> StopSites] /\ commands \in 0..MaxCommands
    BY MaxCommandsIsNat
  <2> QED
    BY <2>1, <2>2 DEF TypeOK, CallTypes
<1>2. OneAtATime /\ CheckedMove
  BY TwoActors DEF Init, OneAtATime, CheckedMove, Idle
<1>3. StopInStep /\ StreamInStep /\ ReportInStep
  BY DEF Init, StopInStep, StreamInStep, ReportInStep, Told, Follows, NotRunningYet
<1> QED
  BY <1>1, <1>2, <1>3 DEF IInv

(* TypeOK is inductive by itself.                                          *)
LEMMA TypeStep == TypeOK /\ [Next]_vars => TypeOK'
<1> SUFFICES ASSUME TypeOK, [Next]_vars PROVE TypeOK'
  OBVIOUS
<1> USE MaxCommandsIsNat, TwoActors
    DEF TypeOK, States, MainSites, StopSites, CallSites
<1>1. ASSUME NEW a \in Actors, SetState(a) PROVE TypeOK'
  <2>1. CASE Check(a)
    <3>1. CASE isValidStateTransition(currentState, to[a])
      BY <2>1, <3>1 DEF Check, At, Goes, sysVars
    <3>2. CASE ~isValidStateTransition(currentState, to[a])
      <4>1. CallTypes'
        BY <2>1, <3>2, ReturnsTypes DEF Check, CallTypes
      <4> QED
        BY <2>1, <3>2, <4>1 DEF Check, CallTypes, sysVars
    <3> QED
      BY <3>1, <3>2
  <2>2. CASE Write(a)
    BY <2>2 DEF Write, At, Goes
  <2>3. CASE Report(a)
    <3>1. CallTypes'
      BY <2>3, ReturnsTypes DEF Report, CallTypes
    <3> QED
      BY <2>3, <3>1 DEF Report, CallTypes, sysVars
  <2>4. CASE HandleQuiet(a)
    BY <2>4 DEF HandleQuiet, At, Goes
  <2>5. CASE HandleRunning(a)
    <3>1. CASE Goes(a, "report")
      BY <2>5, <3>1 DEF HandleRunning, At, Goes
    <3>2. CASE Enters(a, "ERROR") /\ nested' = [nested EXCEPT ![a] = TRUE]
      BY <2>5, <3>2 DEF HandleRunning, At, Enters
    <3> QED
      BY <2>5, <3>1, <3>2 DEF HandleRunning
  <2>6. CASE HandleShutdown(a)
    BY <2>6 DEF HandleShutdown, At, Goes
  <2> QED
    BY <1>1, <2>1, <2>2, <2>3, <2>4, <2>5, <2>6 DEF SetState
<1>2. ASSUME NEW a \in Actors, StopSteps(a) PROVE TypeOK'
  <2>1. spc' \in [Actors -> StopSites]
    BY <1>2 DEF StopSteps, StopGuard, StopExit, StopRun, StopStream, StopComm, StopGoes
  <2> USE <2>1 DEF sysVars, calls
  <2>2. CASE StopGuard(a)
    BY <2>2 DEF StopGuard
  <2>3. CASE StopExit(a)
    BY <2>3 DEF StopExit
  <2>4. CASE StopRun(a)
    <3>1. isRunning' \in BOOLEAN /\ UNCHANGED <<currentState, shouldExit, comm, stream>>
      BY <2>4 DEF StopRun
    <3>2. UNCHANGED <<at, to, nested, mpc, commands, lastReport, overlapped>>
      BY <2>4 DEF StopRun
    <3> QED
      BY <3>1, <3>2
  <2>5. CASE StopStream(a)
    BY <2>5 DEF StopStream
  <2>6. CASE StopComm(a)
    BY <2>6 DEF StopComm
  <2> QED
    BY <1>2, <2>2, <2>3, <2>4, <2>5, <2>6 DEF StopSteps
<1>3. CASE StopDrained \/ StartComm \/ StartRunning \/ StartNoExit
  <2>1. CASE StopDrained
    BY <1>3, <2>1 DEF StopDrained, StopGoes, calls
  <2>2. CASE StartComm
    BY <2>2 DEF StartComm, calls
  <2>3. CASE StartRunning
    BY <2>3 DEF StartRunning, calls
  <2>4. CASE StartNoExit
    BY <2>4 DEF StartNoExit, calls
  <2> QED
    BY <1>3, <2>1, <2>2, <2>3, <2>4
<1>4. CASE StartState
  BY <1>4 DEF StartState, MainAt, Enters, Idle, sysVars
<1>5. CASE LoopEnds \/ WindowClosed \/ AfterLoop
  BY <1>5 DEF LoopEnds, WindowClosed, LeaveLoop, AfterLoop, StopGoes, sysVars, calls
<1>6. ASSUME NEW s \in States, Command(s) PROVE TypeOK'
  BY <1>6 DEF Command, Enters, Idle, sysVars
<1>7. CASE UNCHANGED vars
  BY <1>7 DEF vars, sysVars, calls
<1> QED
  BY <1>1, <1>2, <1>3, <1>4, <1>5, <1>6, <1>7 DEF Next, MainSteps

(* A step inside setState() keeps the rest of the invariant.               *)
LEMMA SetStateStep ==
    ASSUME IInv, NEW a \in Actors, SetState(a)
    PROVE  (OneAtATime /\ CheckedMove /\ StopInStep /\ StreamInStep /\ ReportInStep)'
<1> USE TwoActors DEF IInv, TypeOK, OneAtATime, CheckedMove, StopInStep, StreamInStep, ReportInStep, Told,
        Watched, Follows, NotRunningYet, Settled, Idle, At
<1>1. CASE Check(a)
  BY <1>1 DEF Check, Goes, Returns, sysVars, calls, isValidStateTransition
<1>2. CASE Write(a)
  BY <1>2 DEF Write, Goes
<1>3. CASE Report(a)
  BY <1>3 DEF Report, Returns, sysVars
<1>4. CASE HandleQuiet(a)
  BY <1>4 DEF HandleQuiet, Goes
<1>5. CASE HandleRunning(a)
  BY <1>5 DEF HandleRunning, Goes, Enters
<1>6. CASE HandleShutdown(a)
  BY <1>6 DEF HandleShutdown, Goes
<1> QED
  BY <1>1, <1>2, <1>3, <1>4, <1>5, <1>6 DEF SetState

(* So does a step of stop().                                               *)
LEMMA StopStep ==
    ASSUME IInv, NEW a \in Actors, StopSteps(a)
    PROVE  (OneAtATime /\ CheckedMove /\ StopInStep /\ StreamInStep /\ ReportInStep)'
BY TwoActors
   DEF IInv, TypeOK, OneAtATime, CheckedMove, StopInStep, StreamInStep, ReportInStep, Told, Watched, Follows,
       NotRunningYet, Settled, Idle, StopSteps, StopGuard, StopExit, StopRun, StopStream,
       StopComm, StopGoes, sysVars, calls

(* And a step of the main thread in start() and run().                     *)
LEMMA MainStep ==
    ASSUME IInv,
           \/ StopDrained \/ StartComm \/ StartRunning \/ StartNoExit \/ StartState
           \/ LoopEnds \/ WindowClosed \/ AfterLoop
    PROVE  (OneAtATime /\ CheckedMove /\ StopInStep /\ StreamInStep /\ ReportInStep)'
<1> USE TwoActors DEF IInv, TypeOK, OneAtATime, CheckedMove, StopInStep, StreamInStep, ReportInStep, Told,
        Watched, Follows, NotRunningYet, Settled, Idle, MainAt
<1>1. CASE StopDrained
  BY <1>1 DEF StopDrained, StopGoes, calls
<1>2. CASE StartComm \/ StartRunning \/ StartNoExit
  BY <1>2 DEF StartComm, StartRunning, StartNoExit, calls
<1>3. CASE StartState
  BY <1>3 DEF StartState, Enters, sysVars
<1>4. CASE LoopEnds \/ WindowClosed \/ AfterLoop
  BY <1>4 DEF LoopEnds, WindowClosed, LeaveLoop, AfterLoop, StopGoes, sysVars, calls
<1> QED
  BY <1>1, <1>2, <1>3, <1>4

(* And a command.                                                          *)
LEMMA CommandStep ==
    ASSUME IInv, NEW s \in States, Command(s)
    PROVE  (OneAtATime /\ CheckedMove /\ StopInStep /\ StreamInStep /\ ReportInStep)'
BY TwoActors
   DEF IInv, TypeOK, OneAtATime, CheckedMove, StopInStep, StreamInStep, ReportInStep, Told, Watched, Follows,
       NotRunningYet, Settled, Idle, Command, Enters, sysVars

(* The invariant is inductive.                                             *)
LEMMA NextIInv == IInv /\ [Next]_vars => IInv'
<1> SUFFICES ASSUME IInv, [Next]_vars PROVE IInv'
  OBVIOUS
<1>1. TypeOK'
  BY TypeStep DEF IInv
<1>2. (OneAtATime /\ CheckedMove /\ StopInStep /\ StreamInStep /\ ReportInStep)'
  <2>1. CASE Next
    BY <2>1, SetStateStep, StopStep, MainStep, CommandStep, TwoActors DEF Next, MainSteps
  <2>2. CASE UNCHANGED vars
    BY <2>2 DEF IInv, OneAtATime, CheckedMove, StopInStep, StreamInStep, ReportInStep, Told, Watched, Follows,
                NotRunningYet, Settled, Idle, vars, sysVars, calls
  <2> QED
    BY <2>1, <2>2
<1> QED
  BY <1>1, <1>2 DEF IInv

(* The invariant always holds.                                             *)
THEOREM AlwaysIInv == Spec => []IInv
BY InitIInv, NextIInv, PTL DEF Spec

(* Type correctness.                                                       *)
THEOREM TypesHold == Spec => []TypeOK
<1>1. IInv => TypeOK
  BY DEF IInv
<1> QED
  BY <1>1, AlwaysIInv, PTL

(* Between two calls of setState() streamState_ is RUNNING exactly in      *)
(* RUNNING.                                                                *)
THEOREM StreamFollows == Spec => []StreamFollowsState
<1>1. IInv => StreamFollowsState
  BY DEF IInv, StreamInStep, StreamFollowsState, Watched, Follows
<1> QED
  BY <1>1, AlwaysIInv, PTL

(* What was reported last, while nobody is inside setState(), is the state, *)
(* or RUNNING when the stream did not start and the state is ERROR.        *)
THEOREM ReportsFollow == Spec => []ReportFollowsState
<1>1. IInv => ReportFollowsState
  BY DEF IInv, ReportInStep, Told, ReportFollowsState
<1> QED
  BY <1>1, AlwaysIInv, PTL

-----------------------------------------------------------------------------
(* start() calls setState() with isRunning_ set and the proxy started, and *)
(* until that call is over only a stop() of the handler clears the one or  *)
(* closes the other.                                                       *)
StartInStep ==
    /\ to[Main] # "SHUTDOWN"
    /\ ~Idle(Main) => mpc = "loop"
    /\ spc[Main] # "out" => mpc = "over"
    /\ mpc = "running" => comm = "up"
    /\ mpc \in {"noExit", "device", "loop"} =>
         /\ isRunning \/ spc[Handler] \in {"stream", "comm", "drain"}
         /\ comm = "up" \/ spc[Handler] = "drain"

(* What the handler has tested is not SHUTDOWN when it writes; what start() *)
(* has tested is, only after the handler has written it.                   *)
ShutdownInStep ==
    /\ at[Handler] = "write" => currentState # "SHUTDOWN"
    /\ at[Main] = "write" /\ currentState = "SHUTDOWN" => Stops

Shutdown == StartInStep /\ ShutdownInStep

(* A step inside setState() keeps it ...                                   *)
LEMMA ShutdownSetState ==
    ASSUME IInv, Shutdown, NEW a \in Actors, SetState(a)
    PROVE  Shutdown'
<1> USE TwoActors DEF IInv, TypeOK, StopInStep, NotRunningYet, Shutdown, StartInStep, ShutdownInStep, Stops,
        Idle, At
<1>1. CASE Check(a)
  BY <1>1 DEF Check, Goes, Returns, sysVars, isValidStateTransition
<1>2. CASE Write(a)
  BY <1>2 DEF Write, Goes
<1>3. CASE Report(a)
  BY <1>3 DEF Report, Returns, sysVars
<1>4. CASE HandleQuiet(a)
  BY <1>4 DEF HandleQuiet, Goes
<1>5. CASE HandleRunning(a)
  BY <1>5 DEF HandleRunning, Goes, Enters
<1>6. CASE HandleShutdown(a)
  BY <1>6 DEF HandleShutdown, Goes
<1> QED
  BY <1>1, <1>2, <1>3, <1>4, <1>5, <1>6 DEF SetState

(* ... so does a step of stop() ...                                        *)
LEMMA ShutdownStop ==
    ASSUME IInv, Shutdown, NEW a \in Actors, StopSteps(a)
    PROVE  Shutdown'
<1> USE TwoActors DEF IInv, TypeOK, StopInStep, NotRunningYet, Shutdown, StartInStep, ShutdownInStep, Stops,
        Idle, StopGoes, sysVars, calls
<1>1. CASE StopGuard(a)
  BY <1>1 DEF StopGuard
<1>2. CASE StopExit(a) \/ StopRun(a) \/ StopStream(a)
  BY <1>2 DEF StopExit, StopRun, StopStream
<1>3. CASE StopComm(a)
  BY <1>3 DEF StopComm
<1> QED
  BY <1>1, <1>2, <1>3 DEF StopSteps

(* ... and one of start(), run() and the commands.                         *)
LEMMA ShutdownMain ==
    ASSUME IInv, Shutdown,
           \/ StopDrained \/ StartComm \/ StartRunning \/ StartNoExit \/ StartState
           \/ LoopEnds \/ WindowClosed \/ AfterLoop
           \/ \E s \in States : Command(s)
    PROVE  Shutdown'
<1> USE TwoActors DEF IInv, TypeOK, StopInStep, NotRunningYet, Shutdown, StartInStep, ShutdownInStep, Stops,
        Idle, MainAt, sysVars, calls
<1>1. CASE StopDrained
  BY <1>1 DEF StopDrained, StopGoes
<1>2. CASE StartComm \/ StartRunning \/ StartNoExit
  BY <1>2 DEF StartComm, StartRunning, StartNoExit
<1>3. CASE StartState
  BY <1>3 DEF StartState, Enters
<1>4. CASE LoopEnds \/ WindowClosed \/ AfterLoop
  BY <1>4 DEF LoopEnds, WindowClosed, LeaveLoop, AfterLoop, StopGoes
<1>5. ASSUME NEW s \in States, Command(s) PROVE Shutdown'
  BY <1>5 DEF Command, Enters
<1> QED
  BY <1>1, <1>2, <1>3, <1>4, <1>5

(* Whatever the commands and the schedule, overlapping calls included: no  *)
(* SHUTDOWN is written over but by start(), and then its stop() is under   *)
(* way (PerceptionSystem.cpp:506-517, 564-567).                            *)
THEOREM ShutdownStands == Spec => ShutdownOutlivesStart
<1> DEFINE Stands == currentState = "SHUTDOWN" /\ currentState' # "SHUTDOWN"
                         => at[Main] = "write" /\ Stops
<1>1. Init => Shutdown
  BY TwoActors DEF Init, Shutdown, StartInStep, ShutdownInStep, Idle
<1>2. IInv /\ Shutdown /\ [Next]_vars => Shutdown'
  <2> SUFFICES ASSUME IInv, Shutdown, [Next]_vars PROVE Shutdown'
    OBVIOUS
  <2>1. CASE Next
    BY <2>1, ShutdownSetState, ShutdownStop, ShutdownMain, TwoActors DEF Next, MainSteps
  <2>2. CASE UNCHANGED vars
    BY <2>2 DEF Shutdown, StartInStep, ShutdownInStep, Stops, Idle, vars, sysVars, calls
  <2> QED
    BY <2>1, <2>2
<1>3. IInv /\ Shutdown /\ [Next]_vars => [Stands]_vars
  <2> SUFFICES ASSUME IInv, Shutdown, Next, currentState = "SHUTDOWN", currentState' # "SHUTDOWN"
               PROVE  at[Main] = "write" /\ Stops
    BY DEF vars, sysVars
  <2>1. PICK a \in Actors : Write(a)
    BY TwoActors
       DEF Next, MainSteps, SetState, StopSteps, Check, Report, HandleQuiet, HandleRunning,
           HandleShutdown, StopGuard, StopExit, StopRun, StopStream, StopComm, StopDrained,
           StartComm, StartRunning, StartNoExit, StartState, LoopEnds, WindowClosed,
           LeaveLoop, AfterLoop, Command, sysVars
  <2> QED
    BY <2>1, TwoActors DEF Write, At, Shutdown, ShutdownInStep
<1> QED
  BY <1>1, <1>2, <1>3, AlwaysIInv, PTL DEF Spec, ShutdownOutlivesStart
=============================================================================
