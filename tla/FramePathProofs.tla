-------------------------- MODULE FramePathProofs --------------------------
(***************************************************************************)
(* For any threads, models, queue and session bounds: the safety           *)
(* properties of frame_path hold.                                          *)
(*                                                                         *)
(* A step of the composition is a step of the inference manager or leaves  *)
(* it alone, and the same of the calibration manager (InfSteps, CalSteps), *)
(* so each manager's part of the invariant is shown kept by its own steps. *)
(* Calibration: unless a later session has overtaken it, only the newest   *)
(* session's computation is outstanding, and the result is its own         *)
(* (OwnResult); PerceptionSystem's callback, the one that locks, is only   *)
(* registered before the first session (SystemCallbackIdle).  Inference:   *)
(* the counters that no reset has still to clear balance the frames on     *)
(* their way, up to what it cleared as it was counted (Accounts), which    *)
(* moves one frame at a time (AmongMoves); and unless two threads raced, at most *)
(* one is between the increment and the test, so what was taken lags       *)
(* behind the counter by its frame at most (Sampled).                      *)
(***************************************************************************)
EXTENDS FramePath, FiniteSetTheorems, TLAPS

(* The steps of the calibration manager.                                   *)
CalStep == \/ Cal!CalInitialize \/ Cal!CalStop \/ Cal!StopCalibration
           \/ \E cb \in {"none", "caller"} : Cal!StartCalibration(cb)
           \/ Cal!Collect \/ \E s \in Cal!Sessions : Cal!Compute(s) \/ Cal!Finish(s)

(* Every step of the system is one of them or leaves the manager alone.    *)
LEMMA CalSteps == [Next]_vars => CalStep \/ UNCHANGED calVars
<1> SUFFICES ASSUME [Next]_vars PROVE CalStep \/ UNCHANGED calVars
  OBVIOUS
<1>1. CASE Frames
  BY <1>1 DEF Frames, FrameToInference, FrameSteps, FrameToCalibration, Inference, CalStep, calVars
<1>2. CASE Loading \/ Working \/ Stopping \/ Resetting \/ InferenceCalls
  BY <1>2 DEF Loading, Working, Stopping, Resetting, InferenceCalls, Inference, CalStep
<1>3. CASE Computing
  BY <1>3 DEF Computing, Cal!CalThreads, CalStep
<1>4. CASE CalibrationCalls
  BY <1>4 DEF CalibrationCalls, CalStep
<1>5. CASE EnableInference \/ DisableInference \/ EnableCalibration \/ DisableCalibration
  BY <1>5 DEF EnableInference, DisableInference, EnableCalibration, DisableCalibration, CalStep
<1>6. CASE UNCHANGED vars
  BY <1>6 DEF vars, calVars
<1> QED BY <1>1, <1>2, <1>3, <1>4, <1>5, <1>6 DEF Next

(* A computation that is outstanding, and a calibration that has ended,    *)
(* belong to the newest session, and the result is theirs.                 *)
OwnResult == ~overtaken =>
    /\ \A s \in Cal!Sessions :
         /\ computation[s] \in {"started", "valid", "invalid"} => s = session
         /\ computation[s] \in {"valid", "invalid"} =>
              result = [session |-> s, isValid |-> computation[s] = "valid"]
    /\ calState \in {"COMPLETED", "FAILED"} =>
         /\ session \in Cal!Sessions => computation[session] = "over"
         /\ result = [session |-> session, isValid |-> calState = "COMPLETED"]

(* PerceptionSystem's callback is registered by initialize() only.         *)
SystemCallbackIdle == progress = "system" =>
    calState = "IDLE" /\ \A s \in Cal!Sessions : computation[s] = "none"

(* The calibration manager's part of the invariant.                        *)
CalInv == Cal!CalibrationTypeOK /\ OwnResult /\ SystemCallbackIdle /\ ~calStuck

USE DEF Cal!Sessions

(* It holds before the first call ...                                      *)
LEMMA CalStarts == Init => CalInv
<1> SUFFICES ASSUME Init PROVE CalInv
  OBVIOUS
<1> USE FramePathAssumption DEF Init, Cal!Init, Cal!CalStates, Cal!NoResult
<1>1. {calReady, calStuck, overtaken} \subseteq BOOLEAN
  BY Zenon
<1>2. Cal!CalibrationTypeOK
  BY <1>1 DEF Cal!CalibrationTypeOK
<1>3. OwnResult /\ SystemCallbackIdle /\ ~calStuck
  BY DEF OwnResult, SystemCallbackIdle
<1> QED BY <1>2, <1>3 DEF CalInv

(* ... and startCalibration(), the frames and the detached computations    *)
(* keep it.                                                                *)
LEMMA CalKept == CalInv /\ [Next]_vars => CalInv'
<1> SUFFICES ASSUME CalInv, [Next]_vars PROVE CalInv'
  OBVIOUS
<1> USE FramePathAssumption DEF Cal!CalStates, CalInv, Cal!CalibrationTypeOK
<1>1. CASE Cal!CalInitialize
  <2>1. Cal!CalibrationTypeOK'
    BY <1>1 DEF Cal!CalInitialize, Cal!NoResult
  <2>2. OwnResult'
    BY <1>1 DEF Cal!CalInitialize, OwnResult, Cal!Outstanding
  <2>3. SystemCallbackIdle' /\ ~calStuck'
    BY <1>1 DEF Cal!CalInitialize, SystemCallbackIdle
  <2> QED BY <2>1, <2>2, <2>3
<1>2. CASE Cal!CalStop
  BY <1>2 DEF Cal!CalStop, OwnResult, SystemCallbackIdle
<1>3. CASE Cal!StopCalibration
  BY <1>3 DEF Cal!StopCalibration, OwnResult, SystemCallbackIdle
<1>4. ASSUME NEW cb \in {"none", "caller"}, Cal!StartCalibration(cb) PROVE CalInv'
  <2> USE <1>4 DEF Cal!StartCalibration, Cal!StartWith, Cal!Report
  <2>1. Cal!CalibrationTypeOK'
    BY DEF Cal!NoResult
  <2>2. OwnResult'
    BY DEF OwnResult, Cal!Outstanding
  <2>3. SystemCallbackIdle' /\ ~calStuck'
    BY DEF SystemCallbackIdle
  <2> QED BY <2>1, <2>2, <2>3
<1>5. CASE Cal!Collect
  BY <1>5 DEF Cal!Collect, Cal!Report, OwnResult, SystemCallbackIdle
<1>6. ASSUME NEW s \in Cal!Sessions, Cal!Compute(s) PROVE CalInv'
  BY <1>6 DEF Cal!Compute, OwnResult, SystemCallbackIdle
<1>7. ASSUME NEW s \in Cal!Sessions, Cal!Finish(s) PROVE CalInv'
  BY <1>7 DEF Cal!Finish, Cal!FinishAs, Cal!Report, OwnResult, SystemCallbackIdle
<1>8. CASE UNCHANGED calVars
  BY <1>8 DEF calVars, OwnResult, SystemCallbackIdle
<1> QED BY CalSteps, <1>1, <1>2, <1>3, <1>4, <1>5, <1>6, <1>7, <1>8 DEF CalStep

-----------------------------------------------------------------------------
(* A frame that inference is done with goes on to calibration.             *)
Passes == \E t \in Threads : /\ fpc[t] \in {"idle", "out"}
                             /\ fpc' = [fpc EXCEPT ![t] = "idle"]
                             /\ UNCHANGED infBut

(* The steps of the inference manager.                                     *)
InfStep == \/ Inf!Initialize \/ Inf!ResetStatistics \/ Inf!StopFlag
           \/ \E m \in Models : Inf!LoadModel(m) \/ Inf!UnloadModel(m) \/ Inf!RunDirect(m)
           \/ \E t \in Threads : Inf!FrameNext(t)
           \/ Inf!WorkerNext \/ Inf!StopNext \/ Inf!ResetNext \/ Passes

(* Every step of the system is one of them or leaves the manager alone.    *)
LEMMA InfSteps == [Next]_vars => InfStep \/ UNCHANGED infVars
<1> SUFFICES ASSUME [Next]_vars PROVE InfStep \/ UNCHANGED infVars
  OBVIOUS
<1>1. ASSUME NEW t \in Threads, FrameToInference(t) \/ FrameSteps(t) PROVE InfStep
  BY <1>1 DEF FrameToInference, FrameSteps, Inference, Inf!FrameNext, InfStep
<1>2. ASSUME NEW t \in Threads, FrameToCalibration(t) PROVE InfStep
  BY <1>2 DEF FrameToCalibration, Passes, InfStep
<1>3. CASE Loading \/ Working \/ Stopping \/ Resetting \/ InferenceCalls
  BY <1>3 DEF Loading, Working, Stopping, Resetting, InferenceCalls, Inference, InfStep
<1>4. CASE Computing \/ CalibrationCalls \/ EnableInference \/ DisableInference
           \/ EnableCalibration \/ DisableCalibration
  BY <1>4 DEF Computing, CalibrationCalls, EnableInference, DisableInference,
              EnableCalibration, DisableCalibration
<1>5. CASE UNCHANGED vars
  BY <1>5 DEF vars
<1> QED BY <1>1, <1>2, <1>3, <1>4, <1>5 DEF Next, Frames

Constants == /\ maxQueueSize \in Nat \ {0} /\ inferenceInterval \in Nat \ {0}
             /\ "default" \in Models /\ "none" \notin Models

(* What the assumption says of the constants inference uses.               *)
LEMMA ConstantsTyped == Constants
BY FramePathAssumption DEF Constants

(* initialize(), the worker thread and stop() are in step.                 *)
InStep == /\ ctl \in {"idle", "failed", "processed", "skipped"} /\ ~infReady => worker = "none"
          /\ ctl = "clear" => worker = "none"
          /\ ctl = "loading" => mutexHeld

Flags == /\ infReady \in BOOLEAN /\ async \in BOOLEAN /\ shouldStop \in BOOLEAN
         /\ mutexHeld \in BOOLEAN /\ raced \in BOOLEAN /\ missed \in BOOLEAN

WorkTypes == /\ engines \subseteq Models
             /\ queue \in Seq(Models) /\ Len(queue) <= maxQueueSize
             /\ worker \in {"none", "loop", "deciding", "parked", "awake", "infer", "over"}
             /\ inHand \in Models \cup {"none"} /\ (inHand # "none" <=> worker = "infer")
             /\ ctl \in {"idle", "loading", "notify", "join", "clear", "failed", "processed", "skipped"}

FrameTypes == /\ fpc \in [Threads -> Inf!Stages]
              /\ model \in [Threads -> Models \cup {"none"}]
              /\ \A t \in Threads : fpc[t] = "chosen" => model[t] \in Models
              /\ frameCounter \in Nat /\ taken \in Nat

StatTypes == /\ stats \in [Inf!Counters -> Nat]
             /\ dropped \in Nat /\ unmatched \in Nat /\ strays \in Nat

(* The typing of the inference manager and what it rests on.               *)
InfTypes == InStep /\ Flags /\ WorkTypes /\ FrameTypes /\ StatTypes

(* It holds before initialize().                                           *)
LEMMA InfStarts == Init => InfTypes
<1> SUFFICES ASSUME Init PROVE InfTypes
  OBVIOUS
<1> USE ConstantsTyped DEF Constants, Init, Inf!Init
<1>1. Flags
  BY Zenon DEF Flags
<1>2. WorkTypes
  BY DEF WorkTypes
<1>3. FrameTypes /\ StatTypes
  BY DEF FrameTypes, StatTypes, Inf!Stages, Inf!Counters
<1>4. InStep
  BY DEF InStep
<1> QED BY <1>1, <1>2, <1>3, <1>4 DEF InfTypes

(* The Cardinality of the managers is the library's.                       *)
LEMMA SameCardinality == ASSUME NEW S PROVE Inf!Cardinality(S) = Cardinality(S)
BY DEF Inf!Cardinality, Cardinality

(* How many frames are counted and on their way, and how that changes when *)
(* one thread moves.                                                       *)
Among(f) == Cardinality({t \in Threads : f[t] \in {"counted", "chosen"}})

(* Their number is one.                                                    *)
LEMMA AmongTyped == ASSUME NEW f PROVE Among(f) \in Nat
<1>1. IsFiniteSet({t \in Threads : f[t] \in {"counted", "chosen"}})
  BY FS_Subset, FramePathAssumption
<1> QED BY <1>1, FS_CardinalityType DEF Among

(* A thread that moves changes it by one at most.                          *)
LEMMA AmongMoves ==
    ASSUME NEW f \in [Threads -> Inf!Stages], NEW t \in Threads, NEW x \in Inf!Stages
    PROVE  /\ Among(f) \in Nat
           /\ Among([f EXCEPT ![t] = x]) \in Nat
           /\ f[t] \in {"counted", "chosen"} /\ x \in {"counted", "chosen"}
                => Among([f EXCEPT ![t] = x]) = Among(f)
           /\ f[t] \in {"counted", "chosen"} /\ x \notin {"counted", "chosen"}
                => Among([f EXCEPT ![t] = x]) = Among(f) - 1
           /\ f[t] \notin {"counted", "chosen"} /\ x \in {"counted", "chosen"}
                => Among([f EXCEPT ![t] = x]) = Among(f) + 1
           /\ f[t] \notin {"counted", "chosen"} /\ x \notin {"counted", "chosen"}
                => Among([f EXCEPT ![t] = x]) = Among(f)
<1> DEFINE C == {"counted", "chosen"}
           S == {u \in Threads : f[u] \in C}
           g == [f EXCEPT ![t] = x]
           T == {u \in Threads : g[u] \in C}
<1>1. IsFiniteSet(S) /\ IsFiniteSet(T)
  BY FS_Subset, FramePathAssumption
<1>2. Cardinality(S) \in Nat /\ Cardinality(T) \in Nat
  BY <1>1, FS_CardinalityType
<1>3. T = IF x \in C THEN S \cup {t} ELSE S \ {t}
  OBVIOUS
<1>4. t \in S <=> f[t] \in C
  OBVIOUS
<1>5. Cardinality(S \cup {t}) = IF t \in S THEN Cardinality(S) ELSE Cardinality(S) + 1
  BY <1>1, FS_AddElement
<1>6. Cardinality(S \ {t}) = IF t \in S THEN Cardinality(S) - 1 ELSE Cardinality(S)
  BY <1>1, FS_RemoveElement
<1>7. Among(f) = Cardinality(S) /\ Among(g) = Cardinality(T)
  BY DEF Among
<1> HIDE DEF S, T, g
<1> QED BY <1>2, <1>3, <1>4, <1>5, <1>6, <1>7 DEF g

(* So what resetStatistics() leaves unmatched is a number.                 *)
LEMMA PendingTyped == FrameTypes /\ WorkTypes => Inf!Pending \in Nat
<1> SUFFICES ASSUME FrameTypes, WorkTypes PROVE Inf!Pending \in Nat
  OBVIOUS
<1>1. Inf!Counted \in Nat
  BY AmongTyped, SameCardinality DEF Inf!Counted, Among
<1>2. Len(queue) \in Nat
  BY DEF WorkTypes
<1> QED BY <1>1, <1>2 DEF Inf!Pending

(* Every operation of the inference manager keeps the types; the queue     *)
(* stays within maxQueueSize.                                              *)
LEMMA InfTypesKept == InfTypes /\ InfStep => InfTypes'
<1> SUFFICES ASSUME InfTypes, InfStep PROVE InfTypes'
  OBVIOUS
<1> USE ConstantsTyped DEF Constants, InfTypes, InStep, Flags, WorkTypes, FrameTypes, StatTypes,
                           Inf!Stages, Inf!Counters,
                           Inf!frameVars, Inf!workVars, Inf!infVars, Inf!statVars, Inf!counts
<1>1. CASE Inf!Initialize
  BY <1>1 DEF Inf!Initialize
<1>2. CASE Inf!ResetStatistics
  BY <1>2, PendingTyped DEF Inf!ResetStatistics, Inf!Clears, Inf!After
<1>3. CASE Inf!StopFlag
  BY <1>3 DEF Inf!StopFlag
<1>4. ASSUME NEW m \in Models, Inf!LoadModel(m) PROVE InfTypes'
  BY <1>4 DEF Inf!LoadModel
<1>5. ASSUME NEW m \in Models, Inf!UnloadModel(m) PROVE InfTypes'
  BY <1>5 DEF Inf!UnloadModel
<1>6. ASSUME NEW m \in Models, Inf!RunDirect(m) PROVE InfTypes'
  BY <1>6 DEF Inf!RunDirect, Inf!RunInference, Inf!Counts
<1>7. ASSUME NEW t \in Threads, Inf!Tick(t) PROVE InfTypes'
  BY <1>7 DEF Inf!Tick, Inf!Moves
<1>8. ASSUME NEW t \in Threads, Inf!Test(t) PROVE InfTypes'
  BY <1>8 DEF Inf!Test, Inf!TestAgainst, Inf!Moves, Inf!Counts
<1>9. ASSUME NEW t \in Threads, Inf!ChooseModel(t) PROVE InfTypes'
  BY <1>9 DEF Inf!ChooseModel, Inf!Moves
<1>10. ASSUME NEW t \in Threads, Inf!Enqueue(t) PROVE InfTypes'
  <2> USE <1>10 DEF Inf!Enqueue, Inf!EnqueueIf, Inf!Moves
  <2>1. queue' \in Seq(Models) /\ Len(queue') <= maxQueueSize
    <3>1. CASE Len(queue) < maxQueueSize
      <4>1. queue' = Append(queue, model[t]) /\ model[t] \in Models
        BY <3>1
      <4>2. queue' \in Seq(Models) /\ Len(queue') = Len(queue) + 1
        BY <4>1
      <4> QED BY <4>2, <3>1
    <3>2. CASE ~(Len(queue) < maxQueueSize)
      BY <3>2
    <3> QED BY <3>1, <3>2
  <2>2. WorkTypes' /\ InStep'
    BY <2>1 DEF Inf!Wakes
  <2>3. Flags' /\ FrameTypes'
    OBVIOUS
  <2>4. StatTypes'
    BY DEF Inf!Counts
  <2> QED BY <2>2, <2>3, <2>4
<1>11. ASSUME NEW t \in Threads, Inf!RunSync(t) PROVE InfTypes'
  BY <1>11 DEF Inf!RunSync, Inf!RunInference, Inf!Counts, Inf!Moves
<1>12. CASE Inf!WorkerLoops
  <2> USE <1>12 DEF Inf!WorkerLoops
  <2>1. CASE shouldStop \/ queue = <<>>
    BY <2>1
  <2>2. CASE ~shouldStop /\ queue # <<>>
    <3>1. inHand' = Head(queue) /\ queue' = Tail(queue) /\ worker' = "infer"
      BY <2>2
    <3>2. Head(queue) \in Models /\ Tail(queue) \in Seq(Models) /\ Len(Tail(queue)) = Len(queue) - 1
      BY <2>2
    <3>3. WorkTypes'
      BY <3>1, <3>2
    <3>4. InStep' /\ Flags' /\ FrameTypes' /\ StatTypes'
      BY <3>1
    <3> QED BY <3>3, <3>4
  <2> QED BY <2>1, <2>2
<1>13. CASE Inf!WorkerParks
  BY <1>13 DEF Inf!WorkerParks
<1>14. CASE Inf!WorkerInfers
  BY <1>14 DEF Inf!WorkerInfers, Inf!RunInference, Inf!Counts
<1>15. CASE Inf!StopNotify
  BY <1>15 DEF Inf!StopNotify, Inf!Wakes
<1>16. CASE Inf!StopJoin
  BY <1>16 DEF Inf!StopJoin
<1>17. CASE Inf!StopClear
  BY <1>17 DEF Inf!StopClear
<1>18. CASE Passes
  BY <1>18 DEF Passes, infBut
<1>19. CASE Inf!ResetNext
  <2>1. stats' = [stats EXCEPT ![ctl] = 0] /\ ctl \in Inf!Counters
        /\ ctl' \in {"idle", "failed", "processed", "skipped"}
    BY <1>19 DEF Inf!ResetNext, Inf!Clears, Inf!After
  <2>2. StatTypes'
    BY <1>19, <2>1 DEF Inf!ResetNext
  <2>3. ctl \in {"failed", "processed", "skipped"}
    BY <2>1
  <2>4. ~infReady => worker = "none"
    BY <2>3
  <2>5. InStep' /\ Flags' /\ WorkTypes' /\ FrameTypes'
    BY <1>19, <2>1, <2>4 DEF Inf!ResetNext
  <2> QED BY <2>2, <2>5
<1> QED BY <1>1, <1>2, <1>3, <1>4, <1>5, <1>6, <1>7, <1>8, <1>9, <1>10, <1>11, <1>12, <1>13, <1>14,
           <1>15, <1>16, <1>17, <1>18, <1>19
        DEF InfStep, Inf!FrameNext, Inf!WorkerNext, Inf!StopNext

-----------------------------------------------------------------------------
(* Where a frame can be: the columns of an account.  What resetStatistics() *)
(* has still to clear is no longer in it.                                  *)
Standing(c) == IF c \in Inf!Doomed THEN 0 ELSE stats[c]
Taken == Standing("processed") + unmatched
Outcomes == dropped + Standing("skipped") + Standing("ok") + Standing("failed")
OnTheWay == Among(fpc)
Waiting == Len(queue) + (IF inHand = "none" THEN 0 ELSE 1)

(* What FramesAccounted says, of the counters that are kept.               *)
Accounts == /\ Taken <= Outcomes + OnTheWay + Waiting + strays
            /\ Outcomes + OnTheWay + Waiting <= Taken + strays

(* The columns are numbers, and what is pending is in the last two.        *)
LEMMA Columns == InfTypes => /\ Taken \in Nat /\ Outcomes \in Nat /\ OnTheWay \in Nat /\ Waiting \in Nat
                             /\ strays \in Nat /\ Inf!Pending = OnTheWay + Waiting
<1>1. InfTypes => Taken \in Nat /\ Outcomes \in Nat /\ strays \in Nat
  BY DEF InfTypes, StatTypes, Inf!Counters, Taken, Outcomes, Standing
<1>2. OnTheWay \in Nat /\ Inf!Counted = OnTheWay
  BY SameCardinality, AmongTyped DEF Inf!Counted, Among, OnTheWay
<1>3. InfTypes => Waiting \in Nat /\ Len(queue) \in Nat
  BY DEF InfTypes, WorkTypes, Waiting
<1>4. InfTypes => Inf!Pending = OnTheWay + Waiting
  BY <1>2, <1>3 DEF Inf!Pending, Waiting
<1> QED BY <1>1, <1>2, <1>3, <1>4

(* Outside a reset every counter is kept: the account is FramesAccounted.  *)
LEMMA AccountsAreThose == InfTypes /\ Accounts => Inf!FramesAccounted
<1> SUFFICES ASSUME InfTypes, Accounts, ctl \notin Inf!Counters PROVE Inf!FramesAccounted
  BY DEF Inf!FramesAccounted
<1>1. Inf!Doomed = {}
  BY DEF Inf!Doomed, Inf!Counters
<1>2. /\ Taken = stats["processed"] + unmatched
      /\ Outcomes = dropped + stats["skipped"] + stats["ok"] + stats["failed"]
  BY <1>1 DEF Taken, Outcomes, Standing
<1>3. Inf!FramesAccounted <=> /\ Taken <= Outcomes + Inf!Pending + strays
                              /\ Outcomes + Inf!Pending <= Taken + strays
  BY <1>2, Zenon DEF Inf!FramesAccounted
<1> QED BY <1>3, Columns DEF Accounts

(* One more in two columns, one on each side, or one from a column to the  *)
(* next, balances; one column alone is a stray.                            *)
LEMMA Balances ==
    ASSUME Accounts, InfTypes,
           \/ /\ UNCHANGED strays
              /\ \/ UNCHANGED <<Taken, Outcomes, OnTheWay, Waiting>>
                 \/ Taken' = Taken + 1 /\ OnTheWay' = OnTheWay + 1 /\ UNCHANGED <<Outcomes, Waiting>>
                 \/ Taken' = Taken + 1 /\ Outcomes' = Outcomes + 1 /\ UNCHANGED <<OnTheWay, Waiting>>
                 \/ OnTheWay' = OnTheWay - 1 /\ Outcomes' = Outcomes + 1 /\ UNCHANGED <<Taken, Waiting>>
                 \/ OnTheWay' = OnTheWay - 1 /\ Waiting' = Waiting + 1 /\ UNCHANGED <<Taken, Outcomes>>
                 \/ Waiting' = Waiting - 1 /\ Outcomes' = Outcomes + 1 /\ UNCHANGED <<Taken, OnTheWay>>
           \/ /\ strays' = strays + 1
              /\ \/ OnTheWay' = OnTheWay + 1 /\ UNCHANGED <<Taken, Outcomes, Waiting>>
                 \/ OnTheWay' = OnTheWay - 1 /\ UNCHANGED <<Taken, Outcomes, Waiting>>
                 \/ Waiting' = Waiting - 1 /\ UNCHANGED <<Taken, Outcomes, OnTheWay>>
    PROVE  Accounts'
BY Columns DEF Accounts

(* An increment of the statistics is one more in one of the columns, or,   *)
(* of a counter that the reset has still to clear, a stray.                *)
LEMMA CountsOne ==
    ASSUME InfTypes, NEW c \in Inf!Counters, Inf!Counts(c), UNCHANGED <<dropped, unmatched, ctl>>
    PROVE  \/ strays' = strays + 1 /\ UNCHANGED <<Taken, Outcomes>>
           \/ /\ strays' = strays
              /\ c = "processed" => Taken' = Taken + 1 /\ Outcomes' = Outcomes
              /\ c # "processed" => Taken' = Taken /\ Outcomes' = Outcomes + 1
<1>1. \A d \in Inf!Counters : stats[d] \in Nat /\ stats'[d] = IF d = c THEN stats[d] + 1 ELSE stats[d]
  BY DEF InfTypes, StatTypes, Inf!Counts
<1>2. dropped \in Nat /\ unmatched \in Nat /\ dropped' = dropped /\ unmatched' = unmatched
  BY DEF InfTypes, StatTypes
<1>3. Inf!Doomed' = Inf!Doomed
  BY DEF Inf!Doomed
<1>4. \A d \in Inf!Counters : /\ Standing(d) \in Nat
                               /\ Standing(d)' = IF d = c /\ c \notin Inf!Doomed THEN Standing(d) + 1 ELSE Standing(d)
  BY <1>1, <1>3 DEF Standing
<1>5. strays' = IF c \in Inf!Doomed THEN strays + 1 ELSE strays
  BY DEF Inf!Counts
<1> HIDE DEF Standing
<1>6. CASE c \in Inf!Doomed
  <2>1. \A d \in Inf!Counters : Standing(d)' = Standing(d)
    BY <1>4, <1>6
  <2> QED BY <2>1, <1>2, <1>5, <1>6 DEF Taken, Outcomes, Inf!Counters
<1>7. CASE c \notin Inf!Doomed /\ c = "processed"
  <2>1. /\ Standing("processed")' = Standing("processed") + 1 /\ Standing("processed") \in Nat
        /\ \A d \in {"skipped", "ok", "failed"} : Standing(d)' = Standing(d)
    BY <1>4, <1>7 DEF Inf!Counters
  <2> QED BY <2>1, <1>2, <1>5, <1>7 DEF Taken, Outcomes
<1>8. CASE c \notin Inf!Doomed /\ c # "processed"
  <2>1. Standing("processed")' = Standing("processed")
    BY <1>4, <1>8 DEF Inf!Counters
  <2>2. \A d \in {"skipped", "ok", "failed"} :
           Standing(d) \in Nat /\ Standing(d)' = IF d = c THEN Standing(d) + 1 ELSE Standing(d)
    BY <1>4, <1>8 DEF Inf!Counters
  <2>3. Taken' = Taken
    BY <2>1, <1>2 DEF Taken
  <2>4. Outcomes' = Outcomes + 1
    <3>1. CASE c = "skipped"
      BY <2>2, <1>2, <3>1 DEF Outcomes
    <3>2. CASE c = "ok"
      BY <2>2, <1>2, <3>2 DEF Outcomes
    <3>3. CASE c = "failed"
      BY <2>2, <1>2, <3>3 DEF Outcomes
    <3> QED BY <1>8, <3>1, <3>2, <3>3 DEF Inf!Counters
  <2> QED BY <2>3, <2>4, <1>5, <1>8
<1> QED BY <1>6, <1>7, <1>8

(* Every step moves a frame from one column to another, or adds it to both *)
(* sides; resetStatistics() puts what is pending on the left and empties   *)
(* the other counters at once, its later stores clear what is not kept.    *)
LEMMA AccountedKept == InfTypes /\ Accounts /\ InfStep => Accounts'
<1> SUFFICES ASSUME InfTypes, Accounts, InfStep PROVE Accounts'
  OBVIOUS
<1> USE DEF Inf!frameVars, Inf!workVars, Inf!infVars, Inf!statVars, Inf!counts
<1>a. /\ fpc \in [Threads -> Inf!Stages] /\ queue \in Seq(Models) /\ Len(queue) \in Nat
      /\ inHand \in Models \cup {"none"} /\ (inHand # "none" <=> worker = "infer")
      /\ {"ok", "failed", "skipped", "processed"} \subseteq Inf!Counters
  BY DEF InfTypes, FrameTypes, WorkTypes, Inf!Counters
<1>b. UNCHANGED fpc => UNCHANGED OnTheWay
  BY DEF OnTheWay, Among
<1>c. UNCHANGED <<queue, inHand>> => UNCHANGED Waiting
  BY DEF Waiting
<1>d. UNCHANGED <<stats, dropped, unmatched, ctl>> => UNCHANGED <<Taken, Outcomes>>
  BY DEF Taken, Outcomes, Standing, Inf!Doomed
<1>e. ASSUME NEW t \in Threads, NEW x \in Inf!Stages, fpc' = [fpc EXCEPT ![t] = x]
      PROVE  /\ fpc[t] \in {"counted", "chosen"} /\ x \notin {"counted", "chosen"}
                  => OnTheWay' = OnTheWay - 1
             /\ fpc[t] \notin {"counted", "chosen"} /\ x \in {"counted", "chosen"}
                  => OnTheWay' = OnTheWay + 1
             /\ (fpc[t] \in {"counted", "chosen"} <=> x \in {"counted", "chosen"})
                  => UNCHANGED OnTheWay
  BY <1>a, <1>e, AmongMoves DEF OnTheWay, Among
<1>f. {"ticked", "counted", "chosen", "out", "idle"} \subseteq Inf!Stages
  BY DEF Inf!Stages
<1>1. CASE Inf!ResetStatistics
  <2>1. UNCHANGED <<OnTheWay, Waiting>>
    BY <1>1, <1>b, <1>c DEF Inf!ResetStatistics
  <2>2. /\ Inf!Doomed' = {"failed", "processed", "skipped"} /\ stats'["ok"] = 0
        /\ dropped' = 0 /\ unmatched' = Inf!Pending /\ strays' = 0
    BY <1>1 DEF Inf!ResetStatistics, Inf!Clears, Inf!After, Inf!Doomed, InfTypes, StatTypes, Inf!Counters
  <2>3. Taken' = Inf!Pending /\ Outcomes' = 0
    BY <2>2, Columns DEF Taken, Outcomes, Standing
  <2> QED BY <2>1, <2>2, <2>3, Columns DEF Accounts
<1>12. CASE Inf!ResetNext
  <2>1. UNCHANGED <<OnTheWay, Waiting, strays, dropped, unmatched>>
    BY <1>12, <1>b, <1>c DEF Inf!ResetNext
  <2>2. ctl \in {"failed", "processed", "skipped"}
    BY <1>12 DEF Inf!ResetNext, Inf!Counters, InfTypes, WorkTypes
  <2>3. /\ ctl \in Inf!Doomed /\ Inf!Doomed' = Inf!Doomed \ {ctl}
        /\ \A d \in Inf!Counters \ {ctl} : stats'[d] = stats[d]
        /\ stats'[ctl] = 0
    BY <1>12, <2>2 DEF Inf!ResetNext, Inf!Clears, Inf!After, Inf!Doomed, InfTypes, StatTypes, Inf!Counters
  <2>4. \A d \in Inf!Counters : Standing(d)' = Standing(d)
    BY <2>3 DEF Standing
  <2>5. UNCHANGED <<Taken, Outcomes>>
    BY <2>1, <2>4 DEF Taken, Outcomes, Inf!Counters
  <2> QED BY <2>1, <2>5, Balances
<1>2. ASSUME NEW m \in Models, Inf!RunDirect(m) PROVE Accounts'
  <2>1. UNCHANGED <<OnTheWay, Waiting>>
    BY <1>2, <1>b, <1>c DEF Inf!RunDirect
  <2>2. PICK c \in {"ok", "failed"} : stats' = [stats EXCEPT ![c] = @ + 1]
    BY <1>2 DEF Inf!RunDirect, Inf!RunInference, Inf!Counts
  <2>3. dropped' = dropped /\ dropped \in Nat /\ unmatched = 0 /\ unmatched' = 1
    BY <1>2 DEF Inf!RunDirect, InfTypes, StatTypes
  <2>4. \A d \in Inf!Counters : stats[d] \in Nat /\ stats'[d] = IF d = c THEN stats[d] + 1 ELSE stats[d]
    BY <2>2 DEF InfTypes, StatTypes
  <2>5. Inf!Doomed = {} /\ Inf!Doomed' = {} /\ strays' = strays
    BY <1>2, <2>2 DEF Inf!RunDirect, Inf!RunInference, Inf!Counts, Inf!Doomed, Inf!infVars
  <2>6. \A d \in Inf!Counters : Standing(d) = stats[d] /\ Standing(d)' = stats'[d]
    BY <2>5 DEF Standing
  <2>7. Taken' = Taken + 1
    BY <2>3, <2>4, <2>6 DEF Taken, Inf!Counters
  <2>8. Outcomes' = Outcomes + 1
    <3>1. CASE c = "ok"
      BY <2>3, <2>4, <2>6, <3>1 DEF Outcomes, Inf!Counters
    <3>2. CASE c = "failed"
      BY <2>3, <2>4, <2>6, <3>2 DEF Outcomes, Inf!Counters
    <3> QED BY <3>1, <3>2
  <2> QED BY <2>1, <2>5, <2>7, <2>8, Balances
<1>3. ASSUME NEW t \in Threads, Inf!Tick(t) PROVE Accounts'
  <2>1. fpc[t] = "idle" /\ fpc' = [fpc EXCEPT ![t] = "ticked"]
    BY <1>3 DEF Inf!Tick, Inf!Moves
  <2>2. UNCHANGED OnTheWay
    BY <2>1, <1>e, <1>f
  <2> QED BY <1>3, <2>2, <1>c, <1>d, Balances DEF Inf!Tick
<1>4. ASSUME NEW t \in Threads, Inf!Test(t) PROVE Accounts'
  <2>1. fpc[t] = "ticked" /\ UNCHANGED <<Waiting, dropped, unmatched, ctl>>
    BY <1>4, <1>c DEF Inf!Test, Inf!TestAgainst
  <2>2. CASE fpc' = [fpc EXCEPT ![t] = "counted"] /\ Inf!Counts("processed")
    <3>1. OnTheWay' = OnTheWay + 1
      BY <2>1, <2>2, <1>e, <1>f
    <3>2. \/ strays' = strays + 1 /\ UNCHANGED <<Taken, Outcomes>>
          \/ strays' = strays /\ Taken' = Taken + 1 /\ Outcomes' = Outcomes
      BY <2>1, <2>2, <1>a, CountsOne
    <3> QED BY <2>1, <3>1, <3>2, Balances
  <2>3. CASE fpc' = [fpc EXCEPT ![t] = "out"] /\ UNCHANGED Inf!counts
    <3>1. UNCHANGED OnTheWay
      BY <2>1, <2>3, <1>e, <1>f
    <3> QED BY <2>1, <2>3, <3>1, <1>d, Balances
  <2> QED BY <1>4, <2>2, <2>3 DEF Inf!Test, Inf!TestAgainst, Inf!Moves
<1>5. ASSUME NEW t \in Threads, Inf!ChooseModel(t) PROVE Accounts'
  <2>1. fpc[t] = "counted" /\ UNCHANGED <<Waiting, stats, strays, unmatched, ctl>>
    BY <1>5, <1>c DEF Inf!ChooseModel
  <2>2. CASE fpc' = [fpc EXCEPT ![t] = "out"] /\ dropped' = dropped + 1
    <3>1. OnTheWay' = OnTheWay - 1
      BY <2>1, <2>2, <1>e, <1>f
    <3>2. Outcomes' = Outcomes + 1 /\ UNCHANGED Taken
      BY <2>1, <2>2 DEF Outcomes, Taken, Standing, Inf!Doomed, InfTypes, StatTypes, Inf!Counters
    <3> QED BY <2>1, <3>1, <3>2, Balances
  <2>3. CASE fpc' = [fpc EXCEPT ![t] = "chosen"] /\ UNCHANGED dropped
    <3>1. UNCHANGED OnTheWay
      BY <2>1, <2>3, <1>e, <1>f
    <3> QED BY <2>1, <2>3, <3>1, <1>d, Balances
  <2> QED BY <1>5, <2>2, <2>3 DEF Inf!ChooseModel, Inf!Moves
<1>6. ASSUME NEW t \in Threads, Inf!Enqueue(t) PROVE Accounts'
  <2>1. OnTheWay' = OnTheWay - 1
    BY <1>6, <1>e, <1>f DEF Inf!Enqueue, Inf!EnqueueIf, Inf!Moves
  <2>2. CASE Len(queue) < maxQueueSize
    <3>1. model[t] \in Models
      BY <1>6 DEF Inf!Enqueue, Inf!EnqueueIf, InfTypes, FrameTypes
    <3>2. Len(queue') = Len(queue) + 1 /\ inHand' = inHand
      BY <1>6, <2>2, <3>1, <1>a DEF Inf!Enqueue, Inf!EnqueueIf
    <3>3. Waiting' = Waiting + 1
      BY <3>2, <1>a DEF Waiting
    <3>4. UNCHANGED <<Taken, Outcomes, strays>>
      BY <1>6, <2>2, <1>d DEF Inf!Enqueue, Inf!EnqueueIf
    <3> QED BY <2>1, <3>3, <3>4, Balances
  <2>3. CASE ~(Len(queue) < maxQueueSize)
    <3>1. UNCHANGED <<queue, inHand, dropped, unmatched, ctl>> /\ Inf!Counts("skipped")
      BY <1>6, <2>3 DEF Inf!Enqueue, Inf!EnqueueIf
    <3>2. \/ strays' = strays + 1 /\ UNCHANGED <<Taken, Outcomes>>
          \/ strays' = strays /\ Taken' = Taken /\ Outcomes' = Outcomes + 1
      BY <3>1, <1>a, CountsOne
    <3> QED BY <2>1, <3>1, <3>2, <1>c, Balances
  <2> QED BY <2>2, <2>3
<1>7. ASSUME NEW t \in Threads, Inf!RunSync(t) PROVE Accounts'
  <2>1. OnTheWay' = OnTheWay - 1
    BY <1>7, <1>e, <1>f DEF Inf!RunSync, Inf!Moves
  <2>2. UNCHANGED <<queue, inHand, dropped, unmatched, ctl>> /\ (Inf!Counts("ok") \/ Inf!Counts("failed"))
    BY <1>7 DEF Inf!RunSync, Inf!RunInference
  <2>3. \/ strays' = strays + 1 /\ UNCHANGED <<Taken, Outcomes>>
        \/ strays' = strays /\ Taken' = Taken /\ Outcomes' = Outcomes + 1
    BY <2>2, <1>a, CountsOne
  <2> QED BY <2>1, <2>2, <2>3, <1>c, Balances
<1>8. CASE Inf!WorkerLoops
  <2>1. UNCHANGED <<Taken, Outcomes, OnTheWay, strays>>
    BY <1>8, <1>b, <1>d DEF Inf!WorkerLoops
  <2>2. CASE shouldStop \/ queue = <<>>
    <3>1. UNCHANGED Waiting
      BY <1>8, <2>2, <1>c DEF Inf!WorkerLoops
    <3> QED BY <2>1, <3>1, Balances
  <2>3. CASE ~shouldStop /\ queue # <<>>
    <3>1. inHand = "none" /\ inHand' = Head(queue) /\ queue' = Tail(queue)
      BY <1>8, <2>3, <1>a DEF Inf!WorkerLoops
    <3>2. Head(queue) # "none" /\ Len(queue') = Len(queue) - 1
      BY <2>3, <3>1, <1>a, ConstantsTyped DEF Constants
    <3>3. UNCHANGED Waiting
      BY <3>1, <3>2, <1>a DEF Waiting
    <3> QED BY <2>1, <3>3, Balances
  <2> QED BY <2>2, <2>3
<1>9. CASE Inf!WorkerInfers
  <2>1. UNCHANGED <<fpc, queue, dropped, unmatched, ctl>> /\ (Inf!Counts("ok") \/ Inf!Counts("failed"))
    BY <1>9 DEF Inf!WorkerInfers, Inf!RunInference
  <2>2. \/ strays' = strays + 1 /\ UNCHANGED <<Taken, Outcomes>>
        \/ strays' = strays /\ Taken' = Taken /\ Outcomes' = Outcomes + 1
    BY <2>1, <1>a, CountsOne
  <2>3. inHand # "none" /\ inHand' = "none"
    BY <1>9, <1>a DEF Inf!WorkerInfers
  <2>4. Waiting' = Waiting - 1
    BY <2>1, <2>3, <1>a DEF Waiting
  <2> QED BY <2>1, <2>2, <2>4, <1>b, Balances
<1>10. CASE Passes
  <2>1. UNCHANGED OnTheWay
    BY <1>10, <1>e, <1>f DEF Passes
  <2> QED BY <1>10, <2>1, <1>c, <1>d, Balances DEF Passes, infBut
<1>11. CASE \/ Inf!Initialize \/ Inf!StopFlag \/ Inf!WorkerParks \/ Inf!StopNext
            \/ \E m \in Models : Inf!LoadModel(m) \/ Inf!UnloadModel(m)
  <2>1. UNCHANGED <<fpc, inHand, stats, strays, dropped, unmatched, queue>>
    BY <1>11 DEF Inf!Initialize, Inf!StopFlag, Inf!WorkerParks, Inf!StopNext, Inf!StopNotify,
                 Inf!StopJoin, Inf!StopClear, Inf!LoadModel, Inf!UnloadModel
  <2>2. UNCHANGED Inf!Doomed
    BY <1>11 DEF Inf!Initialize, Inf!StopFlag, Inf!WorkerParks, Inf!StopNext, Inf!StopNotify,
                 Inf!StopJoin, Inf!StopClear, Inf!LoadModel, Inf!UnloadModel, Inf!Doomed
  <2>3. UNCHANGED <<Taken, Outcomes>>
    BY <2>1, <2>2 DEF Taken, Outcomes, Standing
  <2> QED BY <2>1, <2>3, <1>b, <1>c, Balances
<1> QED BY <1>1, <1>2, <1>3, <1>4, <1>5, <1>6, <1>7, <1>8, <1>9, <1>10, <1>11, <1>12
        DEF InfStep, Inf!FrameNext, Inf!WorkerNext

-----------------------------------------------------------------------------
(* While nobody has raced, at most one thread is between the increment and *)
(* the test, and what has been taken lags behind the counter by its frame. *)
Ticked == {t \in Threads : fpc[t] = "ticked"}

Sampled == ~raced =>
    /\ \A t, u \in Ticked : t = u
    /\ Ticked # {} => frameCounter > 0
    /\ taken = (IF Ticked = {} THEN frameCounter ELSE frameCounter - 1) \div inferenceInterval

(* A multiple of n is where the quotient grows.                            *)
LEMMA DivStep == ASSUME NEW n \in Nat \ {0}, NEW f \in Nat \ {0}
                 PROVE  f \div n = IF f % n = 0 THEN (f - 1) \div n + 1 ELSE (f - 1) \div n
OBVIOUS

(* processFrame() keeps it, step by step.                                  *)
LEMMA SampledKept == InfTypes /\ Sampled /\ InfStep => Sampled'
<1> SUFFICES ASSUME InfTypes, Sampled, InfStep, ~raced' PROVE Sampled'
  BY DEF Sampled
<1>a. /\ fpc \in [Threads -> Inf!Stages] /\ frameCounter \in Nat /\ taken \in Nat
      /\ inferenceInterval \in Nat \ {0}
  BY ConstantsTyped DEF InfTypes, FrameTypes, Constants
<1>1. ASSUME NEW t \in Threads, Inf!Tick(t) PROVE Sampled'
  <2>1. ~raced /\ Ticked = {} /\ fpc' = [fpc EXCEPT ![t] = "ticked"]
        /\ frameCounter' = frameCounter + 1 /\ taken' = taken
    BY <1>1, <1>a DEF Inf!Tick, Inf!Moves, Ticked
  <2>2. Ticked' = {t}
    BY <2>1, <1>a DEF Ticked
  <2> QED BY <2>1, <2>2, <1>a DEF Sampled
<1>2. ASSUME NEW t \in Threads, Inf!Test(t) PROVE Sampled'
  <2>1. ~raced /\ t \in Ticked /\ frameCounter' = frameCounter
    BY <1>2 DEF Inf!Test, Inf!TestAgainst, Ticked
  <2>2. Ticked = {t} /\ frameCounter \in Nat \ {0} /\ taken = (frameCounter - 1) \div inferenceInterval
    BY <2>1, <1>a DEF Sampled
  <2>3. Ticked' = {}
    BY <1>2, <2>2, <1>a DEF Ticked, Inf!Test, Inf!TestAgainst, Inf!Moves
  <2>4. taken' = IF frameCounter % inferenceInterval = 0 THEN taken + 1 ELSE taken
    BY <1>2 DEF Inf!Test, Inf!TestAgainst
  <2>5. taken' = frameCounter \div inferenceInterval
    BY <2>2, <2>4, <1>a, DivStep
  <2> QED BY <2>1, <2>3, <2>5 DEF Sampled
<1>3. CASE UNCHANGED <<Ticked, frameCounter, taken, raced>>
  BY <1>3 DEF Sampled
<1>4. ASSUME NEW t \in Threads, Inf!ChooseModel(t) \/ Inf!Enqueue(t) \/ Inf!RunSync(t)
      PROVE  UNCHANGED <<Ticked, frameCounter, taken, raced>>
  BY <1>4, <1>a DEF Inf!ChooseModel, Inf!Enqueue, Inf!EnqueueIf, Inf!RunSync, Inf!Moves, Ticked
<1>5. CASE Passes
  <2>1. UNCHANGED <<Ticked, frameCounter, taken, raced>>
    BY <1>5, <1>a DEF Passes, infBut, Ticked
  <2> QED BY <2>1, <1>3
<1>6. CASE \/ Inf!Initialize \/ Inf!ResetStatistics \/ Inf!StopFlag \/ Inf!WorkerNext \/ Inf!StopNext
           \/ Inf!ResetNext
           \/ \E m \in Models : Inf!LoadModel(m) \/ Inf!UnloadModel(m) \/ Inf!RunDirect(m)
  <2>1. UNCHANGED Inf!frameVars
    BY <1>6 DEF Inf!Initialize, Inf!ResetStatistics, Inf!StopFlag, Inf!WorkerNext, Inf!WorkerLoops,
                Inf!WorkerParks,
       Inf!WorkerInfers, Inf!StopNext, Inf!StopNotify, Inf!StopJoin, Inf!StopClear, Inf!LoadModel,
       Inf!UnloadModel, Inf!RunDirect, Inf!ResetNext
  <2> QED BY <2>1, <1>3 DEF Inf!frameVars, Ticked
<1> QED BY <1>1, <1>2, <1>3, <1>4, <1>5, <1>6 DEF InfStep, Inf!FrameNext

-----------------------------------------------------------------------------
(* What PerceptionSystem's own variables hold.                             *)
Enabled == /\ inferenceEnabled \in BOOLEAN /\ calibrationEnabled \in BOOLEAN /\ calls \in 0..MaxCalls

(* The inductive invariant.                                                *)
IInv == InfTypes /\ Accounts /\ Sampled /\ CalInv /\ Enabled

(* It holds initially ...                                                  *)
LEMMA Starts == Init => IInv
<1> SUFFICES ASSUME Init PROVE IInv
  OBVIOUS
<1>1. InfTypes /\ CalInv
  BY InfStarts, CalStarts
<1>2. Among(fpc) = 0
  <2>1. {t \in Threads : fpc[t] \in {"counted", "chosen"}} = {}
    BY DEF Init, Inf!Init
  <2> QED BY <2>1, FS_EmptySet DEF Among
<1>3. Accounts
  BY <1>2 DEF Accounts, Taken, Outcomes, Standing, Inf!Doomed, OnTheWay, Waiting, Init, Inf!Init,
                   Inf!Counters
<1>4. Sampled
  <2>1. Ticked = {} /\ frameCounter = 0 /\ taken = 0
    BY DEF Ticked, Init, Inf!Init
  <2>2. 0 \div inferenceInterval = 0
    BY ConstantsTyped DEF Constants
  <2> QED BY <2>1, <2>2 DEF Sampled
<1>5. Enabled
  <2>1. /\ inferenceEnabled = infReady /\ calibrationEnabled = calReady
        /\ infReady \in BOOLEAN /\ calls = 0
    BY <1>1 DEF Init, InfTypes, Flags
  <2>2. calibrationEnabled \in BOOLEAN
    BY <2>1, Zenon DEF Init, Cal!Init
  <2> QED BY <2>1, <2>2, FramePathAssumption DEF Enabled
<1> QED BY <1>1, <1>3, <1>4, <1>5 DEF IInv

(* The flags stay flags and the calls bounded ...                          *)
LEMMA EnabledKept == Enabled /\ [Next]_vars => Enabled'
<1> SUFFICES ASSUME Enabled, [Next]_vars PROVE Enabled'
  OBVIOUS
<1>1. inferenceEnabled' \in BOOLEAN
  <2>1. inferenceEnabled' \in {TRUE, FALSE, inferenceEnabled}
    BY DEF Next, Frames, FrameToInference, FrameSteps, FrameToCalibration, Inference, Loading, Working,
           Computing, Stopping, Resetting, InferenceCalls, CalibrationCalls, EnableInference, DisableInference,
           EnableCalibration, DisableCalibration, Unchanged, vars, enabled
  <2> QED BY <2>1 DEF Enabled
<1>2. calibrationEnabled' \in BOOLEAN
  <2>1. calibrationEnabled' \in {TRUE, FALSE, calibrationEnabled}
    BY DEF Next, Frames, FrameToInference, FrameSteps, FrameToCalibration, Inference, Loading, Working,
           Computing, Stopping, Resetting, InferenceCalls, CalibrationCalls, EnableInference, DisableInference,
           EnableCalibration, DisableCalibration, Unchanged, vars, enabled
  <2> QED BY <2>1 DEF Enabled
<1>3. calls' \in 0..MaxCalls
  <2>1. CASE Frames \/ Working \/ Computing \/ Stopping \/ Resetting \/ UNCHANGED vars
    BY <2>1 DEF Frames, FrameToInference, FrameSteps, FrameToCalibration, Inference, Working,
                Computing, Stopping, Resetting, vars, enabled, Enabled
  <2>2. CASE \/ InferenceCalls \/ CalibrationCalls \/ EnableInference \/ DisableInference
             \/ EnableCalibration \/ DisableCalibration
    <3>1. calls < MaxCalls /\ calls' = calls + 1
      BY <2>2 DEF InferenceCalls, CalibrationCalls, EnableInference, DisableInference,
                  EnableCalibration, DisableCalibration, Call
    <3> QED BY <3>1, FramePathAssumption DEF Enabled
  <2>3. CASE Loading
    <3>1. /\ calls' = IF ctl = "loading" THEN calls ELSE calls + 1
          /\ ctl = "loading" \/ calls < MaxCalls
      BY <2>3, Zenon DEF Loading
    <3> QED BY <3>1, FramePathAssumption DEF Enabled
  <2> QED BY <2>1, <2>2, <2>3 DEF Next
<1> QED BY <1>1, <1>2, <1>3 DEF Enabled

(* ... and every step keeps the whole.                                     *)
LEMMA Kept == IInv /\ [Next]_vars => IInv'
<1> SUFFICES ASSUME IInv, [Next]_vars PROVE IInv'
  OBVIOUS
<1>1. CalInv' /\ Enabled'
  BY CalKept, EnabledKept DEF IInv
<1>2. CASE InfStep
  BY <1>1, <1>2, InfTypesKept, AccountedKept, SampledKept DEF IInv
<1>3. CASE UNCHANGED infVars
  BY <1>1, <1>3 DEF IInv, infVars, infBut, InfTypes, InStep, Flags, WorkTypes, FrameTypes,
                    StatTypes, Accounts, Taken, Outcomes, Standing, Inf!Doomed, OnTheWay, Waiting,
                    Among, Sampled, Ticked
<1> QED BY <1>2, <1>3, InfSteps

(* Whatever the calls, the frames and the schedule, the invariant holds.   *)
THEOREM Invariant == Spec => []IInv
BY Starts, Kept, PTL DEF Spec

(* TypeOK: both managers' variables keep their types                       *)
(* (InferenceManager.hpp, CalibrationManager.hpp).                         *)
THEOREM TypesHold == Spec => []TypeOK
<1>1. IInv => TypeOK
  BY DEF IInv, TypeOK, InfTypes, Flags, WorkTypes, FrameTypes, StatTypes, Inf!InferenceTypeOK,
         CalInv, Enabled
<1> QED BY <1>1, Invariant, PTL

(* FramesAccounted: no frame that inference counted is lost or counted     *)
(* twice (InferenceManager.cpp 161-235, 291-326), except by as many as the *)
(* stores of a reset cleared while they were being counted (395-403).      *)
THEOREM FramesAreAccounted == Spec => []FramesAccounted
<1>1. IInv => FramesAccounted
  BY AccountsAreThose DEF IInv, FramesAccounted
<1> QED BY <1>1, Invariant, PTL

(* EveryNthUnlessRaced: of the frames offered one in inferenceInterval is  *)
(* taken, while no two threads are between the increment and the test      *)
(* (InferenceManager.cpp 189-201).                                         *)
THEOREM EveryNthIsTaken == Spec => []EveryNthUnlessRaced
<1>1. IInv => EveryNthUnlessRaced
  <2> SUFFICES ASSUME IInv, ~raced, \A t \in Threads : fpc[t] # "ticked"
               PROVE  taken = frameCounter \div inferenceInterval
    BY DEF EveryNthUnlessRaced, Inf!EveryNthUnlessRaced
  <2>1. Ticked = {}
    BY DEF Ticked
  <2> QED BY <2>1 DEF IInv, Sampled
<1> QED BY <1>1, Invariant, PTL

(* EndsWithItsResult: a calibration no later one has overtaken ends in     *)
(* the state of its own result (CalibrationManager.cpp 126-132).           *)
THEOREM ResultsAreOwn == Spec => []EndsWithItsResult
<1>1. IInv => EndsWithItsResult
  BY DEF IInv, CalInv, OwnResult, EndsWithItsResult, Cal!EndsWithItsResult
<1> QED BY <1>1, Invariant, PTL

(* NoSelfDeadlock: the progress callback that locks is never called under  *)
(* the lock it wants (PerceptionSystem.cpp 287-288).                       *)
THEOREM NobodyBlocksHimself == Spec => []NoSelfDeadlock
<1>1. IInv => NoSelfDeadlock
  BY DEF IInv, CalInv, NoSelfDeadlock, Cal!NoSelfDeadlock
<1> QED BY <1>1, Invariant, PTL
=============================================================================
