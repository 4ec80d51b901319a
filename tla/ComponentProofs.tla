-------------------------- MODULE ComponentProofs ---------------------------
(***************************************************************************)
(* Four smaller components of MCComponents, each by itself: ImageReceiver, *)
(* FrameTasks with FrameDump, ONNXInference, and Config.  Then the types   *)
(* of a fifth, CVWindow, and what all this says of MCComponents.           *)
(*                                                                         *)
(* For any number of announcements and commands, and every interleaving of *)
(* the two threads in the pipelines: the camera streams only as it was     *)
(* asked to, and, if the threads never met, whenever it was.  Where each   *)
(* thread stands in stopPipelines(), setupPipelines() and startPipelines() *)
(* tells what it has left behind.  For the first property only the         *)
(* handler's place matters (Asked): what the events' thread starts is      *)
(* replugged.  For the second one at most one thread is at work (Alone),   *)
(* and its steps are followed one by one (InStep).                         *)
(*                                                                         *)
(* For any number of threads, frame sets and formats, serially or in       *)
(* parallel, a saved picture shows its colors.  formatFilter_ is shared,   *)
(* and set in one call and used in the next.  What a thread can count on   *)
(* between the two is Mine: if it is still the one that has set the        *)
(* filter, the filter does what it was set to.  If it is not, its frame    *)
(* counts as disturbed as soon as it is given to the filter.  The two      *)
(* parts of the argument are what is in the files and what each thread is  *)
(* about to put there.                                                     *)
(*                                                                         *)
(* With a pool, the backlog grows by at most one frame less than a set has *)
(* with each set.  A set that finds too many pending waits until the first *)
(* is ready, and submits the rest of its frames on top of those that were  *)
(* left: Slow says how many there may be at each point of this, Feeding    *)
(* where the thread is.                                                    *)
(*                                                                         *)
(* That pool is used as TaskPool allows.  Each frame is submitted once, as *)
(* the set at hand and the place in it only go forward (Given), and has    *)
(* one thread at a time (Busy).                                            *)
(*                                                                         *)
(* Of any number of boxes, the engine keeps the best.  What applyNMS() has *)
(* kept of the first k boxes (KeptOf) grows with k, and each of these k is *)
(* kept or was suppressed by a surer one that is.                          *)
(*                                                                         *)
(* For any sections and fields, any number of calls, and any document      *)
(* loaded in between, loading what was saved restores it, or it was torn   *)
(* and changes nothing.  What a field's type writes, it reads back         *)
(* (RoundTrip), and what is on the disk agrees with the configuration at   *)
(* the time, key by key (AsSaved).                                         *)
(*                                                                         *)
(* Two of these are by induction, over the frames that are left and over   *)
(* the boxes.  The induction is over a set of numbers (Induct), and stands *)
(* on the fact that < is well-founded on the natural numbers.              *)
(***************************************************************************)
EXTENDS MCComponents, RemoteControlProofs, FiniteSetTheorems, TLAPS

(* The two threads that come into the pipelines.                           *)
LEMMA TwoCallers == Callers = {"handler", "events"}
BY DEF Callers

(* What a variable may hold, but for the bound on the calls.               *)
Typed == /\ {device, pipelinesRunning, frames, replugged, refused, crossed} \subseteq BOOLEAN
         /\ streamState \in {"IDLE", "RUNNING", "ERROR"}
         /\ pipeline \in {"none", "created", "running"}
         /\ at \in [Callers -> Points] /\ goal \in [Callers -> Goals]

(* A pipeline that runs without the events' thread having started it was   *)
(* started by the handler, which says so or is on its way to stop it.      *)
Asked == pipeline = "running" /\ ~replugged =>
             \/ at["handler"] \in {"started", "flag", "sdk"}
             \/ at["handler"] = "idle" /\ streamState = "RUNNING"

(* Until the two threads meet, one of them is outside the pipelines.       *)
Alone == ~crossed => \E c \in Callers : at[c] = "idle"

(* What the thread at work knows.  A start that succeeded left a running   *)
(* pipeline, one that failed had no camera or was refused; and the events  *)
(* stop the pipelines for good only if the camera is gone.                 *)
Succeeded == \A c \in Callers : at[c] = "started" => pipeline = "running" /\ ~refused
GaveUp    == \A c \in Callers : at[c] = "failed" => ~device \/ refused
Gone      == at["events"] \in {"flag", "sdk", "clear"} => goal["events"] = "connected" \/ ~device

InStep == ~crossed => Succeeded /\ GaveUp /\ Gone /\ CameraStreams

-----------------------------------------------------------------------------
(* Each step leaves every variable in its type.                            *)
LEMMA TypedStarts == ReceiverInit => Typed
BY DEF ReceiverInit, Typed, Points, Goals

LEMMA TypedKept == Typed /\ [ReceiverNext]_receiverVars => Typed'
<1> SUFFICES ASSUME Typed, [ReceiverNext]_receiverVars PROVE Typed'
  OBVIOUS
<1> USE TwoCallers DEF Typed, Points, Goals, GoesOn
<1>1. CASE StartStreaming
  BY <1>1 DEF StartStreaming, Begins
<1>2. CASE FrameArrives
  BY <1>2 DEF FrameArrives
<1>3. ASSUME NEW b \in BOOLEAN, StopStreaming(b) PROVE Typed'
  BY <1>3 DEF StopStreaming, Begins
<1>4. ASSUME NEW b \in BOOLEAN, Announced(b) PROVE Typed'
  BY <1>4 DEF Announced, Begins
<1>5. ASSUME NEW c \in Callers, PipelineSteps(c) PROVE Typed'
  <2>1. CASE ClearFlag(c) \/ StopSdk(c) \/ ClearFrames(c)
    BY <2>1 DEF ClearFlag, StopSdk, ClearFrames, AfterStop
  <2>2. CASE Setup(c) \/ Start(c)
    BY <2>2 DEF Setup, Start
  <2>3. CASE Started(c) \/ Failed(c)
    BY <2>3 DEF Started, Failed
  <2> QED BY <1>5, <2>1, <2>2, <2>3 DEF PipelineSteps
<1>6. CASE UNCHANGED receiverVars
  BY <1>6 DEF receiverVars
<1> QED BY <1>1, <1>2, <1>3, <1>4, <1>5, <1>6 DEF ReceiverNext

(* The counter of calls is only ever counted up below its bound.           *)
LEMMA ChangesBounded ==
    ASSUME changes \in 0..MaxChanges, [ReceiverNext]_receiverVars
    PROVE  changes' \in 0..MaxChanges
<1>1. CASE changes < MaxChanges /\ changes' = changes + 1
  BY <1>1, ReceiverAssumption
<1>2. CASE changes' = changes
  BY <1>2
<1> QED
  BY <1>1, <1>2 DEF ReceiverNext, StartStreaming, StopStreaming, Announced, Begins, FrameArrives,
     PipelineSteps, ClearFlag, StopSdk, ClearFrames, Setup, Start, Started, Failed, receiverVars

(* The variables of the receiver keep their types, whatever the two        *)
(* threads do in setupPipelines(), startPipelines() and stopPipelines().   *)
THEOREM ReceiverTyped == ReceiverSpec => []ReceiverTypeOK
<1> DEFINE I == Typed /\ changes \in 0..MaxChanges
<1>1. ReceiverInit => I
  BY TypedStarts, ReceiverAssumption DEF ReceiverInit
<1>2. I /\ [ReceiverNext]_receiverVars => I'
  BY TypedKept, ChangesBounded
<1>3. I => ReceiverTypeOK
  BY DEF Typed, ReceiverTypeOK
<1> HIDE DEF I
<1> QED BY <1>1, <1>2, <1>3, PTL DEF ReceiverSpec

-----------------------------------------------------------------------------
(* The handler's steps keep Asked, and so do those of the events' thread:  *)
(* whatever that one starts is replugged, and it stops what it finds.      *)
LEMMA AskedStarts == ReceiverInit => Asked
BY DEF ReceiverInit, Asked

LEMMA AskedKept == Typed /\ Asked /\ [ReceiverNext]_receiverVars => Asked'
<1> SUFFICES ASSUME Typed, Asked, [ReceiverNext]_receiverVars PROVE Asked'
  OBVIOUS
<1> USE TwoCallers DEF Typed, Asked, GoesOn
<1>1. CASE StartStreaming
  BY <1>1 DEF StartStreaming, Begins
<1>2. CASE FrameArrives
  BY <1>2 DEF FrameArrives
<1>3. ASSUME NEW b \in BOOLEAN, StopStreaming(b) PROVE Asked'
  BY <1>3 DEF StopStreaming, Begins
<1>4. ASSUME NEW b \in BOOLEAN, Announced(b) PROVE Asked'
  BY <1>4 DEF Announced, Begins
<1>5. ASSUME NEW c \in Callers, PipelineSteps(c) PROVE Asked'
  <2>1. CASE ClearFlag(c) \/ StopSdk(c) \/ ClearFrames(c)
    BY <2>1 DEF ClearFlag, StopSdk, ClearFrames, AfterStop
  <2>2. CASE Setup(c) \/ Start(c)
    BY <2>2 DEF Setup, Start
  <2>3. CASE Started(c) \/ Failed(c)
    BY <2>3 DEF Started, Failed
  <2> QED BY <1>5, <2>1, <2>2, <2>3 DEF PipelineSteps
<1>6. CASE UNCHANGED receiverVars
  BY <1>6 DEF receiverVars
<1> QED BY <1>1, <1>2, <1>3, <1>4, <1>5, <1>6 DEF ReceiverNext

(* With both threads at rest the camera streams only if the stream state   *)
(* is RUNNING or the events' thread has started it since the handler last  *)
(* stopped it: for every interleaving of onDeviceStateChanged() with       *)
(* startStreaming() and stopStreaming().                                   *)
THEOREM OnlyAsAsked == ReceiverSpec => []StreamsOnlyAsAsked
<1>1. ReceiverInit => Typed /\ Asked
  BY TypedStarts, AskedStarts
<1>2. Typed /\ Asked /\ [ReceiverNext]_receiverVars => (Typed /\ Asked)'
  BY TypedKept, AskedKept
<1>3. Typed /\ Asked => StreamsOnlyAsAsked
  BY TwoCallers DEF Asked, StreamsOnlyAsAsked, Quiet
<1> QED BY <1>1, <1>2, <1>3, PTL DEF ReceiverSpec

-----------------------------------------------------------------------------
(* A thread that comes into the pipelines finds the other one outside, or  *)
(* the two have crossed.                                                   *)
LEMMA EachOther == OtherCaller("handler") = "events" /\ OtherCaller("events") = "handler"
BY TwoCallers DEF OtherCaller

LEMMA AloneKept == Typed /\ Alone /\ [ReceiverNext]_receiverVars => Alone'
<1> SUFFICES ASSUME Typed, Alone, [ReceiverNext]_receiverVars PROVE Alone'
  OBVIOUS
<1> USE TwoCallers, EachOther DEF Typed, Alone, GoesOn
<1>1. CASE StartStreaming
  BY <1>1 DEF StartStreaming, Begins
<1>2. CASE FrameArrives
  BY <1>2 DEF FrameArrives
<1>3. ASSUME NEW b \in BOOLEAN, StopStreaming(b) PROVE Alone'
  BY <1>3 DEF StopStreaming, Begins
<1>4. ASSUME NEW b \in BOOLEAN, Announced(b) PROVE Alone'
  BY <1>4 DEF Announced, Begins
<1>5. ASSUME NEW c \in Callers, PipelineSteps(c) PROVE Alone'
  <2>1. CASE ClearFlag(c) \/ StopSdk(c) \/ ClearFrames(c)
    BY <2>1 DEF ClearFlag, StopSdk, ClearFrames, AfterStop
  <2>2. CASE Setup(c) \/ Start(c)
    BY <2>2 DEF Setup, Start
  <2>3. CASE Started(c) \/ Failed(c)
    BY <2>3 DEF Started, Failed
  <2> QED BY <1>5, <2>1, <2>2, <2>3 DEF PipelineSteps
<1>6. CASE UNCHANGED receiverVars
  BY <1>6 DEF receiverVars
<1> QED BY <1>1, <1>2, <1>3, <1>4, <1>5, <1>6 DEF ReceiverNext

(* The thread at work, alone, does step by step what it is there for.      *)
LEMMA InStepStarts == ReceiverInit => Alone /\ InStep
BY TwoCallers DEF ReceiverInit, Alone, InStep, Succeeded, GaveUp, Gone, CameraStreams

LEMMA InStepKept == Typed /\ Alone /\ InStep /\ [ReceiverNext]_receiverVars => InStep'
<1> SUFFICES ASSUME Typed, Alone, InStep, [ReceiverNext]_receiverVars PROVE InStep'
  OBVIOUS
<1> USE TwoCallers, EachOther
    DEF Typed, Alone, InStep, Succeeded, GaveUp, Gone, CameraStreams, Quiet, GoesOn
<1>1. CASE StartStreaming
  BY <1>1 DEF StartStreaming, Begins
<1>2. CASE FrameArrives
  BY <1>2 DEF FrameArrives
<1>3. ASSUME NEW b \in BOOLEAN, StopStreaming(b) PROVE InStep'
  BY <1>3 DEF StopStreaming, Begins
<1>4. ASSUME NEW b \in BOOLEAN, Announced(b) PROVE InStep'
  BY <1>4 DEF Announced, Begins
<1>5. ASSUME NEW c \in Callers, PipelineSteps(c) PROVE InStep'
  <2>1. CASE ClearFlag(c) \/ StopSdk(c) \/ ClearFrames(c)
    BY <2>1 DEF ClearFlag, StopSdk, ClearFrames, AfterStop
  <2>2. CASE Setup(c) \/ Start(c)
    BY <2>2 DEF Setup, Start
  <2>3. CASE Started(c) \/ Failed(c)
    BY <2>3 DEF Started, Failed
  <2> QED BY <1>5, <2>1, <2>2, <2>3 DEF PipelineSteps
<1>6. CASE UNCHANGED receiverVars
  BY <1>6 DEF receiverVars
<1> QED BY <1>1, <1>2, <1>3, <1>4, <1>5, <1>6 DEF ReceiverNext

(* A camera that is there streams while the stream is RUNNING, through any *)
(* number of disconnections, commands and restarts, unless the SDK refused *)
(* it or the two threads met: each start and stop runs to its end before   *)
(* the next, and every one that succeeds leaves the pipeline running.      *)
THEOREM RunningStreams == ReceiverSpec => []CameraStreams
<1> DEFINE I == Typed /\ Alone /\ InStep
<1>1. ReceiverInit => I
  BY TypedStarts, InStepStarts
<1>2. I /\ [ReceiverNext]_receiverVars => I'
  BY TypedKept, AloneKept, InStepKept
<1>3. I => CameraStreams
  BY DEF InStep, CameraStreams
<1> HIDE DEF I
<1> QED BY <1>1, <1>2, <1>3, PTL DEF ReceiverSpec

-----------------------------------------------------------------------------
(* The filter, between the two calls of the thread that has set it.        *)
Mine == \A t \in Threads :
            /\ step[t] = "toRGB" /\ setBy = t => filter = "TO_RGB"
            /\ step[t] = "toBGR" /\ setBy = t => filter = "TO_BGR"

Placed == step \in [Threads -> Steps] /\ picture \in [Threads -> {"none", "RGB", "BGR", "garbled"}]

(* A thread processes one frame after the other, through the same steps.   *)
LEMMA PlacedKept == Placed /\ [TasksNext]_tasksVars => Placed'
<1> SUFFICES ASSUME Placed, [TasksNext]_tasksVars PROVE Placed'
  OBVIOUS
<1> USE DEF Placed, Steps, Goes
<1>1. CASE FrameSetArrives \/ FirstIsReady \/ Submit
  BY <1>1 DEF FrameSetArrives, FirstIsReady, Submit, dumpVars
<1>2. CASE ProcessSerially
  BY <1>2 DEF ProcessSerially, Begin
<1>3. ASSUME NEW t \in Threads, Take(t) \/ Finish(t) PROVE Placed'
  BY <1>3 DEF Take, Finish, Begin, End
<1>4. ASSUME NEW t \in Threads, Gate(t) \/ Save(t) \/ SaveMetadata(t) PROVE Placed'
  BY <1>4 DEF Gate, Save, SaveMetadata
<1>5. ASSUME NEW t \in Threads, SaveColor(t) PROVE Placed'
  BY <1>5 DEF SaveColor, SetFilter, Process
<1>6. CASE UNCHANGED tasksVars
  BY <1>6 DEF tasksVars, dumpVars
<1> QED BY <1>1, <1>2, <1>3, <1>4, <1>5, <1>6 DEF TasksNext, Works, DumpNext

(* A thread that sets the filter makes it its own; every other step leaves *)
(* the filter alone.                                                       *)
LEMMA MineKept == Placed /\ Mine /\ [TasksNext]_tasksVars => Mine'
<1> SUFFICES ASSUME Placed, Mine, [TasksNext]_tasksVars PROVE Mine'
  OBVIOUS
<1> USE DEF Placed, Mine, Goes
<1>1. CASE FrameSetArrives \/ FirstIsReady \/ Submit
  BY <1>1 DEF FrameSetArrives, FirstIsReady, Submit, dumpVars
<1>2. CASE ProcessSerially
  BY <1>2 DEF ProcessSerially, Begin
<1>3. ASSUME NEW t \in Threads, Take(t) \/ Finish(t) PROVE Mine'
  BY <1>3 DEF Take, Finish, Begin, End
<1>4. ASSUME NEW t \in Threads, Gate(t) \/ Save(t) \/ SaveMetadata(t) PROVE Mine'
  BY <1>4 DEF Gate, Save, SaveMetadata
<1>5. ASSUME NEW t \in Threads, SaveColor(t) PROVE Mine'
  BY <1>5 DEF SaveColor, SetFilter, Process
<1>6. CASE UNCHANGED tasksVars
  BY <1>6 DEF tasksVars, dumpVars
<1> QED BY <1>1, <1>2, <1>3, <1>4, <1>5, <1>6 DEF TasksNext, Works, DumpNext

(* The files a thread writes in one step are right: those that need no     *)
(* filter have the channels of convertVideoFrame(), which turns what the   *)
(* filter would have converted into BGR; the filter's are BGR, or its      *)
(* frame is disturbed.                                                     *)
Right(x) == x.order = "BGR" \/ colorFormat \notin Converted \/ x.frame \in disturbed

LEMMA FilesGrowRight ==
    ASSUME Placed, Mine, NEW t \in Threads, DumpNext(t), NEW x \in files' \ files
    PROVE  Right(x)'
<1> USE DEF Right
<1>1. colorFormat \in Converted => convertVideoFrame(colorFormat) = "BGR"
  BY DEF convertVideoFrame, Converted
<1>2. UNCHANGED colorFormat
  BY DEF DumpNext, Gate, Save, SaveColor, SetFilter, Process, SaveMetadata
<1>3. ~Gate(t)
  BY DEF Gate
<1>4. CASE Save(t)
  <2>1. x \in Pictures(job[t])
    BY <1>4 DEF Save
  <2>2. CASE job[t].type = "DEPTH"
    BY <2>1, <2>2 DEF Pictures, File
  <2>3. CASE job[t].type # "DEPTH"
    <3>1. x = File(job[t], "image", "BGR")
          \/ x = File(job[t], "image", convertVideoFrame(colorFormat))
      BY <2>1, <2>3 DEF Pictures
    <3>2. x.order = "BGR" \/ x.order = convertVideoFrame(colorFormat)
      BY <3>1 DEF File
    <3> QED BY <1>1, <1>2, <3>2
  <2> QED BY <2>2, <2>3
<1>5. CASE SaveMetadata(t)
  BY <1>5 DEF SaveMetadata, File
<1>6. CASE Process(t, "toRGB", "TO_RGB", "RGB", "setBGR")
  <2>1. x = File(job[t], "image", convertVideoFrame(colorFormat))
    BY <1>6 DEF Process
  <2> QED BY <1>1, <1>2, <2>1 DEF File
<1>7. CASE Process(t, "toBGR", "TO_BGR", "BGR", "metadata")
  <2>1. CASE x = File(job[t], "image", convertVideoFrame(colorFormat))
    BY <1>1, <1>2, <2>1 DEF File
  <2>2. CASE setBy # t /\ x = File(job[t], "image", picture'[t])
    BY <1>7, <2>2 DEF Process, File
  <2>3. CASE setBy = t /\ x = File(job[t], "image", picture'[t])
             /\ picture' = [picture EXCEPT ![t] = IF filter = "TO_BGR" THEN "BGR" ELSE "garbled"]
    <3>1. filter = "TO_BGR"
      BY <1>7, <2>3 DEF Process, Mine
    <3> QED BY <2>3, <3>1 DEF Placed, File
  <2> QED BY <1>7, <2>1, <2>2, <2>3 DEF Process
<1>8. CASE SetFilter(t, "setRGB", "TO_RGB", "toRGB") \/ SetFilter(t, "setBGR", "TO_BGR", "toBGR")
  BY <1>8 DEF SetFilter
<1> QED BY <1>3, <1>4, <1>5, <1>6, <1>7, <1>8 DEF DumpNext, SaveColor

(* A file that was right stays right, for a frame once disturbed is so for *)
(* good and the format of the stream does not change.                      *)
LEMMA FilesKept ==
    Placed /\ Mine /\ ColorsAreRight /\ [TasksNext]_tasksVars => ColorsAreRight'
<1> SUFFICES ASSUME Placed, Mine, ColorsAreRight, [TasksNext]_tasksVars PROVE ColorsAreRight'
  OBVIOUS
<1>1. ASSUME NEW t \in Threads, DumpNext(t) PROVE ColorsAreRight'
  <2>1. disturbed \subseteq disturbed' /\ UNCHANGED colorFormat
    BY <1>1 DEF DumpNext, Gate, Save, SaveColor, SetFilter, Process, SaveMetadata
  <2>2. ASSUME NEW x \in files PROVE Right(x)'
    BY <2>1 DEF ColorsAreRight, Right
  <2>3. ASSUME NEW x \in files' \ files PROVE Right(x)'
    BY <1>1, <2>3, FilesGrowRight
  <2>4. ASSUME NEW x \in files' PROVE Right(x)'
    BY <2>2, <2>3
  <2> QED BY <2>4 DEF ColorsAreRight, Right
<1>2. CASE UNCHANGED <<files, disturbed, colorFormat>>
  BY <1>2 DEF ColorsAreRight
<1>3. CASE FrameSetArrives \/ FirstIsReady \/ Submit \/ ProcessSerially
  BY <1>2, <1>3 DEF FrameSetArrives, FirstIsReady, Submit, ProcessSerially, Begin, dumpVars
<1>4. ASSUME NEW t \in Threads, Take(t) \/ Finish(t) PROVE ColorsAreRight'
  BY <1>2, <1>4 DEF Take, Finish, Begin, End
<1>5. CASE UNCHANGED tasksVars
  BY <1>2, <1>5 DEF tasksVars, dumpVars
<1> QED BY <1>1, <1>3, <1>4, <1>5 DEF TasksNext, Works

(* Every file has its channels in the order imwrite() expects, unless the  *)
(* stream is RGB or unknown or another thread has set the filter between   *)
(* the two calls for its frame: for every interleaving of the threads in   *)
(* saveColor().                                                            *)
THEOREM ColorsRight == TasksSpec => []ColorsAreRight
<1> DEFINE I == Placed /\ Mine /\ ColorsAreRight
<1>1. TasksInit => I
  BY DEF TasksInit, DumpInit, Placed, Steps, Mine, ColorsAreRight
<1>2. I /\ [TasksNext]_tasksVars => I'
  BY PlacedKept, MineKept, FilesKept
<1>3. I => ColorsAreRight
  OBVIOUS
<1> HIDE DEF I
<1> QED BY <1>1, <1>2, <1>3, PTL DEF TasksSpec

-----------------------------------------------------------------------------
(* A set with zero and all successors has every number.                    *)
LEMMA Induct ==
    ASSUME NEW T, 0 \in T, \A n \in Nat : n \in T => n + 1 \in T
    PROVE  Nat \subseteq T
<1> SUFFICES ASSUME Nat \ T # {} PROVE FALSE
  OBVIOUS
<1>1. PICK x \in Nat \ T : \A y \in Nat \ T : x <= y
  BY Least
<1>2. x - 1 \in Nat /\ x - 1 \notin Nat \ T
  BY <1>1
<1> QED BY <1>1, <1>2

(* A function may be defined by what it is at zero, and at each number by  *)
(* what it is at the one before.                                           *)
LEMMA Recursion ==
    ASSUME NEW X, NEW x0 \in X, NEW N \in Nat, NEW F \in [1..N -> [X -> X]]
    PROVE  \E f \in [0..N -> X] : f[0] = x0 /\ \A n \in 1..N : f[n] = F[n][f[n - 1]]
<1> DEFINE T == {m \in Nat : m <= N =>
                     \E f \in [0..m -> X] : f[0] = x0 /\ \A n \in 1..m : f[n] = F[n][f[n - 1]]}
<1>1. 0 \in T
  <2>1. PICK f \in [0..0 -> X] : f[0] = x0
    <3> DEFINE f == [n \in 0..0 |-> x0]
    <3>1. f \in [0..0 -> X] /\ f[0] = x0
      OBVIOUS
    <3> QED BY <3>1
  <2>2. \A n \in 1..0 : f[n] = F[n][f[n - 1]]
    OBVIOUS
  <2> QED BY <2>1, <2>2
<1>2. ASSUME NEW m \in Nat, m \in T PROVE m + 1 \in T
  <2> SUFFICES ASSUME m + 1 <= N
               PROVE  \E f \in [0..(m + 1) -> X] :
                          f[0] = x0 /\ \A n \in 1..(m + 1) : f[n] = F[n][f[n - 1]]
    OBVIOUS
  <2>1. PICK f \in [0..m -> X] : f[0] = x0 /\ \A n \in 1..m : f[n] = F[n][f[n - 1]]
    BY <1>2
  <2>2. PICK y \in X : y = F[m + 1][f[m]]
    <3>1. f[m] \in X /\ F[m + 1] \in [X -> X]
      BY <2>1
    <3> QED BY <3>1
  <2>3. PICK g \in [0..(m + 1) -> X] : \A n \in 0..(m + 1) : g[n] = IF n = m + 1 THEN y ELSE f[n]
    <3>1. [n \in 0..(m + 1) |-> IF n = m + 1 THEN y ELSE f[n]] \in [0..(m + 1) -> X]
      BY <2>1
    <3> QED BY <3>1
  <2>4. ASSUME NEW n \in 1..(m + 1) PROVE g[n] = F[n][g[n - 1]]
    <3>1. CASE n = m + 1
      <4>1. g[n] = y /\ g[n - 1] = f[m]
        BY <2>3, <3>1
      <4> QED BY <2>2, <3>1, <4>1
    <3>2. CASE n # m + 1
      <4>1. n \in 1..m /\ g[n] = f[n] /\ g[n - 1] = f[n - 1]
        BY <2>3, <3>2
      <4> QED BY <2>1, <4>1
    <3> QED BY <3>1, <3>2
  <2>5. g[0] = x0
    BY <2>1, <2>3
  <2> QED BY <2>3, <2>4, <2>5
<1> HIDE DEF T
<1>3. N \in T
  BY <1>1, <1>2, Induct
<1> QED BY <1>3 DEF T

-----------------------------------------------------------------------------
(* What is left of the beginnings of a sequence, element by element.       *)
LEMMA NotInIs ==
    ASSUME NEW S, NEW s \in Seq(S), NEW D
    PROVE  /\ NotIn(s, D) \in [0..Len(s) -> Seq(S)]
           /\ NotIn(s, D)[0] = <<>>
           /\ \A n \in 1..Len(s) : NotIn(s, D)[n] = IF s[n] \in D THEN NotIn(s, D)[n - 1]
                                                    ELSE Append(NotIn(s, D)[n - 1], s[n])
<1> DEFINE Longer(n, q) == IF s[n] \in D THEN q ELSE Append(q, s[n])
           Body(f) == [n \in 0..Len(s) |-> IF n = 0 THEN <<>> ELSE Longer(n, f[n - 1])]
           g == NotIn(s, D)
<1>1. PICK N \in Nat : N = Len(s) /\ \A n \in 1..N : s[n] \in S
  OBVIOUS
<1>2. PICK f \in [0..N -> Seq(S)] : f[0] = <<>> /\ \A n \in 1..N : f[n] = Longer(n, f[n - 1])
  <2>1. PICK X, e : X = Seq(S) /\ e = <<>>
    OBVIOUS
  <2>2. PICK F \in [1..N -> [X -> X]] : \A n \in 1..N, q \in X : F[n][q] = Longer(n, q)
    <3>1. ASSUME NEW n \in 1..N, NEW q \in X PROVE Longer(n, q) \in X
      BY <1>1, <2>1
    <3> HIDE DEF Longer
    <3>2. [n \in 1..N |-> [q \in X |-> Longer(n, q)]] \in [1..N -> [X -> X]]
      BY <3>1
    <3> QED BY <3>2
  <2> HIDE DEF Longer
  <2>3. e \in X
    BY <2>1
  <2>4. PICK f \in [0..N -> X] : f[0] = e /\ \A n \in 1..N : f[n] = F[n][f[n - 1]]
    BY <2>3, Recursion, SMTT(30)
  <2>5. \A n \in 1..N : f[n - 1] \in X
    BY <2>4
  <2>6. \A n \in 1..N : f[n] = Longer(n, f[n - 1])
    BY <2>2, <2>4, <2>5
  <2> QED BY <2>1, <2>4, <2>6
<1>3. f = Body(f)
  <2> HIDE DEF Longer
  <2>1. \A n \in 0..N : f[n] = Body(f)[n]
    BY <1>1, <1>2
  <2> QED BY <1>1, <2>1
<1>4. g = Body(g)
  <2>1. NotIn(s, D) = CHOOSE h : h = Body(h)
    BY DEF NotIn
  <2> HIDE DEF Body
  <2> QED BY <1>3, <2>1
<1>5. g[0] = <<>> /\ \A n \in 1..N : g[n] = Longer(n, g[n - 1])
  <2> HIDE DEF Longer, g
  <2> QED BY <1>1, <1>4
<1>6. \A n \in 0..N : g[n] = f[n]
  <2> HIDE DEF Longer, g
  <2> DEFINE T == {n \in Nat : n <= N => g[n] = f[n]}
  <2>1. 0 \in T
    BY <1>2, <1>5
  <2>2. ASSUME NEW n \in Nat, n \in T PROVE n + 1 \in T
    <3> SUFFICES ASSUME n + 1 <= N PROVE g[n + 1] = f[n + 1]
      OBVIOUS
    <3>1. n + 1 \in 1..N /\ (n + 1) - 1 = n /\ g[n] = f[n]
      BY <2>2
    <3> QED BY <1>2, <1>5, <3>1
  <2> HIDE DEF T
  <2>3. Nat \subseteq T
    BY <2>1, <2>2, Induct
  <2> QED BY <1>1, <2>3 DEF T
<1>7. g \in [0..N -> Seq(S)]
  <2> HIDE DEF Longer, g
  <2>1. g = [n \in 0..N |-> g[n]]
    BY <1>1, <1>4
  <2> QED BY <1>2, <1>6, <2>1
<1> QED BY <1>1, <1>5, <1>7

(* The more is ready, the less is left; at most what there was, and less   *)
(* than that if the first is ready.                                        *)
LEMMA LessIsLeft ==
    ASSUME NEW S, NEW s \in Seq(S), NEW D, NEW E, D \subseteq E, NEW n \in 0..Len(s)
    PROVE  /\ Len(NotIn(s, D)[n]) \in 0..n
           /\ Len(NotIn(s, E)[n]) \in 0..Len(NotIn(s, D)[n])
           /\ n > 0 /\ s[1] \in D => Len(NotIn(s, D)[n]) < n
<1>1. PICK d, e : d = NotIn(s, D) /\ e = NotIn(s, E)
  OBVIOUS
<1>2. /\ d \in [0..Len(s) -> Seq(S)] /\ d[0] = <<>>
      /\ \A i \in 1..Len(s) : d[i] = IF s[i] \in D THEN d[i - 1] ELSE Append(d[i - 1], s[i])
      /\ e \in [0..Len(s) -> Seq(S)] /\ e[0] = <<>>
      /\ \A i \in 1..Len(s) : e[i] = IF s[i] \in E THEN e[i - 1] ELSE Append(e[i - 1], s[i])
  BY <1>1, NotInIs
<1> DEFINE Fewer(i) == /\ Len(d[i]) \in 0..i /\ Len(e[i]) \in 0..Len(d[i])
                       /\ i > 0 /\ s[1] \in D => Len(d[i]) < i
           T == {i \in Nat : i <= Len(s) => Fewer(i)}
<1>3. 0 \in T
  BY <1>2
<1>4. ASSUME NEW i \in Nat, i \in T PROVE i + 1 \in T
  <2> SUFFICES ASSUME i + 1 <= Len(s) PROVE Fewer(i + 1)
    OBVIOUS
  <2>0. i + 1 \in 1..Len(s) /\ i \in 0..Len(s) /\ (i + 1) - 1 = i /\ Fewer(i)
    BY <1>4
  <2>1. d[i] \in Seq(S) /\ e[i] \in Seq(S) /\ s[i + 1] \in S
    BY <1>2, <2>0
  <2>2. /\ d[i + 1] = IF s[i + 1] \in D THEN d[i] ELSE Append(d[i], s[i + 1])
        /\ e[i + 1] = IF s[i + 1] \in E THEN e[i] ELSE Append(e[i], s[i + 1])
    BY <1>2, <2>0
  <2>3. /\ Len(d[i]) \in Nat /\ Len(Append(d[i], s[i + 1])) = Len(d[i]) + 1
        /\ Len(e[i]) \in Nat /\ Len(Append(e[i], s[i + 1])) = Len(e[i]) + 1
    BY <2>1
  <2>4. i = 0 \/ i > 0
    OBVIOUS
  <2>5. CASE s[i + 1] \in D
    BY <2>0, <2>2, <2>3, <2>4, <2>5
  <2>6. CASE s[i + 1] \notin D
    BY <2>0, <2>2, <2>3, <2>4, <2>6
  <2> QED BY <2>5, <2>6
<1> HIDE DEF T
<1>5. n \in T
  BY <1>3, <1>4, Induct
<1> QED BY <1>1, <1>5 DEF T

(* One more element is at most one more that is left.                      *)
LEMMA OneMoreLeft ==
    ASSUME NEW S, NEW s \in Seq(S), NEW x \in S, NEW D
    PROVE  Len(NotIn(Append(s, x), D)[Len(Append(s, x))]) <= Len(NotIn(s, D)[Len(s)]) + 1
<1>1. PICK q \in Seq(S) : q = Append(s, x)
  <2>1. Append(s, x) \in Seq(S)
    OBVIOUS
  <2> QED BY <2>1
<1>2. Len(q) = Len(s) + 1 /\ Len(s) \in Nat /\ \A i \in 1..Len(s) : q[i] = s[i]
  BY <1>1
<1>3. PICK d, e : d = NotIn(s, D) /\ e = NotIn(q, D)
  OBVIOUS
<1>4. /\ d \in [0..Len(s) -> Seq(S)] /\ d[0] = <<>>
      /\ \A i \in 1..Len(s) : d[i] = IF s[i] \in D THEN d[i - 1] ELSE Append(d[i - 1], s[i])
      /\ e \in [0..Len(q) -> Seq(S)] /\ e[0] = <<>>
      /\ \A i \in 1..Len(q) : e[i] = IF q[i] \in D THEN e[i - 1] ELSE Append(e[i - 1], q[i])
  BY <1>3, NotInIs
<1> DEFINE T == {i \in Nat : i <= Len(s) => e[i] = d[i]}
<1>5. 0 \in T
  BY <1>4
<1>6. ASSUME NEW i \in Nat, i \in T PROVE i + 1 \in T
  <2> SUFFICES ASSUME i + 1 <= Len(s) PROVE e[i + 1] = d[i + 1]
    OBVIOUS
  <2>1. i + 1 \in 1..Len(s) /\ i + 1 \in 1..Len(q) /\ (i + 1) - 1 = i /\ e[i] = d[i]
    BY <1>2, <1>6
  <2> QED BY <1>2, <1>4, <2>1
<1> HIDE DEF T
<1>7. e[Len(s)] = d[Len(s)]
  <2>1. Len(s) \in T
    BY <1>2, <1>5, <1>6, Induct
  <2> QED BY <2>1 DEF T
<1>8. e[Len(q)] = IF q[Len(q)] \in D THEN d[Len(s)] ELSE Append(d[Len(s)], q[Len(q)])
  BY <1>2, <1>4, <1>7
<1>9. d[Len(s)] \in Seq(S) /\ q[Len(q)] \in S
  <2>1. Len(s) \in 0..Len(s) /\ Len(q) \in 1..Len(q)
    BY <1>2
  <2>2. d[Len(s)] \in Seq(S)
    BY <1>4, <2>1
  <2> QED BY <2>1, <2>2
<1>10. Len(e[Len(q)]) <= Len(d[Len(s)]) + 1
  <2>1. PICK p \in Seq(S) : p = d[Len(s)]
    BY <1>9
  <2>2. Len(p) \in Nat /\ Len(Append(p, q[Len(q)])) = Len(p) + 1
    BY <1>9
  <2> QED BY <1>8, <2>1, <2>2
<1> QED BY <1>1, <1>3, <1>10

(* How much may be left after so many sets.                                *)
Limit(n) == maxQueuedTasks + FramesPerSet + (n - 1) * (FramesPerSet - 1)

LEMMA LimitGrows ==
    /\ FramesPerSet \in Nat \ {0} /\ maxQueuedTasks \in Nat
    /\ \A n \in Nat : Limit(n) \in Int /\ Limit(n + 1) = Limit(n) + FramesPerSet - 1
    /\ \A n \in Nat \ {0} : Limit(n) >= maxQueuedTasks + FramesPerSet
<1>1. FramesPerSet \in Nat \ {0} /\ maxQueuedTasks \in Nat
  BY TasksAssumption DEF FramesPerSet
<1>2. PICK k \in Nat : k = FramesPerSet - 1
  BY <1>1
<1>3. \A n \in Nat : n * k \in Nat /\ ((n + 1) - 1) * k = (n - 1) * k + k /\ (n - 1) * k \in Int
  OBVIOUS
<1>4. ASSUME NEW n \in Nat \ {0} PROVE (n - 1) * k \in Nat
  <2>1. n - 1 \in Nat
    OBVIOUS
  <2> QED BY <1>3, <2>1
<1>5. \A n : Limit(n) = maxQueuedTasks + FramesPerSet + (n - 1) * k
  BY <1>2 DEF Limit
<1>6. ASSUME NEW n \in Nat PROVE Limit(n) \in Int /\ Limit(n + 1) = Limit(n) + FramesPerSet - 1
  <2>1. /\ Limit(n) = maxQueuedTasks + FramesPerSet + (n - 1) * k
        /\ Limit(n + 1) = maxQueuedTasks + FramesPerSet + ((n + 1) - 1) * k
    BY <1>5
  <2> QED BY <1>1, <1>2, <1>3, <2>1
<1>7. ASSUME NEW n \in Nat \ {0} PROVE Limit(n) >= maxQueuedTasks + FramesPerSet
  BY <1>1, <1>4, <1>5
<1> QED BY <1>1, <1>6, <1>7

(* Where the SDK's thread is, and what it has yet to submit.               *)
Feeding ==
    /\ sets \in Nat /\ next \in 1..FramesPerSet
    /\ futures \in Seq([index : Nat, type : {SetTypes[i] : i \in DOMAIN SetTypes}])
    /\ ~parallel => futures = <<>>
    /\ feeder \in {"idle", "wait", "submit", "process"}
    /\ feeder # "idle" => sets > 0
    /\ feeder = "wait" => parallel /\ next = 1
    /\ feeder = "process" => ~parallel
    /\ step[Sdk] # "idle" => feeder = "process"

Slow ==
    /\ feeder = "idle" =>
         IF sets = 0 THEN futures = <<>> ELSE Len(Unfinished(futures)) <= Limit(sets)
    /\ feeder = "wait" => futures # <<>> /\ sets > 1 /\ Len(futures) <= Limit(sets - 1)
    /\ feeder = "submit" => Len(Unfinished(futures)) <= Limit(sets) - (FramesPerSet - next + 1)

(* The SDK's thread is not one of the pool's.                              *)
LEMMA SdkIsNoWorker == Sdk \in Threads /\ Sdk \notin Workers /\ Workers \subseteq Threads
BY TasksAssumption DEF Sdk

LEMMA NoneLeft == Len(Unfinished(<<>>)) = 0
<1>1. <<>> \in Seq({}) /\ Len(<<>>) = 0
  OBVIOUS
<1>2. ASSUME NEW S, NEW s \in Seq(S) PROVE NotIn(s, over)[0] = <<>>
  BY NotInIs
<1>3. NotIn(<<>>, over)[0] = <<>>
  BY <1>1, <1>2
<1> QED BY <1>1, <1>3 DEF Unfinished

LEMMA AfterFrame ==
    ASSUME next \in 1..FramesPerSet, NextFrame
    PROVE  /\ next' \in 1..FramesPerSet
           /\ \/ feeder' = "submit" /\ next' = next + 1
              \/ feeder' = "idle" /\ next = FramesPerSet
<1>1. FramesPerSet \in Nat \ {0}
  BY LimitGrows
<1> QED BY <1>1 DEF NextFrame

(* Every step of the SDK's thread and of the pool's keeps the place, and   *)
(* no more is left than the set at hand has yet to add.                    *)
LEMMA FeedingKept == Placed /\ Feeding /\ [TasksNext]_tasksVars => Feeding'
<1> SUFFICES ASSUME Placed, Feeding, [TasksNext]_tasksVars PROVE Feeding'
  OBVIOUS
<1> USE SdkIsNoWorker, LimitGrows DEF Placed, Steps, Feeding, Goes
<1>1. CASE FrameSetArrives
  <2>1. futures' = NotIn(futures, over)[Len(futures)]
    BY <1>1 DEF FrameSetArrives, Unfinished
  <2>2. futures' \in Seq([index : Nat, type : {SetTypes[i] : i \in DOMAIN SetTypes}])
    <3>1. Len(futures) \in 0..Len(futures)
      OBVIOUS
    <3>2. PICK S : S = [index : Nat, type : {SetTypes[i] : i \in DOMAIN SetTypes}]
      OBVIOUS
    <3>3. NotIn(futures, over) \in [0..Len(futures) -> Seq(S)]
      BY <3>2, NotInIs
    <3> QED BY <2>1, <3>1, <3>2, <3>3
  <2>3. ~parallel => futures' = <<>>
    <3>1. ASSUME NEW S, NEW s \in Seq(S) PROVE NotIn(s, over)[0] = <<>>
      BY NotInIs
    <3>2. ~parallel => Len(futures) = 0 /\ NotIn(futures, over)[0] = <<>>
      <4>1. <<>> \in Seq({}) /\ Len(<<>>) = 0
        OBVIOUS
      <4> QED BY <3>1, <4>1
    <3> QED BY <2>1, <3>2
  <2> QED BY <1>1, <2>2, <2>3 DEF FrameSetArrives, dumpVars
<1>2. CASE FirstIsReady
  BY <1>2 DEF FirstIsReady, dumpVars
<1>3. CASE Submit
  <2>1. Frame(next) \in [index : Nat, type : {SetTypes[i] : i \in DOMAIN SetTypes}]
    <3>1. next \in DOMAIN SetTypes
      BY TasksAssumption DEF FramesPerSet
    <3> QED BY <3>1 DEF Frame
  <2>2. futures' \in Seq([index : Nat, type : {SetTypes[i] : i \in DOMAIN SetTypes}])
    BY <1>3, <2>1 DEF Submit
  <2>3. parallel /\ UNCHANGED <<sets, parallel, step>> /\ next' \in 1..FramesPerSet
        /\ feeder' \in {"submit", "idle"} /\ feeder = "submit"
    BY <1>3, AfterFrame DEF Submit, dumpVars
  <2> QED BY <2>2, <2>3
<1>4. CASE ProcessSerially
  BY <1>4 DEF ProcessSerially, Begin
<1>5. ASSUME NEW t \in Threads, Take(t) PROVE Feeding'
  BY <1>5 DEF Take, Begin
<1>6. ASSUME NEW t \in Threads, Finish(t) PROVE Feeding'
  <2>1. CASE t = Sdk
    <3>1. step[Sdk] = "done" /\ ~parallel /\ sets > 0
      BY <1>6, <2>1 DEF Finish, End
    <3>2. next' \in 1..FramesPerSet /\ feeder' \in {"submit", "idle"}
      BY <1>6, <2>1, AfterFrame DEF Finish
    <3>3. UNCHANGED <<sets, futures, parallel>> /\ step'[Sdk] = "idle"
      BY <1>6, <2>1 DEF Finish, End
    <3> QED BY <3>1, <3>2, <3>3
  <2>2. CASE t # Sdk
    BY <1>6, <2>2 DEF Finish, End
  <2> QED BY <2>1, <2>2
<1>7. ASSUME NEW t \in Threads, DumpNext(t),
             UNCHANGED <<parallel, sets, next, feeder, pool, futures, over>>
      PROVE  Feeding'
  <2>1. step[t] # "idle" /\ \A u \in Threads \ {t} : step'[u] = step[u]
    BY <1>7 DEF DumpNext, Gate, Save, SaveColor, SetFilter, Process, SaveMetadata
  <2> QED BY <1>7, <2>1
<1>8. CASE UNCHANGED tasksVars
  BY <1>8 DEF tasksVars, dumpVars
<1> QED BY <1>1, <1>2, <1>3, <1>4, <1>5, <1>6, <1>7, <1>8 DEF TasksNext, Works

LEMMA SlowKept == Placed /\ Feeding /\ Slow /\ [TasksNext]_tasksVars => Slow'
<1> SUFFICES ASSUME Placed, Feeding, Slow, [TasksNext]_tasksVars PROVE Slow'
  OBVIOUS
<1>1. PICK S : S = [index : Nat, type : {SetTypes[i] : i \in DOMAIN SetTypes}]
  OBVIOUS
<1>2. futures \in Seq(S) /\ futures' \in Seq(S) /\ Feeding'
  BY <1>1, FeedingKept DEF Feeding
<1> DEFINE left == Len(Unfinished(futures))
<1>3. Len(futures) \in 0..Len(futures) /\ left = Len(NotIn(futures, over)[Len(futures)])
  BY <1>2 DEF Unfinished
<1>4. /\ left \in 0..Len(futures)
      /\ futures # <<>> /\ Head(futures) \in over => left < Len(futures)
      /\ futures' = futures /\ over \subseteq over' => left' \in 0..left
  <2>1. futures # <<>> => Len(futures) > 0 /\ Head(futures) = futures[1]
    BY <1>2
  <2> QED BY <1>2, <1>3, <2>1, LessIsLeft DEF Unfinished
<1>5. sets \in Nat /\ next \in 1..FramesPerSet /\ sets' \in Nat /\ Len(futures) \in Nat
  BY <1>2 DEF Feeding
<1>6. CASE FrameSetArrives
  <2>1. /\ feeder = "idle" /\ sets' = sets + 1 /\ next' = 1 /\ futures' = Unfinished(futures)
        /\ feeder' = IF parallel /\ Len(futures') > maxQueuedTasks THEN "wait" ELSE "submit"
        /\ UNCHANGED <<over, parallel>>
    BY <1>6 DEF FrameSetArrives
  <2>2. left' \in 0..left
    <3>1. Len(futures') \in 0..Len(futures') /\ Len(futures') = left
      BY <1>2, <2>1
    <3>2. left' = Len(NotIn(futures', over)[Len(futures')])
      BY <2>1 DEF Unfinished
    <3> QED BY <1>2, <3>1, <3>2, LessIsLeft
  <2>3. CASE feeder' = "wait"
    <3>1. left > maxQueuedTasks
      BY <2>1, <2>3
    <3>2. sets # 0
      BY <1>4, <2>1, <3>1, LimitGrows, NoneLeft DEF Slow
    <3>3. left <= Limit(sets)
      BY <2>1, <3>2 DEF Slow
    <3> QED BY <1>5, <2>1, <2>3, <3>1, <3>2, <3>3, LimitGrows DEF Slow
  <2>4. CASE feeder' = "submit"
    <3>1. left <= maxQueuedTasks
      <4>1. CASE parallel
        <5>1. ~(Len(futures') > maxQueuedTasks) /\ Len(futures') = left
          BY <2>1, <2>4, <4>1
        <5> QED BY <1>4, <5>1, LimitGrows
      <4>2. CASE ~parallel
        BY <4>2, NoneLeft, LimitGrows DEF Feeding
      <4> QED BY <4>1, <4>2
    <3>2. Limit(sets') >= maxQueuedTasks + FramesPerSet /\ Limit(sets') \in Int
      <4>1. sets' \in Nat \ {0}
        BY <1>5, <2>1
      <4> QED BY <4>1, LimitGrows
    <3>3. left' <= Limit(sets') - (FramesPerSet - 1 + 1)
      <4>1. left \in Nat /\ FramesPerSet \in Nat /\ maxQueuedTasks \in Nat
        BY <1>4, <1>5, LimitGrows
      <4> HIDE DEF left
      <4> QED BY <2>2, <3>1, <3>2, <4>1
    <3> QED BY <2>1, <2>4, <3>3 DEF Slow
  <2> QED BY <2>1, <2>3, <2>4
<1>7. ASSUME UNCHANGED <<sets, next, feeder, futures, over>> PROVE Slow'
  BY <1>7 DEF Slow, Unfinished
<1>8. CASE FirstIsReady
  <2>1. /\ feeder = "wait" /\ feeder' = "submit" /\ Head(futures) \in over
        /\ UNCHANGED <<sets, next, futures, over>>
    BY <1>8 DEF FirstIsReady
  <2>2. next = 1 /\ futures # <<>> /\ sets > 1 /\ Len(futures) <= Limit(sets - 1)
    BY <2>1 DEF Slow, Feeding
  <2>3. left' = left /\ left < Len(futures) /\ left \in Nat
    BY <1>4, <1>5, <2>1, <2>2 DEF Unfinished
  <2>4. Limit(sets) = Limit(sets - 1) + FramesPerSet - 1 /\ Limit(sets - 1) \in Int
    <3>1. sets - 1 \in Nat /\ (sets - 1) + 1 = sets
      BY <1>5, <2>2
    <3> QED BY <3>1, LimitGrows
  <2>5. left <= Limit(sets) - (FramesPerSet - 1 + 1)
    <3>1. FramesPerSet \in Nat
      BY LimitGrows
    <3> HIDE DEF left
    <3> QED BY <1>5, <2>2, <2>3, <2>4, <3>1
  <2> QED BY <2>1, <2>2, <2>3, <2>5 DEF Slow
<1>9. CASE Submit
  <2>1. /\ feeder = "submit" /\ futures' = Append(futures, Frame(next)) /\ NextFrame
        /\ UNCHANGED <<sets, over>>
    BY <1>9 DEF Submit
  <2>2. left' <= left + 1 /\ left \in Nat
    <3>1. Frame(next) \in S
      <4>1. next \in DOMAIN SetTypes
        BY <1>5, TasksAssumption DEF FramesPerSet
      <4> QED BY <1>1, <1>5, <4>1 DEF Frame
    <3> QED BY <1>2, <1>4, <1>5, <2>1, <3>1, OneMoreLeft DEF Unfinished
  <2>3. left' \in Nat
    <3>1. Len(futures') \in 0..Len(futures') /\ left' = Len(NotIn(futures', over')[Len(futures')])
      BY <1>2 DEF Unfinished
    <3> QED BY <1>2, <3>1, LessIsLeft
  <2>4. left <= Limit(sets) - (FramesPerSet - next + 1)
    BY <2>1 DEF Slow
  <2>5. FramesPerSet \in Nat /\ Limit(sets) \in Int
    BY <1>5, LimitGrows
  <2>6. sets # 0
    BY <2>1 DEF Feeding
  <2> HIDE DEF left
  <2>7. CASE feeder' = "submit" /\ next' = next + 1
    <3>1. left' <= Limit(sets) - (FramesPerSet - next' + 1)
      BY <1>5, <2>2, <2>3, <2>4, <2>5, <2>7
    <3> USE DEF left
    <3> QED BY <2>1, <2>7, <3>1 DEF Slow
  <2>8. CASE feeder' = "idle" /\ next = FramesPerSet
    <3>1. left' <= Limit(sets)
      BY <1>5, <2>2, <2>3, <2>4, <2>5, <2>8
    <3> USE DEF left
    <3> QED BY <2>1, <2>6, <2>8, <3>1 DEF Slow
  <2> QED BY <1>5, <2>1, <2>7, <2>8, AfterFrame
<1>10. CASE ProcessSerially
  BY <1>10 DEF ProcessSerially, Slow
<1>11. ASSUME NEW t \in Threads, Finish(t) PROVE Slow'
  <2>1. futures' = futures /\ sets' = sets /\ left' \in 0..left
    BY <1>4, <1>11 DEF Finish
  <2>2. CASE t # Sdk
    <3>1. UNCHANGED <<next, feeder>>
      BY <1>11, <2>2 DEF Finish
    <3>2. Limit(sets) \in Int /\ FramesPerSet \in Nat /\ left \in Nat /\ left' \in Nat
      BY <1>4, <1>5, <2>1, LimitGrows
    <3>3. feeder = "idle" /\ sets # 0 => left' <= Limit(sets)
      <4>1. feeder = "idle" /\ sets # 0 => left <= Limit(sets)
        BY DEF Slow
      <4> HIDE DEF left
      <4> QED BY <2>1, <3>2, <4>1
    <3>4. feeder = "submit" => left' <= Limit(sets) - (FramesPerSet - next + 1)
      <4>1. feeder = "submit" => left <= Limit(sets) - (FramesPerSet - next + 1)
        BY DEF Slow
      <4> HIDE DEF left
      <4> QED BY <1>5, <2>1, <3>2, <4>1
    <3> QED BY <2>1, <3>1, <3>3, <3>4 DEF Slow
  <2>3. CASE t = Sdk
    <3>1. futures = <<>> /\ sets # 0 /\ NextFrame
      BY <1>11, <2>3 DEF Finish, End, Feeding
    <3>2. left' = 0
      <4>1. left = 0
        BY <3>1, NoneLeft
      <4> QED BY <2>1, <4>1
    <3>3. FramesPerSet \in Nat /\ maxQueuedTasks \in Nat /\ Limit(sets) \in Int
          /\ Limit(sets) >= maxQueuedTasks + FramesPerSet
      BY <1>5, <3>1, LimitGrows
    <3>4. next' \in 1..FramesPerSet /\ feeder' \in {"submit", "idle"}
      BY <1>5, <3>1, AfterFrame
    <3>5. 0 <= Limit(sets) /\ 0 <= Limit(sets) - (FramesPerSet - next' + 1)
      BY <3>3, <3>4
    <3> QED BY <2>1, <3>1, <3>2, <3>4, <3>5 DEF Slow
  <2> QED BY <2>2, <2>3
<1>12. CASE \E t \in Threads : Take(t)
  BY <1>7, <1>12 DEF Take
<1>13. CASE UNCHANGED tasksVars
  BY <1>7, <1>13 DEF tasksVars
<1> QED BY <1>6, <1>7, <1>8, <1>9, <1>10, <1>11, <1>12, <1>13 DEF TasksNext, Works

(* What is not in Placed and Feeding of the types: nothing goes to the     *)
(* pool without parallel processing, and the settings stay.                *)
Settings ==
    /\ enableDump \in BOOLEAN /\ colorFormat \in ColorFormats /\ parallel \in BOOLEAN
    /\ filter \in {"none", "TO_RGB", "TO_BGR"} /\ setBy \in Threads \cup {"none"}
    /\ sets \in 0..MaxSets /\ (~parallel => pool = <<>>)

LEMMA SettingsKept == Settings /\ [TasksNext]_tasksVars => Settings'
<1> SUFFICES ASSUME Settings, [TasksNext]_tasksVars PROVE Settings'
  OBVIOUS
<1> USE DEF Settings
<1>1. CASE FrameSetArrives
  <2>1. sets' \in 0..MaxSets
    BY <1>1, TasksAssumption DEF FrameSetArrives
  <2> QED BY <1>1, <2>1 DEF FrameSetArrives, dumpVars
<1>2. CASE FirstIsReady \/ Submit \/ ProcessSerially
  BY <1>2 DEF FirstIsReady, Submit, ProcessSerially, Begin, dumpVars
<1>3. ASSUME NEW t \in Threads, Take(t) \/ Finish(t) PROVE Settings'
  BY <1>3 DEF Take, Finish, Begin, End
<1>4. ASSUME NEW t \in Threads, DumpNext(t),
             UNCHANGED <<parallel, sets, next, feeder, pool, futures, over>>
      PROVE  Settings'
  BY <1>4 DEF DumpNext, Gate, Save, SaveColor, SetFilter, Process, SaveMetadata
<1>5. CASE UNCHANGED tasksVars
  BY <1>5 DEF tasksVars, dumpVars
<1> QED BY <1>1, <1>2, <1>3, <1>4, <1>5 DEF TasksNext, Works

(* Types hold for any number of threads, frames in a set and sets; without *)
(* parallel processing nothing is left with the pool.                      *)
THEOREM TasksTyped == TasksSpec => []TasksTypeOK
<1> DEFINE I == Placed /\ Feeding /\ Settings
<1>1. TasksInit => I
  <2> SUFFICES ASSUME TasksInit PROVE I
    OBVIOUS
  <2>1. step[Sdk] = "idle" /\ next \in 1..FramesPerSet /\ sets \in 0..MaxSets
    BY SdkIsNoWorker, LimitGrows, TasksAssumption DEF TasksInit, DumpInit
  <2> QED BY <2>1 DEF TasksInit, DumpInit, Placed, Steps, Feeding, Settings
<1>2. I /\ [TasksNext]_tasksVars => I'
  BY PlacedKept, FeedingKept, SettingsKept
<1>3. I => TasksTypeOK
  BY DEF Placed, Feeding, Settings, TasksTypeOK, DumpTypeOK
<1> HIDE DEF I
<1> QED BY <1>1, <1>2, <1>3, PTL DEF TasksSpec

(* What waits for a pool thread grows by at most one frame less than a set *)
(* has with each set: however long the pool's threads take, and whatever   *)
(* the sets are made of (ImageReceiver.cpp 381-493).                       *)
THEOREM GrowsSlowly == TasksSpec => []BacklogGrowsSlowly
<1> DEFINE I == Placed /\ Feeding /\ Slow
<1>1. TasksInit => I
  <2> SUFFICES ASSUME TasksInit PROVE I
    OBVIOUS
  <2>1. step[Sdk] = "idle" /\ futures = <<>> /\ sets = 0 /\ next \in 1..FramesPerSet
    BY SdkIsNoWorker, LimitGrows DEF TasksInit, DumpInit
  <2> QED BY <2>1 DEF TasksInit, DumpInit, Placed, Steps, Feeding, Slow
<1>2. I /\ [TasksNext]_tasksVars => I'
  BY PlacedKept, FeedingKept, SlowKept
<1>3. I => BacklogGrowsSlowly
  BY LimitGrows DEF Feeding, Slow, BacklogGrowsSlowly, Limit
<1> HIDE DEF I
<1> QED BY <1>1, <1>2, <1>3, PTL DEF TasksSpec

-----------------------------------------------------------------------------
(* A frame that was submitted is of an earlier set, or one of those of the *)
(* set at hand whose turn has been; only such frames are in the pool, or   *)
(* were; and a thread has a frame until it is done with it.                *)
Turned(f) == \/ f.index < sets
             \/ f.index = sets /\ feeder = "idle"
             \/ f.index = sets /\ \E n \in 1..(next - 1) : f.type = SetTypes[n]

Busy == /\ pool \in Seq(SetFrames) /\ job \in [Threads -> SetFrames \cup {NoFrame}]
        /\ \A t \in Threads : step[t] = "idle" <=> job[t] = NoFrame
        /\ \A t \in Threads : t \notin Workers /\ t # Sdk => job[t] = NoFrame
Given == \A t \in SetFrames : Pool!Accepted(t) => parallel /\ Turned(t)

Counts == Placed /\ Feeding /\ Settings /\ Busy /\ Given

LEMMA FramesAre ==
    ASSUME Feeding, Settings, feeder = "submit"
    PROVE  /\ Frame(next) \in SetFrames /\ ~Turned(Frame(next))
           /\ NextFrame /\ sets' = sets
              => \A f \in SetFrames : Turned(f) \/ f = Frame(next) => Turned(f)'
<1>1. sets \in 1..MaxSets /\ next \in 1..FramesPerSet /\ FramesPerSet \in Nat
  BY LimitGrows, TasksAssumption DEF Feeding, Settings
<1>2. Frame(next).index = sets /\ Frame(next).type = SetTypes[next]
  BY DEF Frame
<1>3. Frame(next) \in SetFrames
  BY <1>1 DEF Frame, SetFrames
<1>4. ASSUME NEW n \in 1..(next - 1) PROVE SetTypes[n] # SetTypes[next]
  <2>1. n \in DOMAIN SetTypes /\ next \in DOMAIN SetTypes /\ n # next
    BY <1>1, TasksAssumption DEF FramesPerSet
  <2> QED BY <2>1, TasksAssumption
<1>5. ~Turned(Frame(next))
  BY <1>1, <1>2, <1>4 DEF Turned
<1>6. ASSUME NextFrame, sets' = sets,
             NEW f \in SetFrames, Turned(f) \/ f = Frame(next)
      PROVE  Turned(f)'
  <2>1. CASE feeder' = "submit" /\ next' = next + 1
    <3>1. next \in 1..(next' - 1) /\ \A n \in 1..(next - 1) : n \in 1..(next' - 1)
      BY <1>1, <2>1
    <3> QED BY <1>2, <1>6, <3>1 DEF Turned
  <2>2. CASE feeder' = "idle" /\ next = FramesPerSet
    BY <1>2, <1>6, <2>2 DEF Turned
  <2> QED BY <1>1, <1>6, <2>1, <2>2, AfterFrame
<1> QED BY <1>3, <1>5, <1>6

(* Who has no frame takes one, and is done with it before the next.        *)
LEMMA BusyKept == Counts /\ [TasksNext]_tasksVars => Busy'
<1> SUFFICES ASSUME Counts, [TasksNext]_tasksVars PROVE Busy'
  OBVIOUS
<1> USE DEF Counts, Placed, Busy, Goes
<1>0. NoFrame \notin SetFrames
  BY TasksAssumption DEF NoFrame, SetFrames
<1>1. CASE FrameSetArrives \/ FirstIsReady
  BY <1>1 DEF FrameSetArrives, FirstIsReady, dumpVars
<1>2. CASE Submit
  <2>1. Frame(next) \in SetFrames
    BY <1>2, FramesAre DEF Submit
  <2> QED BY <1>2, <2>1 DEF Submit, dumpVars
<1>3. CASE ProcessSerially
  <2>1. Frame(next) \in SetFrames
    BY <1>3, FramesAre DEF ProcessSerially
  <2> QED BY <1>0, <1>3, <2>1, SdkIsNoWorker DEF ProcessSerially, Begin, Steps
<1>4. ASSUME NEW w \in Threads, Take(w) PROVE Busy'
  <2>1. Head(pool) \in SetFrames /\ pool' \in Seq(SetFrames)
    BY <1>4 DEF Take
  <2> QED BY <1>0, <1>4, <2>1 DEF Take, Begin, Steps
<1>5. ASSUME NEW t \in Threads, Finish(t) PROVE Busy'
  BY <1>5 DEF Finish, End, Steps
<1>6. ASSUME NEW t \in Threads, DumpNext(t),
             UNCHANGED <<parallel, sets, next, feeder, pool, futures, over>>
      PROVE  Busy'
  <2>1. UNCHANGED job
    BY <1>6 DEF DumpNext, Gate, Save, SaveColor, SetFilter, Process, SaveMetadata
  <2>2. step[t] # "idle" /\ step'[t] # "idle" /\ \A u \in Threads \ {t} : step'[u] = step[u]
    BY <1>6 DEF DumpNext, Gate, Save, SaveColor, SetFilter, Process, SaveMetadata
  <2> QED BY <1>6, <2>1, <2>2
<1>7. CASE UNCHANGED tasksVars
  BY <1>7 DEF tasksVars, dumpVars
<1> QED BY <1>1, <1>2, <1>3, <1>4, <1>5, <1>6, <1>7 DEF TasksNext, Works

(* A step of the receiver's is one that TaskPool knows, or none to it; and *)
(* what is in the pool or was has had its turn.                            *)
LEMMA PoolStep ==
    Counts /\ [TasksNext]_tasksVars => Given' /\ [Pool!Next]_(Pool!vars)
<1> SUFFICES ASSUME Counts, [TasksNext]_tasksVars PROVE Given' /\ [Pool!Next]_(Pool!vars)
  OBVIOUS
<1> USE DEF Counts
<1> DEFINE R == [w \in Workers |-> job[w]]
           D == IF parallel THEN over ELSE {}
<1>0. NoFrame \notin SetFrames /\ Workers \subseteq Threads
  BY TasksAssumption DEF NoFrame, SetFrames
<1>1. ASSUME UNCHANGED <<parallel, pool, over>>, \A w \in Workers : job'[w] = job[w],
             \A f \in SetFrames : Turned(f) => Turned(f)'
      PROVE  Given' /\ [Pool!Next]_(Pool!vars)
  <2>1. \A f \in SetFrames : Pool!Accepted(f)' <=> Pool!Accepted(f)
    BY <1>1 DEF Pool!Accepted
  <2>2. R' = R /\ D' = D
    BY <1>1
  <2> QED BY <1>1, <2>1, <2>2 DEF Given, Pool!vars
<1>2. CASE FrameSetArrives
  <2>1. \A f \in SetFrames : f.index \in Nat
    BY TasksAssumption DEF SetFrames
  <2>2. \A f \in SetFrames : Turned(f) => Turned(f)'
    BY <1>2, <2>1 DEF FrameSetArrives, Turned, Feeding
  <2> QED BY <1>1, <1>2, <2>2 DEF FrameSetArrives, dumpVars
<1>3. CASE FirstIsReady
  <2>1. \A f \in SetFrames : Turned(f) => Turned(f)'
    BY <1>3 DEF FirstIsReady, Turned
  <2> QED BY <1>1, <1>3, <2>1 DEF FirstIsReady, dumpVars
<1>4. CASE Submit
  <2>1. PICK g \in SetFrames : g = Frame(next) /\ ~Turned(g)
    BY <1>4, FramesAre DEF Submit
  <2>2. /\ pool' = Append(pool, g) /\ parallel /\ UNCHANGED <<parallel, over, job, sets>>
        /\ NextFrame
    BY <1>4, <2>1 DEF Submit, dumpVars
  <2>3. ~Pool!Accepted(g)
    BY <2>1 DEF Given
  <2>4. Pool!Submit(g)
    BY <2>2, <2>3 DEF Pool!Submit
  <2>5. \A f \in SetFrames : Turned(f) \/ f = g => Turned(f)'
    BY <1>4, <2>1, <2>2, FramesAre DEF Submit
  <2>6. \A f \in SetFrames : Pool!Accepted(f)' => Pool!Accepted(f) \/ f = g
    <3>1. \A i \in 1..Len(pool') : pool'[i] = g \/ (i \in 1..Len(pool) /\ pool'[i] = pool[i])
      BY <2>1, <2>2 DEF Busy
    <3> QED BY <2>2, <3>1 DEF Pool!Accepted
  <2> QED BY <2>1, <2>2, <2>4, <2>5, <2>6 DEF Given, Pool!Next
<1>5. CASE ProcessSerially
  <2>1. \A w \in Workers : job'[w] = job[w]
    BY <1>0, <1>5, SdkIsNoWorker DEF ProcessSerially, Begin, Busy
  <2>2. \A f \in SetFrames : Pool!Accepted(f)' => Pool!Accepted(f)
    BY <1>5, <2>1 DEF ProcessSerially, Pool!Accepted
  <2>3. R' = R /\ D' = D /\ pool' = pool /\ ~parallel
    BY <1>5, <2>1 DEF ProcessSerially
  <2> QED BY <1>5, <2>2, <2>3 DEF Given, Pool!vars
<1>6. ASSUME NEW w \in Threads, Take(w) PROVE Given' /\ [Pool!Next]_(Pool!vars)
  <2>1. PICK g \in SetFrames : g = Head(pool)
    BY <1>6 DEF Take, Busy
  <2>2. /\ w \in Workers /\ pool # <<>> /\ pool' = Tail(pool) /\ job[w] = NoFrame
        /\ job' = [job EXCEPT ![w] = g]
        /\ UNCHANGED <<parallel, sets, next, feeder, over>>
    BY <1>6, <2>1 DEF Take, Begin, Busy
  <2>3. R' = [R EXCEPT ![w] = g] /\ D' = D /\ R[w] = NoFrame
    BY <1>0, <2>2 DEF Busy
  <2>4. Pool!Take(w)
    BY <2>1, <2>2, <2>3 DEF Pool!Take
  <2>5. \A f \in SetFrames : Pool!Accepted(f)' => Pool!Accepted(f)
    <3>1. \A i \in 1..Len(pool') : i + 1 \in 1..Len(pool) /\ pool'[i] = pool[i + 1]
      BY <2>2 DEF Busy
    <3>2. 1 \in 1..Len(pool) /\ g = pool[1]
      <4>1. Len(pool) \in Nat \ {0}
        BY <2>2 DEF Busy
      <4> QED BY <2>1, <2>2, <4>1 DEF Busy
    <3>3. \A v \in Workers : job'[v] = g \/ job'[v] = job[v]
      BY <1>0, <2>2 DEF Busy
    <3> QED BY <2>2, <3>1, <3>2, <3>3 DEF Pool!Accepted
  <2>6. \A f \in SetFrames : Turned(f) => Turned(f)'
    BY <2>2 DEF Turned
  <2> QED BY <2>2, <2>4, <2>5, <2>6 DEF Given, Pool!Next
<1>7. ASSUME NEW t \in Threads, Finish(t) PROVE Given' /\ [Pool!Next]_(Pool!vars)
  <2>1. PICK g : g = job[t]
    OBVIOUS
  <2>2. /\ g # NoFrame /\ job' = [job EXCEPT ![t] = NoFrame] /\ over' = over \cup {g}
        /\ UNCHANGED <<parallel, sets, pool>>
    BY <1>7, <2>1 DEF Finish, End, Busy
  <2>3. CASE t = Sdk
    <3>1. ~parallel /\ \A w \in Workers : job'[w] = job[w]
      BY <1>0, <1>7, <2>2, <2>3, SdkIsNoWorker DEF Finish, End, Feeding, Busy
    <3>2. \A f \in SetFrames : Pool!Accepted(f)' => Pool!Accepted(f)
      BY <2>2, <3>1 DEF Pool!Accepted
    <3>3. R' = R /\ D' = D
      BY <2>2, <3>1
    <3> QED BY <2>2, <3>1, <3>2, <3>3 DEF Given, Pool!vars
  <2>4. CASE t \in Workers
    <3>1. R' = [R EXCEPT ![t] = NoFrame] /\ R[t] = g
      BY <1>0, <2>1, <2>2, <2>4 DEF Busy
    <3>2. g \in SetFrames
      BY <2>1, <2>2 DEF Busy
    <3>3. Pool!Accepted(g)
      BY <2>1, <2>4 DEF Pool!Accepted
    <3>4. parallel
      BY <3>2, <3>3 DEF Given
    <3>5. Pool!Finish(t)
      BY <2>2, <3>1, <3>4 DEF Pool!Finish
    <3>6. \A v \in Workers : job'[v] = NoFrame \/ job'[v] = job[v]
      BY <1>0, <2>2 DEF Busy
    <3>7. \A f \in SetFrames : Pool!Accepted(f)' => Pool!Accepted(f)
      BY <1>0, <2>2, <3>3, <3>4, <3>6 DEF Pool!Accepted
    <3>8. \A f \in SetFrames : Turned(f) => Turned(f)'
      BY <1>7, <2>4, SdkIsNoWorker DEF Finish, Turned
    <3> QED BY <2>2, <2>4, <3>5, <3>7, <3>8 DEF Given, Pool!Next
  <2> QED BY <2>1, <2>2, <2>3, <2>4 DEF Busy
<1>8. ASSUME NEW t \in Threads, DumpNext(t),
             UNCHANGED <<parallel, sets, next, feeder, pool, futures, over>>
      PROVE  Given' /\ [Pool!Next]_(Pool!vars)
  <2>1. UNCHANGED job
    BY <1>8 DEF DumpNext, Gate, Save, SaveColor, SetFilter, Process, SaveMetadata
  <2>2. \A f \in SetFrames : Turned(f) => Turned(f)'
    BY <1>8 DEF Turned
  <2> QED BY <1>1, <1>8, <2>1, <2>2
<1>9. CASE UNCHANGED tasksVars
  <2>1. \A f \in SetFrames : Turned(f) => Turned(f)'
    BY <1>9 DEF tasksVars, dumpVars, Turned
  <2> QED BY <1>1, <1>9, <2>1 DEF tasksVars, dumpVars
<1> QED BY <1>2, <1>3, <1>4, <1>5, <1>6, <1>7, <1>8, <1>9 DEF TasksNext, Works

(* The receiver and its pool's threads do what TaskPool allows, for any    *)
(* number of threads, sets and frames in a set: no frame is given to the   *)
(* pool twice, and each is taken in its turn and by one thread             *)
(* (ImageReceiver.cpp 381-456).                                            *)
THEOREM ReceiverUsesPool == TasksSpec => UsesTaskPool
<1>1. TasksInit => Counts /\ Pool!Init
  <2> SUFFICES ASSUME TasksInit PROVE Counts /\ Pool!Init
    OBVIOUS
  <2>1. /\ step = [t \in Threads |-> "idle"] /\ job = [t \in Threads |-> NoFrame]
        /\ picture = [t \in Threads |-> "none"]
        /\ next = 1 /\ sets = 0 /\ pool = <<>> /\ over = {} /\ futures = <<>> /\ feeder = "idle"
        /\ parallel \in BOOLEAN /\ filter = "none" /\ setBy = "none"
        /\ enableDump \in BOOLEAN /\ colorFormat \in ColorFormats
    BY DEF TasksInit, DumpInit
  <2>2. Placed /\ Busy
    BY <2>1 DEF Placed, Steps, Busy
  <2>3. Feeding
    BY <2>1, SdkIsNoWorker, LimitGrows DEF Feeding
  <2>4. Settings
    BY <2>1, TasksAssumption DEF Settings
  <2>5. Workers \subseteq Threads /\ NoFrame \notin SetFrames
    BY TasksAssumption DEF NoFrame, SetFrames
  <2>6. Pool!Init
    BY <2>1, <2>5 DEF Pool!Init
  <2>7. Given
    BY <2>1, <2>5 DEF Given, Pool!Accepted
  <2> QED BY <2>2, <2>3, <2>4, <2>6, <2>7 DEF Counts
<1>2. Counts /\ [TasksNext]_tasksVars => Counts' /\ [Pool!Next]_(Pool!vars)
  BY PlacedKept, FeedingKept, SettingsKept, BusyKept, PoolStep DEF Counts
<1> QED BY <1>1, <1>2, PTL DEF TasksSpec, UsesTaskPool, Pool!Spec

(* Hence no frame is processed twice or by two threads of the pool at      *)
(* once, and none that was submitted is lost (ImageReceiver.cpp 381-456).  *)
THEOREM FramesProcessedOnce == TasksSpec => []Pool!InOnePlace /\ Pool!NoneIsLost
<1>0. NoFrame \notin SetFrames
  BY TasksAssumption DEF NoFrame, SetFrames
<1>1. Pool!Spec => []Pool!InOnePlace /\ Pool!NoneIsLost
  BY <1>0, Pool!EachOnce, Pool!NeverLost, PTL
<1> QED BY <1>1, ReceiverUsesPool, PTL DEF UsesTaskPool

-----------------------------------------------------------------------------
(* What applyNMS() has kept of the first boxes, box by box.                *)
LEMMA KeepsIs ==
    ASSUME NEW D, NEW order \in Seq(D), NEW boxes
    PROVE  /\ Keeps(boxes, order) \in [0..Len(order) -> Seq(D)]
           /\ Keeps(boxes, order)[0] = <<>>
           /\ \A k \in 1..Len(order) :
                 Keeps(boxes, order)[k] =
                    LET kept == Keeps(boxes, order)[k - 1]
                    IN IF \E i \in DOMAIN kept : Suppresses(boxes[kept[i]].rect, boxes[order[k]].rect)
                       THEN kept ELSE Append(kept, order[k])
<1> DEFINE Keep(k, q) == IF \E i \in DOMAIN q : Suppresses(boxes[q[i]].rect, boxes[order[k]].rect)
                         THEN q ELSE Append(q, order[k])
           Body(f) == [k \in 0..Len(order) |-> IF k = 0 THEN <<>> ELSE Keep(k, f[k - 1])]
           g == Keeps(boxes, order)
<1>1. PICK N \in Nat : N = Len(order) /\ \A k \in 1..N : order[k] \in D
  OBVIOUS
<1>2. PICK f \in [0..N -> Seq(D)] : f[0] = <<>> /\ \A k \in 1..N : f[k] = Keep(k, f[k - 1])
  <2>1. PICK X, e : X = Seq(D) /\ e = <<>>
    OBVIOUS
  <2>2. PICK F \in [1..N -> [X -> X]] : \A k \in 1..N, q \in X : F[k][q] = Keep(k, q)
    <3>1. ASSUME NEW k \in 1..N, NEW q \in X PROVE Keep(k, q) \in X
      BY <1>1, <2>1
    <3> HIDE DEF Keep
    <3>2. [k \in 1..N |-> [q \in X |-> Keep(k, q)]] \in [1..N -> [X -> X]]
      BY <3>1
    <3> QED BY <3>2
  <2> HIDE DEF Keep
  <2>3. e \in X
    BY <2>1
  <2>4. PICK f \in [0..N -> X] : f[0] = e /\ \A k \in 1..N : f[k] = F[k][f[k - 1]]
    BY <2>3, Recursion, SMTT(30)
  <2>5. \A k \in 1..N : f[k - 1] \in X
    BY <2>4
  <2>6. \A k \in 1..N : f[k] = Keep(k, f[k - 1])
    BY <2>2, <2>4, <2>5
  <2> QED BY <2>1, <2>4, <2>6
<1>3. f = Body(f)
  <2> HIDE DEF Keep
  <2>1. \A k \in 0..N : f[k] = Body(f)[k]
    BY <1>1, <1>2
  <2> QED BY <1>1, <2>1
<1>4. g = Body(g)
  <2>1. g = CHOOSE h : h = Body(h)
    BY DEF Keeps
  <2> HIDE DEF Body, g
  <2> QED BY <1>3, <2>1
<1>5. g[0] = <<>> /\ \A k \in 1..N : g[k] = Keep(k, g[k - 1])
  <2> HIDE DEF Keep, g
  <2> QED BY <1>1, <1>4
<1>6. \A k \in 0..N : g[k] = f[k]
  <2> HIDE DEF Keep, g
  <2> DEFINE T == {k \in Nat : k <= N => g[k] = f[k]}
  <2>1. 0 \in T
    BY <1>2, <1>5
  <2>2. ASSUME NEW k \in Nat, k \in T PROVE k + 1 \in T
    <3> SUFFICES ASSUME k + 1 <= N PROVE g[k + 1] = f[k + 1]
      OBVIOUS
    <3>1. k + 1 \in 1..N /\ (k + 1) - 1 = k /\ g[k] = f[k]
      BY <2>2
    <3> QED BY <1>2, <1>5, <3>1
  <2> HIDE DEF T
  <2>3. Nat \subseteq T
    BY <2>1, <2>2, Induct
  <2> QED BY <1>1, <2>3 DEF T
<1>7. g \in [0..N -> Seq(D)]
  <2> HIDE DEF Keep, g
  <2>1. g = [k \in 0..N |-> g[k]]
    BY <1>1, <1>4
  <2> QED BY <1>2, <1>6, <2>1
<1> QED BY <1>1, <1>5, <1>7

(* Two boxes suppress each other or neither the other.                     *)
LEMMA SuppressesBoth ==
    ASSUME NEW r \in Rects, NEW q \in Rects
    PROVE  Suppresses(r, q) <=> Suppresses(q, r)
<1>1. \A a, b \in Int : Lesser(a, b) = Lesser(b, a) /\ Greater(a, b) = Greater(b, a)
  BY DEF Lesser, Greater
<1>2. \A i \in 1..4 : r[i] \in Int /\ q[i] \in Int
  <2>1. r \in Int \X Int \X Int \X Int /\ q \in Int \X Int \X Int \X Int
    BY EngineAssumption
  <2> QED BY <2>1
<1>3. /\ Lesser(r[1] + r[3], q[1] + q[3]) = Lesser(q[1] + q[3], r[1] + r[3])
      /\ Greater(r[1], q[1]) = Greater(q[1], r[1])
      /\ Lesser(r[2] + r[4], q[2] + q[4]) = Lesser(q[2] + q[4], r[2] + r[4])
      /\ Greater(r[2], q[2]) = Greater(q[2], r[2])
  <2>1. /\ r[1] + r[3] \in Int /\ q[1] + q[3] \in Int /\ r[1] \in Int /\ q[1] \in Int
        /\ r[2] + r[4] \in Int /\ q[2] + q[4] \in Int /\ r[2] \in Int /\ q[2] \in Int
    BY <1>2
  <2> QED BY <1>1, <2>1
<1>4. Shared(r, q, 1) = Shared(q, r, 1) /\ Shared(r, q, 2) = Shared(q, r, 2)
  BY <1>3 DEF Shared
<1>5. Overlap(r, q) = Overlap(q, r)
  BY <1>4 DEF Overlap
<1>6. Area(r) \in Int /\ Area(q) \in Int
  BY <1>2 DEF Area
<1>7. Area(r) + Area(q) = Area(q) + Area(r)
  BY <1>6
<1>8. Overlap(r, q) \in Int
  <2>1. \A axis \in {1, 2} : Shared(r, q, axis) \in Int
    BY <1>2 DEF Shared, Greater, Lesser
  <2> QED BY <2>1 DEF Overlap
<1>9. ASSUME NEW a, NEW b, Area(a) \in Int, Area(b) \in Int, Overlap(a, b) \in Int
      PROVE  Suppresses(a, b) <=> /\ (Area(a) + Area(b)) - Overlap(a, b) > 0
                                  /\ 2 * Overlap(a, b) > (Area(a) + Area(b)) - Overlap(a, b)
  BY <1>9 DEF Suppresses
<1> QED BY <1>5, <1>6, <1>7, <1>8, <1>9

(* After k boxes: what is kept is of them, no box that was kept suppresses *)
(* a later one, and what was dropped was by an earlier one that was kept.  *)
KeptOf(q, boxes, order, k) ==
    /\ \A i \in DOMAIN q : \E m \in 1..k : q[i] = order[m]
    /\ \A i, j \in DOMAIN q : i < j => ~Suppresses(boxes[q[i]].rect, boxes[q[j]].rect)
    /\ \A m \in 1..k : \/ \E i \in DOMAIN q : q[i] = order[m]
                       \/ \E i \in DOMAIN q, l \in 1..k :
                             /\ l < m /\ q[i] = order[l]
                             /\ Suppresses(boxes[q[i]].rect, boxes[order[m]].rect)

LEMMA KeptSoFar ==
    ASSUME NEW D, NEW order \in Seq(D), NEW boxes
    PROVE  \A k \in 0..Len(order) : KeptOf(Keeps(boxes, order)[k], boxes, order, k)
<1>1. PICK g : g = Keeps(boxes, order)
  OBVIOUS
<1>2. /\ g \in [0..Len(order) -> Seq(D)] /\ g[0] = <<>>
      /\ \A k \in 1..Len(order) :
            g[k] = IF \E i \in DOMAIN g[k - 1] :
                         Suppresses(boxes[g[k - 1][i]].rect, boxes[order[k]].rect)
                   THEN g[k - 1] ELSE Append(g[k - 1], order[k])
  BY <1>1, KeepsIs
<1> DEFINE T == {k \in Nat : k <= Len(order) => KeptOf(g[k], boxes, order, k)}
<1>3. 0 \in T
  BY <1>2 DEF KeptOf
<1>4. ASSUME NEW k \in Nat, k \in T PROVE k + 1 \in T
  <2> SUFFICES ASSUME k + 1 <= Len(order) PROVE KeptOf(g[k + 1], boxes, order, k + 1)
    OBVIOUS
  <2>1. k + 1 \in 1..Len(order) /\ (k + 1) - 1 = k /\ k \in 0..Len(order)
    OBVIOUS
  <2>2. PICK q \in Seq(D) : q = g[k]
    BY <1>2, <2>1
  <2>3. KeptOf(q, boxes, order, k)
    BY <1>4, <2>2
  <2>4. order[k + 1] \in D
    BY <2>1
  <2>5. CASE \E i \in DOMAIN q : Suppresses(boxes[q[i]].rect, boxes[order[k + 1]].rect)
    <3>1. g[k + 1] = q
      BY <1>2, <2>1, <2>2, <2>5
    <3>2. PICK i \in DOMAIN q : Suppresses(boxes[q[i]].rect, boxes[order[k + 1]].rect)
      BY <2>5
    <3>3. PICK l \in 1..k : q[i] = order[l]
      BY <2>3 DEF KeptOf
    <3>4. l \in 1..(k + 1) /\ l < k + 1 /\ \A m \in 1..(k + 1) : m = k + 1 \/ m \in 1..k
      OBVIOUS
    <3>5. \A m \in 1..k : m \in 1..(k + 1)
      OBVIOUS
    <3>6. \A h \in DOMAIN q : \E m \in 1..(k + 1) : q[h] = order[m]
      BY <2>3, <3>5 DEF KeptOf
    <3>7. \A h, j \in DOMAIN q : h < j => ~Suppresses(boxes[q[h]].rect, boxes[q[j]].rect)
      BY <2>3 DEF KeptOf
    <3>8. \A m \in 1..(k + 1) :
              \/ \E h \in DOMAIN q : q[h] = order[m]
              \/ \E h \in DOMAIN q, n \in 1..(k + 1) :
                    /\ n < m /\ q[h] = order[n]
                    /\ Suppresses(boxes[q[h]].rect, boxes[order[m]].rect)
      <4> SUFFICES ASSUME NEW m \in 1..k
                   PROVE  \/ \E h \in DOMAIN q : q[h] = order[m]
                          \/ \E h \in DOMAIN q, n \in 1..(k + 1) :
                                /\ n < m /\ q[h] = order[n]
                                /\ Suppresses(boxes[q[h]].rect, boxes[order[m]].rect)
        BY <3>2, <3>3, <3>4
      <4> QED BY <2>3, <3>5 DEF KeptOf
    <3> QED BY <3>1, <3>6, <3>7, <3>8 DEF KeptOf
  <2>6. CASE ~\E i \in DOMAIN q : Suppresses(boxes[q[i]].rect, boxes[order[k + 1]].rect)
    <3>1. PICK p \in Seq(D) : p = g[k + 1]
      BY <1>2, <2>1
    <3>2. p = Append(q, order[k + 1])
      BY <1>2, <2>1, <2>2, <2>6, <3>1
    <3>3. /\ Len(q) \in Nat /\ DOMAIN q = 1..Len(q) /\ DOMAIN p = 1..(Len(q) + 1)
          /\ p[Len(q) + 1] = order[k + 1] /\ \A i \in 1..Len(q) : p[i] = q[i]
      BY <2>4, <3>2
    <3>4. \A i \in DOMAIN p : i \in DOMAIN q \/ i = Len(q) + 1
      BY <3>3
    <3>5. \A i \in DOMAIN q : i \in DOMAIN p /\ p[i] = q[i]
      BY <3>3
    <3>6. \A m \in 1..(k + 1) : m = k + 1 \/ m \in 1..k
      OBVIOUS
    <3>7. \A m \in 1..k : m \in 1..(k + 1)
      OBVIOUS
    <3>8. \A i \in DOMAIN p : \E m \in 1..(k + 1) : p[i] = order[m]
      BY <2>3, <3>3, <3>4, <3>5, <3>7 DEF KeptOf
    <3>9. \A i, j \in DOMAIN p : i < j => ~Suppresses(boxes[p[i]].rect, boxes[p[j]].rect)
      <4> SUFFICES ASSUME NEW i \in DOMAIN p, NEW j \in DOMAIN p, i < j
                   PROVE  ~Suppresses(boxes[p[i]].rect, boxes[p[j]].rect)
        OBVIOUS
      <4>1. i \in DOMAIN q
        BY <3>3
      <4>2. CASE j \in DOMAIN q
        BY <2>3, <3>5, <4>1, <4>2 DEF KeptOf
      <4>3. CASE j = Len(q) + 1
        BY <2>6, <3>3, <3>5, <4>1, <4>3
      <4> QED BY <3>4, <4>2, <4>3
    <3>10. Len(q) + 1 \in DOMAIN p
      BY <3>3
    <3>11. \A m \in 1..(k + 1) :
               \/ \E i \in DOMAIN p : p[i] = order[m]
               \/ \E i \in DOMAIN p, l \in 1..(k + 1) :
                     /\ l < m /\ p[i] = order[l]
                     /\ Suppresses(boxes[p[i]].rect, boxes[order[m]].rect)
      <4> SUFFICES ASSUME NEW m \in 1..k
                   PROVE  \/ \E i \in DOMAIN p : p[i] = order[m]
                          \/ \E i \in DOMAIN p, l \in 1..(k + 1) :
                                /\ l < m /\ p[i] = order[l]
                                /\ Suppresses(boxes[p[i]].rect, boxes[order[m]].rect)
        BY <3>3, <3>6, <3>10
      <4> QED BY <2>3, <3>5, <3>7 DEF KeptOf
    <3> QED BY <3>1, <3>8, <3>9, <3>11 DEF KeptOf
  <2> QED BY <2>5, <2>6
<1> HIDE DEF T
<1>5. Nat \subseteq T
  BY <1>3, <1>4, Induct
<1> QED BY <1>1, <1>5 DEF T

(* The boxes that pass, sorted: of these, as many as there are, each once  *)
(* at least, the surer before the less sure.                               *)
LEMMA SortedIs ==
    ASSUME output \in Seq(Anchors), NEW order \in Sorted(output, Detected(output))
    PROVE  /\ order \in Seq(Detected(output))
           /\ \A i \in Detected(output) : \E m \in 1..Len(order) : i = order[m]
           /\ \A l, m \in 1..Len(order) :
                 l < m => output[order[l]].score >= output[order[m]].score
<1> DEFINE D == Detected(output)
<1>1. PICK n \in Nat : n = Cardinality(D)
  <2>1. Lesser(Len(output), MaxBoxes) \in Nat
    BY EngineAssumption DEF Lesser
  <2>2. D \subseteq 1..Lesser(Len(output), MaxBoxes)
    BY DEF Detected
  <2> HIDE DEF D
  <2>3. IsFiniteSet(D)
    <3>1. IsFiniteSet(1..Lesser(Len(output), MaxBoxes))
      BY <2>1, FS_Interval
    <3> QED BY <2>2, <3>1, FS_Subset
  <2> QED BY <2>3, FS_CardinalityType
<1> HIDE DEF D
<1>2. /\ order \in [1..n -> D] /\ {order[i] : i \in DOMAIN order} = D
      /\ \A i, j \in DOMAIN order : i < j => output[order[i]].score >= output[order[j]].score
  BY <1>1 DEF Sorted, D
<1>3. order \in Seq(D) /\ Len(order) = n /\ DOMAIN order = 1..n
  BY <1>2
<1> QED BY <1>2, <1>3 DEF D

(* What infer() makes of boxes is the best of them.                        *)
LEMMA NMSKeepsTheBest ==
    ASSUME output \in Seq(Anchors), NEW order \in Sorted(output, Detected(output)),
           NEW q, q = applyNMS(output, order)
    PROVE  LET K == {q[i] : i \in DOMAIN q}
           IN /\ \A i, j \in K : i # j => ~Suppresses(output[i].rect, output[j].rect)
              /\ \A i \in K : output[i].score > threshold_
              /\ \A i \in Detected(output) \ K :
                    \E j \in K : /\ output[j].score >= output[i].score
                                 /\ Suppresses(output[j].rect, output[i].rect)
<1> DEFINE D == Detected(output)
<1>1. /\ order \in Seq(D)
      /\ \A i \in D : \E m \in 1..Len(order) : i = order[m]
      /\ \A l, m \in 1..Len(order) : l < m => output[order[l]].score >= output[order[m]].score
  BY SortedIs
<1>2. \A i \in D : output[i].score > threshold_ /\ output[i].rect \in Rects
  <2>1. ASSUME NEW i \in D PROVE output[i] \in Anchors
    <3>1. i \in 1..Len(output)
      BY EngineAssumption DEF Detected, Lesser
    <3> QED BY <3>1
  <2> QED BY <2>1 DEF Detected, Anchors
<1> HIDE DEF D
<1>3. Len(order) \in 0..Len(order) /\ \A m \in 1..Len(order) : order[m] \in D
  BY <1>1
<1>4. q \in Seq(D) /\ KeptOf(q, output, order, Len(order))
  <2>1. Keeps(output, order) \in [0..Len(order) -> Seq(D)]
    BY <1>1, KeepsIs
  <2>2. KeptOf(Keeps(output, order)[Len(order)], output, order, Len(order))
    BY <1>1, <1>3, KeptSoFar
  <2> QED BY <1>3, <2>1, <2>2 DEF applyNMS
<1>5. /\ DOMAIN q \subseteq Nat /\ \A h \in DOMAIN q : q[h] \in D
  BY <1>4
<1>6. ASSUME NEW h \in DOMAIN q, NEW j \in DOMAIN q, q[h] # q[j]
      PROVE  ~Suppresses(output[q[h]].rect, output[q[j]].rect)
  <2>1. h < j \/ j < h
    BY <1>5, <1>6
  <2>2. /\ h < j => ~Suppresses(output[q[h]].rect, output[q[j]].rect)
        /\ j < h => ~Suppresses(output[q[j]].rect, output[q[h]].rect)
    BY <1>4 DEF KeptOf
  <2>3. output[q[h]].rect \in Rects /\ output[q[j]].rect \in Rects
    BY <1>2, <1>5
  <2> QED BY <2>1, <2>2, <2>3, SuppressesBoth
<1>7. ASSUME NEW i \in D, \A h \in DOMAIN q : q[h] # i
      PROVE  \E h \in DOMAIN q : /\ output[q[h]].score >= output[i].score
                                 /\ Suppresses(output[q[h]].rect, output[i].rect)
  <2>1. PICK m \in 1..Len(order) : i = order[m]
    BY <1>1
  <2>2. PICK h \in DOMAIN q, l \in 1..Len(order) :
            l < m /\ q[h] = order[l] /\ Suppresses(output[q[h]].rect, output[order[m]].rect)
    BY <1>4, <1>7, <2>1 DEF KeptOf
  <2> QED BY <1>1, <2>1, <2>2
<1> QED BY <1>2, <1>5, <1>6, <1>7 DEF D

(* Of the boxes it looks at the engine keeps no two that overlap by more   *)
(* than half, and drops one only for a better one that it keeps, whatever  *)
(* the order among equals and however many boxes there are; and a mask has *)
(* the shape of its image, unless another is a square (ONNXInference.cpp   *)
(* 307-387).                                                               *)
THEOREM TheBestAreKept == EngineSpec => []KeepsTheBest
<1> DEFINE I == output \in Seq(Anchors) /\ KeepsTheBest
<1>1. EngineInit => I
  <2> SUFFICES ASSUME EngineInit PROVE I
    OBVIOUS
  <2>1. output \in Seq(Anchors)
    <3>1. CASE modelType = "detection"
      <4>1. PICK n \in 0..MaxAnchors : output \in [1..n -> Anchors]
        BY <3>1 DEF EngineInit
      <4> QED BY <4>1, EngineAssumption
    <3>2. CASE modelType # "detection"
      BY <3>2 DEF EngineInit
    <3> QED BY <3>1, <3>2
  <2> QED BY <2>1 DEF EngineInit, KeepsTheBest
<1>2. I /\ [Infer]_engineVars => I'
  <2> SUFFICES ASSUME I, [Infer]_engineVars PROVE I'
    OBVIOUS
  <2>1. CASE UNCHANGED engineVars
    BY <2>1 DEF engineVars, KeepsTheBest, Detected
  <2>2. ASSUME Infer, modelType = "detection" PROVE I'
    <3>1. /\ UNCHANGED <<modelType, output, imageSize>>
          /\ \E order \in Sorted(output, Detected(output)) : result' = applyNMS(output, order)
      BY <2>2 DEF Infer
    <3>2. PICK order \in Sorted(output, Detected(output)) : result' = applyNMS(output, order)
      BY <3>1
    <3>3. LET K == {result'[i] : i \in DOMAIN result'}
          IN /\ \A i, j \in K : i # j => ~Suppresses(output[i].rect, output[j].rect)
             /\ \A i \in K : output[i].score > threshold_
             /\ \A i \in Detected(output) \ K :
                   \E j \in K : /\ output[j].score >= output[i].score
                                /\ Suppresses(output[j].rect, output[i].rect)
      BY <3>2, NMSKeepsTheBest
    <3> QED BY <2>2, <3>1, <3>3 DEF KeepsTheBest, Detected
  <2>3. CASE Infer /\ modelType = "segmentation"
    BY <2>3 DEF Infer, MaskShape, KeepsTheBest
  <2>4. CASE Infer /\ modelType = "none"
    BY <2>4 DEF Infer, KeepsTheBest
  <2> QED BY <2>1, <2>2, <2>3, <2>4 DEF Infer
<1>3. I => KeepsTheBest
  OBVIOUS
<1> HIDE DEF I
<1> QED BY <1>1, <1>2, <1>3, PTL DEF EngineSpec

-----------------------------------------------------------------------------
(* What a field's type writes is of a kind it accepts, and is converted    *)
(* back to the same value: a double holds every float, an int every level. *)
LEMMA RoundTrip ==
    ASSUME NEW t \in Types, NEW v \in TypeOf[t]
    PROVE  Accepts(t, ToJson(t, v)) /\ FromJson(t, ToJson(t, v)) = v
<1>1. t \in {"bool", "int", "level", "float", "double", "string"}
  BY DEF Types, TypeOf
<1>2. CASE t = "bool"
  BY <1>2 DEF Accepts, ToJson, FromJson
<1>3. CASE t = "int"
  BY <1>3 DEF Accepts, ToJson, FromJson, IsInt, AsInt, TypeOf
<1>4. CASE t = "level"
  <2>1. v \in 0..4
    BY <1>4 DEF TypeOf
  <2>2. v \in Ints
    BY <2>1, FieldsAssumption DEF Ints
  <2> QED BY <1>4, <2>1, <2>2 DEF Accepts, ToJson, FromJson, IsInt, AsInt
<1>5. CASE t = "float"
  <2>1. v \in Int /\ (2 * v) \div 2 = v
    BY <1>5 DEF TypeOf
  <2>2. ToJson(t, v) = <<"real", 2 * v>>
    BY <1>5 DEF ToJson
  <2> QED BY <1>5, <2>1, <2>2 DEF Accepts, FromJson, AsDouble
<1>6. CASE t = "double"
  BY <1>6 DEF Accepts, ToJson, FromJson, AsDouble
<1>7. CASE t = "string"
  BY <1>7 DEF Accepts, ToJson, FromJson
<1> QED BY <1>1, <1>2, <1>3, <1>4, <1>5, <1>6, <1>7

(* What is accepted from any document is converted to a value of the type. *)
LEMMA KeepsItsType ==
    ASSUME NEW t \in Types, NEW j \in Json, Accepts(t, j)
    PROVE  FromJson(t, j) \in TypeOf[t]
<1>1. t \in {"bool", "int", "level", "float", "double", "string"}
  BY DEF Types, TypeOf
<1>2. CASE t = "bool"
  BY <1>2 DEF Accepts, FromJson, TypeOf, Json
<1>3. CASE t = "int"
  BY <1>3 DEF Accepts, FromJson, TypeOf, IsInt, AsInt
<1>4. CASE t = "level"
  BY <1>4 DEF Accepts, FromJson, TypeOf
<1>5. CASE t \in {"float", "double"}
  <2>1. j[1] \in {"int", "real"}
    BY <1>5 DEF Accepts
  <2>2. j[2] \in Int
    BY <2>1 DEF Json
  <2>3. AsDouble(j) \in Int
    BY <2>2 DEF AsDouble
  <2> QED BY <1>5, <2>3 DEF FromJson, TypeOf
<1>6. CASE t = "string"
  BY <1>6 DEF Accepts, FromJson, TypeOf, Json
<1> QED BY <1>1, <1>2, <1>3, <1>4, <1>5, <1>6

(* The file that was written is the configuration of that time, key by     *)
(* key, if it is one at all.                                               *)
AsSaved == \/ saved = Unreadable
           \/ /\ saved.root = TRUE /\ saved.wrong = {} /\ DOMAIN saved.member = ParsedFields
              /\ \A f \in ParsedFields : /\ atSave[f] \in TypeOf[Type[f]]
                                         /\ saved.member[f] = ToJson(Type[f], atSave[f])

(* A load changes fields that exist, to values of their types.             *)
LEMMA LoadHolds ==
    ASSUME ConfigTypeOK, NEW doc, NEW ours, loadFromFile(doc, ours),
           \A f \in Stored(doc) :
               f \in Fields => FromJson(Type[f], doc.member[f]) \in TypeOf[Type[f]]
    PROVE  ConfigTypeOK'
BY DEF loadFromFile, ConfigTypeOK

(* The file that was saved is refused and stores nothing, or it has an     *)
(* object for every section and a value for every key, and so brings all   *)
(* of them back.                                                           *)
LEMMA LoadRestores ==
    ASSUME ConfigTypeOK, AsSaved, loadFromFile(saved, TRUE)
    PROVE  ConfigTypeOK' /\ SavedIsRestored'
<1>1. ASSUME NEW f \in ParsedFields, saved # Unreadable
      PROVE  /\ f \in Fields /\ Type[f] \in Types
             /\ Accepts(Type[f], saved.member[f])
             /\ FromJson(Type[f], saved.member[f]) = atSave[f]
             /\ atSave[f] \in TypeOf[Type[f]]
  <2>1. f \in Fields /\ Type[f] \in Types
    BY FieldsAssumption DEF ParsedFields
  <2>2. atSave[f] \in TypeOf[Type[f]] /\ saved.member[f] = ToJson(Type[f], atSave[f])
    BY <1>1 DEF AsSaved
  <2> QED BY <2>1, <2>2, RoundTrip
<1>2. CASE saved = Unreadable
  <2>1. Stored(saved) = {} /\ saved.root = FALSE
    BY <1>2 DEF Stored, Unreadable
  <2>2. loaded' = "refused" /\ before' = config
    BY <2>1 DEF loadFromFile
  <2>3. config' = [f \in Fields |-> config[f]]
    BY <2>1 DEF loadFromFile
  <2>4. DOMAIN config = Fields /\ \A f \in Fields : config[f] \in TypeOf[Type[f]]
    BY DEF ConfigTypeOK
  <2> QED BY <2>2, <2>3, <2>4 DEF ConfigTypeOK, SavedIsRestored
<1>3. CASE saved # Unreadable
  <2>1. /\ saved.root = TRUE /\ saved.wrong = {}
        /\ DOMAIN saved.member = ParsedFields
    BY <1>3 DEF AsSaved
  <2>2. ASSUME NEW f \in ParsedFields PROVE f \in Stored(saved)
    <3>1. PICK i \in DOMAIN Parsed : Parsed[i] = Section[f]
      BY DEF ParsedFields, ParsedSet
    <3> QED BY <1>1, <1>3, <2>1, <3>1 DEF Stored
  <2>3. Stored(saved) \subseteq ParsedFields
    BY <2>1 DEF Stored
  <2>4. loaded' = "whole" /\ UNCHANGED <<saved, atSave>>
    BY <2>1 DEF loadFromFile
  <2>5. \A f \in ParsedFields : config'[f] = atSave[f]
    BY <1>1, <1>3, <2>2 DEF loadFromFile
  <2>6. ConfigTypeOK'
    BY <1>1, <1>3, <2>3, LoadHolds
  <2> QED BY <2>4, <2>5, <2>6 DEF SavedIsRestored
<1> QED BY <1>2, <1>3

(* What saveToFile() leaves on the disk is loaded entirely or not at all:  *)
(* from any configuration, after any calls, half loaded documents among    *)
(* them; and no document leaves a field with a value that is not of its    *)
(* type (ConfigParser.cpp 7-62, 64-97, 178-430).                           *)
THEOREM RestoresSaved == ConfigSpec => [](ConfigTypeOK /\ SavedIsRestored)
<1> DEFINE I == ConfigTypeOK /\ AsSaved /\ SavedIsRestored
<1>1. ConfigInit => I
  BY FieldsAssumption DEF ConfigInit, ConfigTypeOK, AsSaved, SavedIsRestored
<1>2. I /\ [ConfigNext]_configVars => I'
  <2> SUFFICES ASSUME ConfigTypeOK, AsSaved, SavedIsRestored, [ConfigNext]_configVars
               PROVE  I'
    OBVIOUS
  <2>1. ASSUME NEW f \in Fields, NEW v \in Values[f], Assign(f, v) PROVE I'
    <3>1. v \in TypeOf[Type[f]]
      BY FieldsAssumption
    <3>2. ConfigTypeOK'
      BY <2>1, <3>1 DEF Assign, ConfigTypeOK
    <3> QED BY <2>1, <3>2 DEF Assign, AsSaved, SavedIsRestored
  <2>2. CASE resetToDefaults
    <3>1. ConfigTypeOK'
      BY <2>2, FieldsAssumption DEF resetToDefaults, ConfigTypeOK, ParsedFields
    <3> QED BY <2>2, <3>1 DEF resetToDefaults, AsSaved, SavedIsRestored
  <2>3. CASE saveToFile
    <3>1. ConfigTypeOK' /\ SavedIsRestored'
      BY <2>3 DEF saveToFile, ConfigTypeOK, SavedIsRestored
    <3>2. CASE UNCHANGED <<saved, atSave>>
      BY <3>1, <3>2 DEF AsSaved
    <3>3. CASE saved' = Unreadable
      BY <3>1, <3>3 DEF AsSaved, Unreadable
    <3>4. CASE saved' = Written /\ atSave' = config
      <4>1. /\ saved'.root = TRUE /\ saved'.wrong = {}
            /\ saved'.member = [f \in ParsedFields |-> ToJson(Type[f], config[f])]
        BY <3>4 DEF Written
      <4>2. \A f \in ParsedFields : config[f] \in TypeOf[Type[f]]
        BY DEF ConfigTypeOK, ParsedFields
      <4> QED BY <3>1, <3>4, <4>1, <4>2 DEF AsSaved
    <3> QED BY <2>3, <3>2, <3>3, <3>4 DEF saveToFile
  <2>4. CASE loadFromFile(saved, TRUE)
    <3>1. ConfigTypeOK' /\ SavedIsRestored'
      BY <2>4, LoadRestores
    <3> QED BY <2>4, <3>1 DEF loadFromFile, AsSaved
  <2>5. ASSUME NEW doc \in Documents, loadFromFile(doc, FALSE) PROVE I'
    <3>1. ASSUME NEW f \in Stored(doc), f \in Fields
          PROVE  FromJson(Type[f], doc.member[f]) \in TypeOf[Type[f]]
      <4>1. Type[f] \in Types /\ doc.member[f] \in Json
        BY <3>1, FieldsAssumption DEF Stored, IsDocument
      <4>2. Accepts(Type[f], doc.member[f])
        BY DEF Stored
      <4> QED BY <4>1, <4>2, KeepsItsType
    <3>2. ConfigTypeOK'
      BY <2>5, <3>1, LoadHolds
    <3>3. loaded' = "none" /\ UNCHANGED <<saved, atSave>>
      BY <2>5 DEF loadFromFile
    <3> QED BY <3>2, <3>3 DEF AsSaved, SavedIsRestored
  <2>6. CASE UNCHANGED configVars
    BY <2>6 DEF configVars, ConfigTypeOK, AsSaved, SavedIsRestored
  <2> QED BY <2>1, <2>2, <2>3, <2>4, <2>5, <2>6 DEF ConfigNext
<1>3. I => ConfigTypeOK /\ SavedIsRestored
  OBVIOUS
<1> HIDE DEF I
<1> QED BY <1>1, <1>2, <1>3, PTL DEF ConfigSpec

-----------------------------------------------------------------------------
(* A picture is one that was pushed, wherever it is on its way through the *)
(* window's threads, and nobody is where there is nothing to do.           *)
LEMMA WindowTypesKept ==
    Window!WindowTypeOK /\ [Window!Next]_(Window!vars) => Window!WindowTypeOK'
<1> SUFFICES ASSUME Window!WindowTypeOK, [Window!Next]_(Window!vars)
             PROVE  Window!WindowTypeOK'
  OBVIOUS
<1> USE WindowAssumption DEF Window!WindowTypeOK, Window!Pictures, Window!NoSignal,
        Window!procVars, Window!mainVars, Window!receiverVars, Window!Woken, Window!InUse
<1>1. CASE Window!ProcNext
  BY <1>1 DEF Window!ProcNext, Window!ProcTest, Window!ProcWait, Window!ProcCopy,
              Window!ProcRender
<1>2. CASE Window!SpuriousWake
  BY <1>2 DEF Window!SpuriousWake
<1>3. CASE Window!ReceiverGoesOn
  <2>1. CASE Window!HideNoSignalFrame
    <3>1. showingNoSignal' \in BOOLEAN
      BY <2>1 DEF Window!HideNoSignalFrame
    <3> QED BY <1>3, <2>1, <3>1 DEF Window!ReceiverGoesOn, Window!HideNoSignalFrame
  <2>2. CASE Window!NoSignalShown
    <3>1. renderMat' \in 0..MaxPushes
      BY <2>2 DEF Window!NoSignalShown
    <3> QED BY <1>3, <2>2, <3>1 DEF Window!ReceiverGoesOn, Window!NoSignalShown
  <2> QED BY <1>3, <2>1, <2>2 DEF Window!ReceiverGoesOn
<1>4. CASE Window!ReceiverCalls
  <2>1. CASE Window!PushFramesToView
    <3>1. srcFrameGroups' \in 0..MaxPushes
      BY <2>1 DEF Window!PushFramesToView
    <3> QED BY <1>4, <2>1, <3>1 DEF Window!ReceiverCalls, Window!PushFramesToView
  <2>2. CASE Window!ShowNoSignalFrame
    <3>1. showingNoSignal' \in BOOLEAN /\ shows' \in 0..MaxShows
      BY <2>2 DEF Window!ShowNoSignalFrame
    <3> QED BY <1>4, <2>2, <3>1 DEF Window!ReceiverCalls, Window!ShowNoSignalFrame
  <2> QED BY <1>4, <2>1, <2>2 DEF Window!ReceiverCalls
<1>5. CASE Window!MainTicks \/ Window!MainPolls \/ Window!MainShows
  BY <1>5 DEF Window!MainTicks, Window!MainPolls, Window!MainShows, Window!MainRest,
              Window!SecondOver, Window!Polls, Window!RemakeNoSignal, Window!RemakeAs,
              Window!UpdateWindow
<1>6. CASE Window!Escape
  BY <1>6 DEF Window!Escape
<1>7. CASE Window!Close
  BY <1>7 DEF Window!Close
<1>8. CASE Window!Joined
  BY <1>8 DEF Window!Joined
<1>9. CASE UNCHANGED Window!vars
  BY <1>9 DEF Window!vars
<1> QED BY <1>1, <1>2, <1>3, <1>4, <1>5, <1>6, <1>7, <1>8, <1>9 DEF Window!Next

(* The components share no state: what the run takes together is what each *)
(* of them does, while the others wait, so that every theorem about one of *)
(* them is one about the run.                                              *)
THEOREM EachByItself ==
    FairSpec => /\ ReceiverSpec /\ TasksSpec /\ Window!Spec
                /\ RemoteSpec /\ EngineSpec /\ ConfigSpec
<1>1. Init => /\ ReceiverInit /\ TasksInit /\ Window!Init
              /\ RemoteInit /\ EngineInit /\ ConfigInit
  BY DEF Init
<1>2. [Next]_allVars =>
          /\ [ReceiverNext]_receiverVars /\ [TasksNext]_tasksVars
          /\ [Window!Next]_(Window!vars) /\ [RemoteNext]_remoteVars
          /\ [Infer]_engineVars /\ [ConfigNext]_configVars
  <2> SUFFICES ASSUME [Next]_allVars
               PROVE  /\ [ReceiverNext]_receiverVars /\ [TasksNext]_tasksVars
                      /\ [Window!Next]_(Window!vars) /\ [RemoteNext]_remoteVars
                      /\ [Infer]_engineVars /\ [ConfigNext]_configVars
    OBVIOUS
  <2>1. UNCHANGED windowV <=> UNCHANGED Window!vars
    BY DEF windowV, Window!vars, Window!procVars, Window!mainVars, Window!receiverVars
  <2>2. CASE UNCHANGED allVars
    BY <2>1, <2>2 DEF allVars
  <2> QED BY <2>1, <2>2 DEF Next, InWindow, InRemote, NotReceiver, NotTasks, NotWindow,
                            NotRemote, NotEngine, NotConfig
<1> QED BY <1>1, <1>2, PTL DEF FairSpec, ReceiverSpec, TasksSpec, Window!Spec, RemoteSpec,
                               EngineSpec, ConfigSpec

(* Every component of the run has its types, at every step.                *)
THEOREM ComponentsTyped == FairSpec => []TypeOK
<1>1. Window!Init => Window!WindowTypeOK
  <2>1. 0 \in 0..MaxPushes /\ 0 \in 0..MaxShows /\ 0 \in 0..MaxSpurious
    BY WindowAssumption
  <2> QED BY <2>1 DEF Window!Init, Window!WindowTypeOK, Window!Pictures, Window!NoSignal
<1>2. Window!Spec => []Window!WindowTypeOK
  BY <1>1, WindowTypesKept, PTL DEF Window!Spec
<1>3. (/\ ReceiverTypeOK /\ TasksTypeOK /\ Window!WindowTypeOK
       /\ RemoteTypeOK /\ ConfigTypeOK) => TypeOK
  BY DEF TypeOK
<1> QED BY <1>2, <1>3, EachByItself, ReceiverTyped, TasksTyped, RemoteTyped,
           RestoresSaved, PTL

(* What the run checks of the components on one small instance of each     *)
(* holds for all of them: cameras stream only as asked, and when asked;    *)
(* pictures show their colors, the backlog grows slowly, and the pool is   *)
(* used as it may be; the pipes are a link; the engine keeps the best; and *)
(* a saved configuration comes back (ImageReceiver.cpp, DumpHelper.cpp,    *)
(* FifoComm.cpp, ONNXInference.cpp, ConfigParser.cpp).                     *)
THEOREM ComponentsAreRight ==
    FairSpec => /\ [](StreamsOnlyAsAsked /\ CameraStreams)
                /\ [](ColorsAreRight /\ BacklogGrowsSlowly) /\ UsesTaskPool
                /\ [](KeepsTheBest /\ SavedIsRestored)
                /\ RefinesRemoteLink
BY EachByItself, OnlyAsAsked, RunningStreams, ColorsRight, GrowsSlowly, ReceiverUsesPool,
   TheBestAreKept, RestoresSaved, PipesAreALink, PTL
=============================================================================
