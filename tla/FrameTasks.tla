----------------------------- MODULE FrameTasks -----------------------------
(***************************************************************************)
(* How core/ImageReceiver.cpp has its frames processed: frame set by frame *)
(* set, in the SDK's thread (processFrameSetSerial) or as tasks of a pool, *)
(* whose futures it keeps (processFrameSetParallel, cleanupCompletedTasks). *)
(* Each frame goes through DumpHelper; the thread pool is TaskPool's.      *)
(***************************************************************************)
EXTENDS FrameDump, Sequences, FiniteSets

CONSTANTS Workers,          \* the pool's threads
          SetTypes,         \* the types of the frames of a set, in its order
          maxQueuedTasks,   \* parallelConfig
          MaxSets           \* bound: frame sets

(* The SDK's thread is none of the pool's; a set has frames, one of a type *)
(* (frameMap_ is indexed by it, ImageReceiver.cpp 408).                    *)
ASSUME TasksAssumption == /\ Workers \subseteq Threads /\ \E t \in Threads : t \notin Workers
                          /\ SetTypes \in Seq(STRING) /\ SetTypes # <<>>
                          /\ \A i, j \in DOMAIN SetTypes : SetTypes[i] = SetTypes[j] => i = j
                          /\ maxQueuedTasks \in Nat /\ MaxSets \in Nat

Sdk == CHOOSE t \in Threads : t \notin Workers
FramesPerSet == Len(SetTypes)

VARIABLES
    parallel,     \* enableParallelProcessing_
    sets, next,   \* the frame set at hand, and the next of its frames
    feeder,       \* where the SDK's thread is
    pool,         \* the pool's queue
    futures,      \* frameFutures_: the frames of the tasks
    over          \* history: the frames processed

tasksVars == <<dumpVars, parallel, sets, next, feeder, pool, futures, over>>

TasksInit == /\ DumpInit
             /\ parallel \in BOOLEAN
             /\ sets = 0 /\ next = 1 /\ feeder = "idle"
             /\ pool = <<>> /\ futures = <<>> /\ over = {}

Frame(n) == [index |-> sets, type |-> SetTypes[n]]

(* Of each beginning of s, what is not over.                               *)
NotIn(s, ready) == LET rest[n \in 0..Len(s)] == IF n = 0 THEN <<>>
                                               ELSE IF s[n] \in ready THEN rest[n - 1]
                                               ELSE Append(rest[n - 1], s[n])
                   IN rest
Unfinished(s) == NotIn(s, over)[Len(s)]

(* Mutant: with too many futures, nobody waits.                            *)
FrameSetArrivesAnyway ==
    /\ feeder = "idle" /\ sets < MaxSets
    /\ sets' = sets + 1 /\ next' = 1
    /\ futures' = Unfinished(futures)
    /\ feeder' = "submit"
    /\ UNCHANGED <<dumpVars, parallel, pool, over>>

(* A frame set arrives.  cleanupCompletedTasks() drops the futures that    *)
(* are ready; if there are still too many, it waits for the first.         *)
FrameSetArrives ==
    /\ feeder = "idle" /\ sets < MaxSets
    /\ sets' = sets + 1 /\ next' = 1
    /\ futures' = Unfinished(futures)
    /\ feeder' = IF parallel /\ Len(futures') > maxQueuedTasks THEN "wait" ELSE "submit"
    /\ UNCHANGED <<dumpVars, parallel, pool, over>>

FirstIsReady ==
    /\ feeder = "wait" /\ Head(futures) \in over
    /\ feeder' = "submit"
    /\ UNCHANGED <<dumpVars, parallel, sets, next, pool, futures, over>>

NextFrame == IF next < FramesPerSet THEN next' = next + 1 /\ feeder' = "submit"
             ELSE next' = 1 /\ feeder' = "idle"

Submit ==
    /\ feeder = "submit" /\ parallel
    /\ pool' = Append(pool, Frame(next))
    /\ futures' = Append(futures, Frame(next))
    /\ NextFrame
    /\ UNCHANGED <<dumpVars, parallel, sets, over>>

ProcessSerially ==
    /\ feeder = "submit" /\ ~parallel
    /\ Begin(Sdk, Frame(next))
    /\ feeder' = "process"
    /\ UNCHANGED <<parallel, sets, next, pool, futures, over>>

Take(w) ==
    /\ w \in Workers /\ pool # <<>>
    /\ Begin(w, Head(pool))
    /\ pool' = Tail(pool)
    /\ UNCHANGED <<parallel, sets, next, feeder, futures, over>>

Finish(t) ==
    /\ End(t)
    /\ over' = over \cup {job[t]}
    /\ IF t = Sdk THEN NextFrame ELSE UNCHANGED <<next, feeder>>
    /\ UNCHANGED <<parallel, sets, pool, futures>>

Works(t) == \/ DumpNext(t) /\ UNCHANGED <<parallel, sets, next, feeder, pool, futures, over>>
            \/ Take(t) \/ Finish(t)

TasksNext == \/ FrameSetArrives \/ FirstIsReady \/ Submit \/ ProcessSerially
             \/ \E t \in Threads : Works(t)

TasksSpec == TasksInit /\ [][TasksNext]_tasksVars

-----------------------------------------------------------------------------
(* The pool as TaskPool has it.  Without parallel processing nobody is     *)
(* given to it; it is open as long as the receiver is there.               *)
SetFrames == [index : 1..MaxSets, type : {SetTypes[n] : n \in 1..FramesPerSet}]

Pool == INSTANCE TaskPool WITH
            Tasks <- SetFrames, NoTask <- NoFrame,
            queue <- pool, running <- [w \in Workers |-> job[w]],
            done <- IF parallel THEN over ELSE {}, phase <- "open"

(* The receiver and the threads of its pool do what TaskPool allows: no    *)
(* frame is given to the pool twice, each is processed by one thread, and  *)
(* in the order of the sets (ImageReceiver.cpp 381-456).                   *)
UsesTaskPool == Pool!Spec

TasksTypeOK ==
    /\ DumpTypeOK
    /\ parallel \in BOOLEAN /\ sets \in 0..MaxSets /\ next \in 1..FramesPerSet
    /\ feeder \in {"idle", "wait", "submit", "process"}
    /\ (~parallel => pool = <<>> /\ futures = <<>>)

(* What waits for a pool thread stays near maxQueuedTasks only if a set    *)
(* has one frame: past the limit a set waits for one task and adds its own *)
(* (ImageReceiver.cpp 485-491), so that the backlog grows by all but one   *)
(* of them with each set, however long the pool takes.                     *)
BacklogGrowsSlowly ==
    feeder = "idle" /\ sets > 0 =>
        Len(Unfinished(futures)) <= maxQueuedTasks + FramesPerSet + (sets - 1) * (FramesPerSet - 1)
=============================================================================
