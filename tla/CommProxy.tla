----------------------------- MODULE CommProxy ------------------------------
(***************************************************************************)
(* com/CommunicationProxy.cpp with the callbacks PerceptionSystem gives    *)
(* it: the receiving thread, the workers of its pool (TaskPool), one       *)
(* callbackMutex_ around every callback, the connection state with its     *)
(* waiters, and stop(), which the main thread calls when the program ends  *)
(* and a worker calls when it handles a SHUTDOWN command.                  *)
(*                                                                         *)
(* Messages are numbered in the order the peer writes them.  Their content *)
(* is abstracted to what the proxy and the callbacks tell apart (Kinds),   *)
(* and chosen when the line is read: nobody sees it sooner.                *)
(***************************************************************************)
EXTENDS Naturals, Sequences, FiniteSets

CONSTANTS MaxMsgs,    \* bound: lines the peer writes and the receiver reads
          MaxBatch,   \* MAX_MESSAGES_PER_BATCH
          NumWorkers  \* DEFAULT_THREAD_POOL_SIZE

ASSUME BoundsAssumption == /\ MaxMsgs \in Nat
                           /\ MaxBatch \in Nat \ {0}
                           /\ NumWorkers \in Nat \ {0}

Msgs == 1..MaxMsgs
Workers == 1..NumWorkers    \* in the order ~ThreadPool joins them
NoMsg == 0
Nobody == 0
Receiver == NumWorkers + 1
Main == NumWorkers + 2
StopCallers == {Main} \cup Workers
Threads == StopCallers \cup {Receiver}

(* HEARTBEAT is the only type deserialize() gives HIGH priority; a line    *)
(* whose type is not a number makes std::stoi throw; SHUTDOWN is the       *)
(* command whose callback calls stop().                                    *)
Kinds == {"heartbeat", "command", "shutdown", "malformed"}

VARIABLES
    kind,        \* the kind of each line read so far
    got,         \* how many there are
    pipeOpen,    \* commImpl_->isConnected(), readFd_ and writeFd_ valid
    isRunning,   \* isRunning_
    connState,   \* connectionState_
    owing,       \* threads inside setConnectionState, between store and notify
    batch,       \* messagesProcessedInBatch
    rpc,         \* the receiving thread's program counter
    queue, running, done, phase,   \* threadPool_
    cbOwner,     \* who holds callbackMutex_
    spc,         \* stop(): program counter of each possible caller
    waiter,      \* a thread in waitForConnection(timeout)
    aborted      \* std::terminate was called

connVars == <<connState, owing>>
recvVars == <<kind, got, batch, rpc>>
poolVars == <<queue, running, done, phase>>
stopVars == <<isRunning, pipeOpen, spc>>
vars == <<connVars, recvVars, poolVars, cbOwner, stopVars, waiter, aborted>>

Pool == INSTANCE TaskPool WITH Tasks <- Msgs, NoTask <- NoMsg

-----------------------------------------------------------------------------
(* The state start() leaves behind: the server's pipes are open, and       *)
(* initialize() has set CONNECTING.                                        *)
Init == /\ kind = [m \in Msgs |-> "command"]
        /\ got = 0
        /\ pipeOpen = TRUE
        /\ isRunning = TRUE
        /\ connState = "CONNECTING"
        /\ owing = {}
        /\ batch = 0
        /\ rpc = "top"
        /\ Pool!Init
        /\ cbOwner = Nobody
        /\ spc = [a \in StopCallers |-> "idle"]
        /\ waiter = "out"
        /\ aborted = FALSE

-----------------------------------------------------------------------------
(* setConnectionState() by thread th: the store, then notify_all under     *)
(* connectionMutex_ in a second step.  The registered callback only logs.  *)
SetConnection(th, s) ==
    /\ connState' = s
    /\ owing' = IF s = connState THEN owing ELSE owing \cup {th}

Wake(w) == IF w = "parked" THEN "awake" ELSE w

NotifyConnection(th) ==
    /\ th \in owing
    /\ owing' = owing \ {th}
    /\ waiter' = Wake(waiter)
    /\ UNCHANGED <<connState, recvVars, poolVars, cbOwner, stopVars, aborted>>

(* waitForConnection(), called any number of times, with a timeout or not. *)
WaitIsOver == connState = "CONNECTED" \/ ~isRunning

WaitForConnection ==
    /\ waiter # "parked"
    /\ waiter' = IF WaitIsOver THEN "out" ELSE "parked"
    /\ UNCHANGED <<connVars, recvVars, poolVars, cbOwner, stopVars, aborted>>

WaitTimesOut ==
    /\ waiter = "parked"
    /\ waiter' = "out"
    /\ UNCHANGED <<connVars, recvVars, poolVars, cbOwner, stopVars, aborted>>

-----------------------------------------------------------------------------
(* messageReceivingThread().                                               *)
RecvAt(l) == rpc = l /\ Receiver \notin owing

RecvTop == /\ RecvAt("top")
           /\ rpc' = IF isRunning THEN "poll" ELSE "exit"
           /\ batch' = 0
           /\ UNCHANGED <<kind, got, connVars, poolVars, cbOwner, stopVars, waiter, aborted>>

(* Mutant: the batch limit is off by one.                                  *)
RecvPastBatch(k) ==
            /\ RecvAt("poll")
            /\ isRunning /\ batch <= MaxBatch
            /\ pipeOpen /\ got < MaxMsgs
            /\ got' = got + 1
            /\ kind' = [kind EXCEPT ![got + 1] = k]
            /\ batch' = batch + 1
            /\ rpc' = "dispatch"
            /\ IF got > 0 THEN UNCHANGED connVars ELSE SetConnection(Receiver, "CONNECTED")
            /\ UNCHANGED <<poolVars, cbOwner, stopVars, waiter, aborted>>

(* receiveMessage() finds a whole line; the first one                      *)
(* (firstMessageReceived) means CONNECTED.                                 *)
RecvLine(k) ==
            /\ RecvAt("poll")
            /\ isRunning /\ batch < MaxBatch
            /\ pipeOpen /\ got < MaxMsgs
            /\ got' = got + 1
            /\ kind' = [kind EXCEPT ![got + 1] = k]
            /\ batch' = batch + 1
            /\ rpc' = "dispatch"
            /\ IF got > 0 THEN UNCHANGED connVars ELSE SetConnection(Receiver, "CONNECTED")
            /\ UNCHANGED <<poolVars, cbOwner, stopVars, waiter, aborted>>

(* No whole line in the pipe, a full batch, or stop().                     *)
RecvNothing == /\ RecvAt("poll")
               /\ rpc' = "check"
               /\ UNCHANGED <<kind, got, batch, connVars, poolVars, cbOwner,
                              stopVars, waiter, aborted>>

(* HIGH priority is handled here and now, the rest by the pool; the        *)
(* exception of a malformed line ends the batch.                           *)
Dispatch ==
    /\ RecvAt("dispatch")
    /\ \/ /\ kind[got] = "heartbeat"
          /\ rpc' = "callback"
          /\ UNCHANGED <<poolVars, connVars>>
       \/ /\ kind[got] \in {"command", "shutdown"}
          /\ Pool!Submit(got)
          /\ rpc' = "poll"
          /\ UNCHANGED connVars
       \/ /\ kind[got] = "malformed"
          /\ SetConnection(Receiver, "DISCONNECTED")
          /\ rpc' = "top"
          /\ UNCHANGED poolVars
    /\ UNCHANGED <<kind, got, batch, cbOwner, stopVars, waiter, aborted>>

(* After each batch the state is overwritten with what the pipe said a     *)
(* moment ago, whatever a failed send or a stop() has stored since.        *)
RecvCheck == /\ RecvAt("check")
             /\ rpc' = IF pipeOpen THEN "up" ELSE "down"
             /\ UNCHANGED <<kind, got, batch, connVars, poolVars, cbOwner, stopVars, waiter, aborted>>

RecvStore == /\ RecvAt("up") \/ RecvAt("down")
             /\ SetConnection(Receiver, IF rpc = "up" THEN "CONNECTED" ELSE "DISCONNECTED")
             /\ rpc' = "top"
             /\ UNCHANGED <<kind, got, batch, poolVars, cbOwner, stopVars, waiter, aborted>>

-----------------------------------------------------------------------------
(* processReceivedMessage(), by the receiver or by a worker: callbackMutex_ *)
(* is held for as long as the callback runs.                               *)
(* Mutant: a worker takes the newest message of the pool's queue.          *)
TakesNewest(w) == /\ phase # "closed"
                  /\ running[w] = NoMsg
                  /\ queue # <<>>
                  /\ running' = [running EXCEPT ![w] = queue[Len(queue)]]
                  /\ queue' = SubSeq(queue, 1, Len(queue) - 1)
                  /\ UNCHANGED <<done, phase>>
                  /\ UNCHANGED <<connVars, recvVars, cbOwner, stopVars, waiter, aborted>>

InHand(th) == IF th = Receiver
              THEN IF rpc = "callback" THEN got ELSE NoMsg
              ELSE running[th]

WorkerTakes(w) == /\ Pool!Take(w)
                  /\ UNCHANGED <<connVars, recvVars, cbOwner, stopVars, waiter, aborted>>

HandlesShutdown(th) == InHand(th) # NoMsg /\ kind[InHand(th)] = "shutdown"

StopGoes(a, l) == spc' = [spc EXCEPT ![a] = l]

(* The callback of a heartbeat or of a plain command answers the peer with *)
(* sendMessage(), which does nothing unless running and CONNECTED, and     *)
(* sets DISCONNECTED when the write fails.                                 *)
SendMessage(th) == \/ UNCHANGED connVars
                   \/ /\ isRunning /\ connState = "CONNECTED"
                      /\ SetConnection(th, "DISCONNECTED")

EnterCallback(th) == /\ InHand(th) # NoMsg
                     /\ cbOwner = Nobody
                     /\ cbOwner' = th
                     /\ IF HandlesShutdown(th) THEN UNCHANGED connVars ELSE SendMessage(th)
                     /\ UNCHANGED <<recvVars, poolVars, stopVars, waiter, aborted>>

CallbackOver(th) == /\ cbOwner = th /\ th \notin owing
                    /\ InHand(th) # NoMsg
                    /\ HandlesShutdown(th) => spc[th] = "returned"

(* Mutant: a worker keeps the callback's lock.                             *)
LeaveLocked(th) ==
    /\ CallbackOver(th)
    /\ \/ /\ th = Receiver
          /\ cbOwner' = Nobody
          /\ rpc' = "poll"
          /\ UNCHANGED <<poolVars, spc>>
       \/ /\ th \in Workers
          /\ Pool!Finish(th)
          /\ StopGoes(th, "idle")
          /\ UNCHANGED <<cbOwner, rpc>>
    /\ UNCHANGED <<kind, got, batch, connVars, isRunning, pipeOpen, waiter, aborted>>

LeaveCallback(th) ==
    /\ CallbackOver(th)
    /\ cbOwner' = Nobody
    /\ \/ /\ th = Receiver
          /\ rpc' = "poll"
          /\ UNCHANGED <<poolVars, spc>>
       \/ /\ th \in Workers
          /\ Pool!Finish(th)
          /\ StopGoes(th, "idle")
          /\ UNCHANGED rpc
    /\ UNCHANGED <<kind, got, batch, connVars, isRunning, pipeOpen, waiter, aborted>>

-----------------------------------------------------------------------------
(* stop(), by the main thread when the program ends, or by a worker from   *)
(* inside the SHUTDOWN callback.  PerceptionSystem turns a SHUTDOWN it has *)
(* no use for away before it reaches the proxy.                            *)
StopAt(a, l) == spc[a] = l /\ a \notin owing

StopCalled(a) ==
    /\ spc[a] = "idle"
    /\ a \in Workers => cbOwner = a /\ HandlesShutdown(a)
    /\ \/ isRunning /\ StopGoes(a, "flag")
       \/ (~isRunning \/ a \in Workers) /\ StopGoes(a, "returned")
    /\ UNCHANGED <<isRunning, pipeOpen, connVars, recvVars, poolVars, cbOwner, waiter, aborted>>

StopFlag(a) == /\ StopAt(a, "flag")
               /\ isRunning' = FALSE
               /\ StopGoes(a, "notify")
               /\ UNCHANGED <<pipeOpen, connVars, recvVars, poolVars, cbOwner, waiter, aborted>>

(* Mutant: stop() forgets the waiters.                                     *)
StopUnnoticed(a) == /\ StopAt(a, "notify")
                    /\ StopGoes(a, "join")
                    /\ UNCHANGED <<isRunning, pipeOpen, connVars, recvVars, poolVars, cbOwner,
                                   waiter, aborted>>

StopNotify(a) == /\ StopAt(a, "notify")
                 /\ waiter' = Wake(waiter)
                 /\ StopGoes(a, "join")
                 /\ UNCHANGED <<isRunning, pipeOpen, connVars, recvVars, poolVars, cbOwner, aborted>>

(* Mutant: stop() does not wait for the receiving thread.                  *)
StopDetaches(a) == /\ StopAt(a, "join")
                   /\ StopGoes(a, "reset")
                   /\ UNCHANGED <<isRunning, pipeOpen, connVars, recvVars, poolVars, cbOwner,
                                  waiter, aborted>>

StopJoin(a) == /\ StopAt(a, "join")
               /\ rpc = "exit"
               /\ StopGoes(a, "reset")
               /\ UNCHANGED <<isRunning, pipeOpen, connVars, recvVars, poolVars, cbOwner, waiter, aborted>>

(* A second join() of a thread somebody else is joining throws             *)
(* system_error.  In a worker processReceivedMessage catches it; the main  *)
(* thread leaves through main()'s handler to the static destructors, where *)
(* ~thread finds receivingThread_ joinable and terminates the program.     *)
StopJoinTwice(a) ==
    /\ StopAt(a, "join")
    /\ rpc # "exit"
    /\ \E b \in StopCallers \ {a} : spc[b] = "join"
    /\ IF a = Main THEN aborted' = TRUE /\ UNCHANGED spc
                   ELSE StopGoes(a, "returned") /\ UNCHANGED aborted
    /\ UNCHANGED <<isRunning, pipeOpen, connVars, recvVars, poolVars, cbOwner, waiter>>

(* threadPool_.reset(): the pool's destructor, unless somebody else has    *)
(* already taken the pointer.                                              *)
StopReset(a) == /\ StopAt(a, "reset")
                /\ IF phase = "open" THEN Pool!Close /\ StopGoes(a, "drain")
                                     ELSE StopGoes(a, "cleanup") /\ UNCHANGED poolVars
                /\ UNCHANGED <<isRunning, pipeOpen, connVars, recvVars, cbOwner, waiter, aborted>>

(* Mutant: the pool's destructor waits for the running tasks only.         *)
StopDrops(a) == /\ StopAt(a, "drain") /\ a = Main
                /\ \A w \in Workers : running[w] = NoMsg
                /\ phase' = "closed"
                /\ StopGoes(a, "cleanup")
                /\ UNCHANGED <<queue, running, done, isRunning, pipeOpen, connVars, recvVars,
                               cbOwner, waiter, aborted>>

StopDrained(a) == /\ StopAt(a, "drain") /\ a = Main
                  /\ Pool!Closed
                  /\ StopGoes(a, "cleanup")
                  /\ UNCHANGED <<isRunning, pipeOpen, connVars, recvVars, cbOwner, waiter, aborted>>

(* In a worker the destructor joins the workers before it, and then        *)
(* itself: join() throws out of a noexcept destructor.                     *)
StopJoinsItself(a) ==
    /\ StopAt(a, "drain") /\ a \in Workers
    /\ a = 1 \/ queue = <<>>
    /\ \A w \in 1..(a - 1) : running[w] = NoMsg
    /\ aborted' = TRUE
    /\ UNCHANGED <<connVars, recvVars, poolVars, cbOwner, stopVars, waiter>>

StopCleanup(a) == /\ StopAt(a, "cleanup")
                  /\ pipeOpen' = FALSE
                  /\ StopGoes(a, "disconnect")
                  /\ UNCHANGED <<isRunning, connVars, recvVars, poolVars, cbOwner, waiter, aborted>>

StopDisconnect(a) == /\ StopAt(a, "disconnect")
                     /\ SetConnection(a, "DISCONNECTED")
                     /\ StopGoes(a, "returned")
                     /\ UNCHANGED <<isRunning, pipeOpen, recvVars, poolVars, cbOwner, waiter, aborted>>

-----------------------------------------------------------------------------
Receive == RecvTop \/ (\E k \in Kinds : RecvLine(k)) \/ RecvNothing \/ Dispatch \/ RecvCheck \/ RecvStore

Callback(th) == EnterCallback(th) \/ LeaveCallback(th)

StopSteps(a) == \/ StopFlag(a) \/ StopNotify(a) \/ StopJoin(a) \/ StopJoinTwice(a)
                \/ StopReset(a) \/ StopDrained(a) \/ StopJoinsItself(a)
                \/ StopCleanup(a) \/ StopDisconnect(a)

Next == /\ ~aborted
        /\ \/ Receive
           \/ \E w \in Workers : WorkerTakes(w)
           \/ \E th \in Workers \cup {Receiver} : Callback(th)
           \/ \E a \in StopCallers : StopCalled(a) \/ StopSteps(a)
           \/ \E th \in Threads : NotifyConnection(th)
           \/ WaitForConnection \/ WaitTimesOut

Spec == Init /\ [][Next]_vars

(* Threads that can run are scheduled and callbacks return.  std::mutex is *)
(* not fair: a thread that waits for callbackMutex_ is only owed it when   *)
(* it is free from some time on.  The peer owes no line, the main thread   *)
(* no stop().                                                              *)
Fairness ==
    /\ WF_vars(~aborted /\ Receive)
    /\ \A w \in Workers : /\ WF_vars(~aborted /\ WorkerTakes(w))
                          /\ WF_vars(~aborted /\ StopCalled(w))
    /\ \A th \in Workers \cup {Receiver} : WF_vars(~aborted /\ Callback(th))
    /\ \A a \in StopCallers : WF_vars(~aborted /\ StopSteps(a))
    /\ \A th \in Threads : WF_vars(~aborted /\ NotifyConnection(th))
    /\ WF_vars(~aborted /\ waiter = "awake" /\ WaitForConnection)

FairSpec == Spec /\ Fairness
-----------------------------------------------------------------------------
ConnStates == {"DISCONNECTED", "CONNECTING", "CONNECTED"}
StopSites == {"idle", "flag", "notify", "join", "reset", "drain", "cleanup",
              "disconnect", "returned"}

TypeOK == /\ kind \in [Msgs -> Kinds]
          /\ got \in 0..MaxMsgs
          /\ pipeOpen \in BOOLEAN /\ isRunning \in BOOLEAN
          /\ connState \in ConnStates
          /\ owing \subseteq Threads
          /\ batch \in 0..MaxBatch
          /\ rpc \in {"top", "poll", "dispatch", "callback", "check", "up", "down", "exit"}
          /\ queue \in Seq(Msgs)
          /\ running \in [Workers -> Msgs \cup {NoMsg}]
          /\ done \subseteq Msgs
          /\ phase \in {"open", "closing", "closed"}
          /\ cbOwner \in Workers \cup {Receiver, Nobody}
          /\ spc \in [StopCallers -> StopSites]
          /\ waiter \in {"out", "parked", "awake"}
          /\ aborted \in BOOLEAN

Queued(m) == \E i \in 1..Len(queue) : queue[i] = m
Started(m) == m \in done \/ \E w \in Workers : running[w] = m
Command(m) == kind[m] \in {"command", "shutdown"}
InStop(a) == spc[a] \notin {"idle", "returned"}
WorkerInStop == \E w \in Workers : InStop(w)

(* Commands may finish out of order, because the workers race for          *)
(* callbackMutex_ (CommunicationProxy.cpp:229, 275), but a later command   *)
(* overtakes an earlier one only if a worker already has the earlier one:  *)
(* never one still queued or still in the pipe.                            *)
OvertakesOnlyInFlight ==
    \A m \in Msgs, n \in 1..got :
        (n < m /\ Command(n) /\ Started(m)) => Started(n)

(* A stop() that got through the pool's destructor leaves nothing behind:  *)
(* each command the receiver has read was handed to its callback, none     *)
(* dropped with the pool (CommunicationProxy.cpp:105-111).                 *)
StopDrains == phase = "closed" => \A m \in 1..got : Command(m) => m \in done

(* The pool and the pipes outlive everybody who uses them.  The receiver,  *)
(* which tests isRunning_ long before it submits and threadPool_ never,    *)
(* finds the pool open, and its message new to it; so the guard of Submit, *)
(* which the code does not have, never stops Dispatch.  Once the pipes are *)
(* closed the receiver is gone and no callback is at work; and the         *)
(* receiver, the last writer of CONNECTED, makes a proxy that is closed    *)
(* look connected no more (CommunicationProxy.cpp:105-119, 229).  A        *)
(* SHUTDOWN command is excepted from the second: its stop() may find the   *)
(* pool taken by the main thread's, and close the pipes under other        *)
(* callbacks.                                                              *)
ClosedLast ==
    /\ rpc = "dispatch" => phase = "open" /\ ~Pool!Accepted(got)
    /\ (~pipeOpen /\ \A m \in 1..got : kind[m] # "shutdown")
           => /\ rpc = "exit"
              /\ cbOwner = Nobody
              /\ \A w \in Workers : running[w] = NoMsg
    /\ (phase = "closed" /\ spc[Main] = "returned")
           => connState = "DISCONNECTED" /\ ~pipeOpen

(* Whatever the receiver, the workers and the callers of stop() do to the  *)
(* pool, with or without a SHUTDOWN command, is what TaskPool allows       *)
(* (CommunicationProxy.cpp:91-122, 200-241).                               *)
UsesTaskPool == Pool!Spec

(* The main thread's stop() returns, unless a worker is inside stop() too: *)
(* only a SHUTDOWN command can wedge it.                                   *)
MainStopReturns ==
    InStop(Main) ~> (spc[Main] = "returned" \/ aborted \/ WorkerInStop)

(* A heartbeat waits for the running callback, not for ever: only a worker *)
(* stuck in stop() under callbackMutex_ silences it.                       *)
HeartbeatHandled ==
    (rpc = "callback") ~> (rpc # "callback" \/ aborted \/ WorkerInStop)

(* A thread in waitForConnection() never sleeps through a stop():          *)
(* isRunning_ is cleared before, and notified under, connectionMutex_.     *)
WaiterReleased == (waiter = "parked" /\ ~isRunning) ~> (waiter # "parked" \/ aborted)

(* What the comment at CommunicationProxy.cpp:110 counts on, "destructor   *)
(* will handle thread shutdown": as long as the main thread stays away,    *)
(* the stop() of a SHUTDOWN command's handler returns.                     *)
ShutdownStopReturns ==
    \A w \in Workers :
        InStop(w) ~> (spc[w] \in {"idle", "returned"} \/ spc[Main] # "idle")
=============================================================================
