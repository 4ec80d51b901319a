-------------------------- MODULE CommProxyProofs ---------------------------
(***************************************************************************)
(* For any number of messages and workers and any length of a batch: the   *)
(* types of CommProxy, and its three safety properties.                    *)
(*                                                                         *)
(* The argument has two halves.  Order follows a message through the pool: *)
(* the queue is sorted by number, what has started is older than what is   *)
(* queued, and a command that was read is in the pool from the moment it   *)
(* is dispatched.  Commands then start in the order of the pipe, and none  *)
(* can be missing once the pool is empty.  The rest follows stop(): who    *)
(* got past the join knows that the receiver is gone (Joined), only the    *)
(* main thread can close the pool, after the last task (Emptied,           *)
(* ClosedByMain), and, as long as no SHUTDOWN command has been read, no    *)
(* other thread is in stop() at all (MainOnly).                            *)
(***************************************************************************)
EXTENDS CommProxy, TLAPS

(* The receiver has a message in its hands only after it has read one.     *)
Recv == {"dispatch", "callback"}
Numbered == rpc \in Recv => got # 0

(* The pool has been given m.                                              *)
Handed(m) == Queued(m) \/ Started(m)

(* The order of the pipe is the order of the queue and of the starts, and  *)
(* a command that was read is in the pool, or about to be.                 *)
Sorted == \A i, j \in 1..Len(queue) : i < j => queue[i] < queue[j]
StartedFirst == \A m \in Msgs : Started(m) => \A i \in 1..Len(queue) : m < queue[i]
ReadBefore == \A m \in Msgs : Handed(m) => m <= got /\ (rpc = "dispatch" => m # got)
Accounted == \A m \in 1..got : Command(m) => Handed(m) \/ (rpc = "dispatch" /\ m = got)

Order == Sorted /\ StartedFirst /\ ReadBefore /\ Accounted

(* stop() goes on to the pool only when the receiving thread is gone, and  *)
(* nobody else touches the pool's life.                                    *)
AfterJoin == {"reset", "drain", "cleanup", "disconnect"}
Joined == /\ \A a \in StopCallers : spc[a] \in AfterJoin => rpc = "exit"
          /\ phase # "open" => rpc = "exit"

(* The destructor of the pool returns when nothing is left in it.          *)
Emptied == phase = "closed" => queue = <<>> /\ \A w \in Workers : running[w] = NoMsg

(* callbackMutex_ is held by a thread with a message in its hands.         *)
Holding == cbOwner # Nobody => InHand(cbOwner) # NoMsg

(* Without a SHUTDOWN command the main thread is the only one in stop(): a *)
(* stop() that finds isRunning_ cleared, the receiver being joined or the  *)
(* pool taken is a second one.                                             *)
NoShutdown == \A m \in 1..got : kind[m] # "shutdown"
BeforeReset == {"idle", "flag", "notify", "join", "reset"}
MainAlone == /\ \A w \in Workers : spc[w] = "idle"
             /\ spc[Main] = "idle" => isRunning
             /\ spc[Main] \in BeforeReset => phase = "open"
             /\ spc[Main] \in {"cleanup", "disconnect", "returned"} => phase = "closed"
             /\ ~pipeOpen => spc[Main] \in {"disconnect", "returned"}
MainOnly == NoShutdown => MainAlone

(* The pool is closed by the main thread, which then closes the pipes and  *)
(* sets DISCONNECTED; the only writer of CONNECTED is gone by then.        *)
ClosedByMain == phase = "closed" =>
    /\ spc[Main] \in {"cleanup", "disconnect", "returned"}
    /\ spc[Main] # "cleanup" => ~pipeOpen
    /\ spc[Main] = "returned" => connState = "DISCONNECTED"

IInv == TypeOK /\ Numbered /\ Order /\ Joined /\ Emptied /\ Holding /\ MainOnly /\ ClosedByMain

-----------------------------------------------------------------------------
(* The threads and the messages have different numbers.                    *)
LEMMA Names == /\ NoMsg \notin Msgs /\ Nobody \notin Threads
               /\ Receiver \notin StopCallers /\ Main \notin Workers
               /\ Workers \subseteq StopCallers /\ StopCallers \subseteq Threads
               /\ Main \in StopCallers /\ Receiver \in Threads
BY BoundsAssumption DEF NoMsg, Msgs, Nobody, Threads, StopCallers, Receiver, Main, Workers

(* What a sequence of messages holds, after one is appended or taken.      *)
LEMMA ElementOf == ASSUME NEW q \in Seq(Msgs), NEW i \in 1..Len(q) PROVE q[i] \in Msgs
OBVIOUS

LEMMA AppendOne ==
    ASSUME NEW q \in Seq(Msgs), NEW m \in Msgs
    PROVE  /\ Append(q, m) \in Seq(Msgs)
           /\ Len(q) \in Nat /\ Len(Append(q, m)) = Len(q) + 1
           /\ \A i \in 1..Len(q) : Append(q, m)[i] = q[i]
           /\ Append(q, m)[Len(q) + 1] = m
OBVIOUS

LEMMA TakeOne ==
    ASSUME NEW q \in Seq(Msgs), q # <<>>
    PROVE  /\ Head(q) \in Msgs /\ Tail(q) \in Seq(Msgs)
           /\ Len(q) \in Nat \ {0} /\ Len(Tail(q)) = Len(q) - 1
           /\ Head(q) = q[1]
           /\ \A i \in 1..Len(Tail(q)) : Tail(q)[i] = q[i + 1]
OBVIOUS

-----------------------------------------------------------------------------
(* start() leaves every variable in its type.                              *)
LEMMA TypeStarts == Init => TypeOK /\ Numbered
<1> SUFFICES ASSUME Init PROVE TypeOK /\ Numbered
  OBVIOUS
<1>1. got \in 0..MaxMsgs /\ batch \in 0..MaxBatch
  BY BoundsAssumption DEF Init
<1>2. queue \in Seq(Msgs) /\ running \in [Workers -> Msgs \cup {NoMsg}] /\ done \subseteq Msgs
      /\ phase \in {"open", "closing", "closed"}
  BY DEF Init, Pool!Init
<1>3. kind \in [Msgs -> Kinds] /\ spc \in [StopCallers -> StopSites]
  BY DEF Init, Kinds, StopSites
<1> QED BY <1>1, <1>2, <1>3 DEF Init, TypeOK, Numbered, Recv, ConnStates

(* setConnectionState() stores one of the three states.                    *)
LEMMA ConnectionTyped ==
    ASSUME TypeOK, NEW th \in Threads, NEW s \in ConnStates, SetConnection(th, s)
    PROVE  connState' \in ConnStates /\ owing' \subseteq Threads
BY DEF TypeOK, SetConnection

(* Every step of the receiver, the workers, the callbacks and stop() keeps *)
(* the types; the batch and the count of lines stay within their bounds.   *)
LEMMA TypeKept == TypeOK /\ Numbered /\ [Next]_vars => TypeOK' /\ Numbered'
<1> SUFFICES ASSUME TypeOK, Numbered, [Next]_vars PROVE TypeOK' /\ Numbered'
  OBVIOUS
<1> USE Names DEF Numbered, Recv
<1> USE DEF connVars, recvVars, poolVars, stopVars
<1>1. CASE RecvTop
  BY <1>1, BoundsAssumption DEF RecvTop, RecvAt, TypeOK
<1>2. ASSUME NEW k \in Kinds, RecvLine(k) PROVE TypeOK' /\ Numbered'
  <2>1. got + 1 \in 1..MaxMsgs /\ batch + 1 \in 0..MaxBatch
    BY <1>2, BoundsAssumption DEF RecvLine, TypeOK
  <2>2. connState' \in ConnStates /\ owing' \subseteq Threads
    BY <1>2, ConnectionTyped DEF RecvLine, TypeOK, ConnStates
  <2>3. got' = got + 1 /\ batch' = batch + 1 /\ kind' \in [Msgs -> Kinds]
    BY <1>2, <2>1 DEF RecvLine, TypeOK, Msgs
  <2>4. got' \in 0..MaxMsgs /\ got' # 0 /\ batch' \in 0..MaxBatch
    BY <2>1, <2>3, BoundsAssumption DEF TypeOK
  <2> QED BY <1>2, <2>2, <2>3, <2>4 DEF RecvLine, TypeOK
<1>3. CASE RecvNothing
  BY <1>3 DEF RecvNothing, RecvAt, TypeOK
<1>4. CASE Dispatch
  <2>1. got \in Msgs
    BY <1>4, BoundsAssumption DEF Dispatch, RecvAt, TypeOK, Msgs
  <2>2. CASE kind[got] = "heartbeat" /\ rpc' = "callback" /\ UNCHANGED <<poolVars, connVars>>
    BY <1>4, <2>2 DEF Dispatch, RecvAt, TypeOK
  <2>3. CASE Pool!Submit(got) /\ rpc' = "poll" /\ UNCHANGED connVars
    BY <1>4, <2>1, <2>3, AppendOne DEF Dispatch, TypeOK, Pool!Submit
  <2>4. CASE SetConnection(Receiver, "DISCONNECTED") /\ rpc' = "top" /\ UNCHANGED poolVars
    <3>1. connState' \in ConnStates /\ owing' \subseteq Threads
      BY <2>4, ConnectionTyped DEF ConnStates
    <3> QED BY <1>4, <2>4, <3>1 DEF Dispatch, TypeOK
  <2> QED BY <1>4, <2>2, <2>3, <2>4 DEF Dispatch
<1>5. CASE RecvCheck
  BY <1>5 DEF RecvCheck, RecvAt, TypeOK
<1>6. CASE RecvStore
  <2>1. connState' \in ConnStates /\ owing' \subseteq Threads
    BY <1>6, ConnectionTyped DEF RecvStore, ConnStates
  <2> QED BY <1>6, <2>1 DEF RecvStore, TypeOK
<1>7. ASSUME NEW w \in Workers, WorkerTakes(w) PROVE TypeOK' /\ Numbered'
  BY <1>7, TakeOne DEF WorkerTakes, Pool!Take, TypeOK
<1>8. ASSUME NEW th \in Workers \cup {Receiver}, EnterCallback(th) PROVE TypeOK' /\ Numbered'
  <2>1. connState' \in ConnStates /\ owing' \subseteq Threads
    BY <1>8, ConnectionTyped DEF EnterCallback, SendMessage, TypeOK, ConnStates
  <2> QED BY <1>8, <2>1 DEF EnterCallback, TypeOK
<1>9. ASSUME NEW th \in Workers \cup {Receiver}, LeaveCallback(th) PROVE TypeOK' /\ Numbered'
  BY <1>9 DEF LeaveCallback, CallbackOver, InHand, Pool!Finish, StopGoes, TypeOK, StopSites
<1>10. ASSUME NEW a \in StopCallers, StopCalled(a) \/ StopSteps(a) PROVE TypeOK' /\ Numbered'
  <2>1. CASE StopCalled(a)
    BY <2>1 DEF StopCalled, StopGoes, TypeOK, StopSites
  <2>2. CASE StopFlag(a) \/ StopNotify(a)
    BY <2>2 DEF StopFlag, StopNotify, Wake, StopGoes, TypeOK, StopSites
  <2>3. CASE StopJoin(a) \/ StopJoinTwice(a)
    BY <2>3 DEF StopJoin, StopJoinTwice, StopGoes, TypeOK, StopSites
  <2>4. CASE StopReset(a) \/ StopDrained(a)
    BY <2>4 DEF StopReset, StopDrained, Pool!Close, Pool!Closed, StopGoes, TypeOK, StopSites
  <2>5. CASE StopJoinsItself(a)
    BY <2>5 DEF StopJoinsItself, TypeOK
  <2>6. CASE StopCleanup(a)
    BY <2>6 DEF StopCleanup, StopGoes, TypeOK, StopSites
  <2>7. CASE StopDisconnect(a)
    <3>1. connState' \in ConnStates /\ owing' \subseteq Threads
      BY <2>7, ConnectionTyped DEF StopDisconnect, ConnStates
    <3> QED BY <2>7, <3>1 DEF StopDisconnect, StopGoes, TypeOK, StopSites
  <2> QED BY <1>10, <2>1, <2>2, <2>3, <2>4, <2>5, <2>6, <2>7 DEF StopSteps
<1>11. ASSUME NEW th \in Threads, NotifyConnection(th) PROVE TypeOK' /\ Numbered'
  BY <1>11 DEF NotifyConnection, Wake, TypeOK
<1>12. CASE WaitForConnection \/ WaitTimesOut
  BY <1>12 DEF WaitForConnection, WaitTimesOut, TypeOK
<1>13. CASE UNCHANGED vars
  BY <1>13 DEF vars, TypeOK
<1> QED BY <1>1, <1>2, <1>3, <1>4, <1>5, <1>6, <1>7, <1>8, <1>9, <1>10, <1>11, <1>12, <1>13
        DEF Next, Receive, Callback
-----------------------------------------------------------------------------
(* What a step means to the messages: the receiver reads one, submits the  *)
(* one it has read, a worker takes one or is done with one, or the step is *)
(* about something else.                                                   *)
Reads(k) == RecvLine(k) /\ UNCHANGED poolVars
Submits == /\ rpc = "dispatch" /\ rpc' = "poll" /\ Pool!Submit(got)
           /\ UNCHANGED <<kind, got>>
Takes(w) == Pool!Take(w) /\ UNCHANGED <<kind, got, rpc>>
Finishes(w) == /\ Pool!Finish(w) /\ UNCHANGED <<kind, got, rpc>>
Elsewhere == /\ UNCHANGED <<kind, got, queue, running, done>>
             /\ rpc' = "dispatch" => rpc = "dispatch"
             /\ rpc = "dispatch" => rpc' = "dispatch" \/ ~Command(got)

(* There is no other kind of step.                                         *)
LEMMA PoolSteps ==
    ASSUME TypeOK, [Next]_vars
    PROVE  \/ \E k \in Kinds : Reads(k)
           \/ Submits
           \/ \E w \in Workers : Takes(w) \/ Finishes(w)
           \/ Elsewhere
<1> USE DEF connVars, recvVars, poolVars, stopVars
<1>1. CASE RecvTop \/ RecvNothing \/ RecvCheck \/ RecvStore
  BY <1>1 DEF RecvTop, RecvNothing, RecvCheck, RecvStore, RecvAt, Elsewhere
<1>2. ASSUME NEW k \in Kinds, RecvLine(k) PROVE Reads(k)
  BY <1>2 DEF RecvLine, Reads
<1>3. CASE Dispatch
  BY <1>3 DEF Dispatch, RecvAt, Submits, Elsewhere, Command
<1>4. ASSUME NEW w \in Workers, WorkerTakes(w) PROVE Takes(w)
  BY <1>4 DEF WorkerTakes, Takes
<1>5. ASSUME NEW th \in Workers \cup {Receiver}, EnterCallback(th) PROVE Elsewhere
  BY <1>5 DEF EnterCallback, Elsewhere
<1>6. ASSUME NEW th \in Workers \cup {Receiver}, LeaveCallback(th)
      PROVE  Elsewhere \/ \E w \in Workers : Finishes(w)
  BY <1>6 DEF LeaveCallback, CallbackOver, InHand, Elsewhere, Finishes
<1>7. ASSUME NEW a \in StopCallers, StopCalled(a) \/ StopSteps(a) PROVE Elsewhere
  BY <1>7 DEF StopSteps, StopCalled, StopFlag, StopNotify, StopJoin, StopJoinTwice, StopReset,
     StopDrained, StopJoinsItself, StopCleanup, StopDisconnect, Pool!Close, Pool!Closed, Elsewhere
<1>8. ASSUME NEW th \in Threads, NotifyConnection(th) PROVE Elsewhere
  BY <1>8 DEF NotifyConnection, Elsewhere
<1>9. CASE WaitForConnection \/ WaitTimesOut
  BY <1>9 DEF WaitForConnection, WaitTimesOut, Elsewhere
<1>10. CASE UNCHANGED vars
  BY <1>10 DEF vars, Elsewhere
<1> QED BY <1>1, <1>2, <1>3, <1>4, <1>5, <1>6, <1>7, <1>8, <1>9, <1>10
        DEF Next, Receive, Callback

(* messageReceivingThread() submits in the order it reads, and the pool's  *)
(* workers take from the front: each step keeps Order.                     *)
LEMMA OrderKept == TypeOK /\ Numbered /\ Order /\ [Next]_vars => Order'
<1> SUFFICES ASSUME TypeOK, Numbered, Order, [Next]_vars PROVE Order'
  OBVIOUS
<1> USE Names DEF Order
<1>0. queue \in Seq(Msgs) /\ got \in Nat /\ running \in [Workers -> Msgs \cup {NoMsg}]
      /\ done \subseteq Msgs /\ Len(queue) \in Nat /\ Msgs \subseteq Nat
  BY BoundsAssumption DEF TypeOK, Msgs
<1>1. ASSUME NEW k \in Kinds, Reads(k) PROVE Order'
  <2>1. /\ UNCHANGED <<queue, running, done>> /\ got' = got + 1 /\ rpc' = "dispatch"
        /\ rpc # "dispatch" /\ \A m \in 1..got : kind'[m] = kind[m]
    BY <1>0, <1>1 DEF Reads, RecvLine, RecvAt, poolVars, TypeOK, Msgs
  <2>2. Sorted' /\ StartedFirst'
    BY <2>1 DEF Sorted, StartedFirst, Started
  <2>3. ReadBefore'
    BY <1>0, <2>1 DEF ReadBefore, Handed, Queued, Started
  <2>4. Accounted'
    <3> SUFFICES ASSUME NEW m \in 1..got', Command(m)'
                 PROVE  Handed(m)' \/ m = got'
      BY <2>1 DEF Accounted
    <3>1. CASE m = got + 1
      BY <2>1, <3>1
    <3>2. CASE m # got + 1
      BY <1>0, <2>1, <3>2 DEF Accounted, Command, Handed, Queued, Started
    <3> QED BY <3>1, <3>2
  <2> QED BY <2>2, <2>3, <2>4
<1>2. CASE Submits
  <2>1. got \in Msgs /\ queue' = Append(queue, got) /\ ~Handed(got)
        /\ UNCHANGED <<running, done, got, kind>> /\ rpc = "dispatch" /\ rpc' = "poll"
    BY <1>2, <1>0, BoundsAssumption
       DEF Submits, Pool!Submit, Numbered, Recv, Handed, Started, Queued, ReadBefore, TypeOK, Msgs
  <2>2. /\ Len(queue') = Len(queue) + 1
        /\ \A i \in 1..Len(queue) : queue'[i] = queue[i]
        /\ queue'[Len(queue) + 1] = got
    BY <1>0, <2>1, AppendOne
  <2>3. \A m : Queued(m)' <=> Queued(m) \/ m = got
    BY <1>0, <2>1, <2>2 DEF Queued
  <2>4. \A m : Started(m)' <=> Started(m)
    BY <2>1 DEF Started
  <2>5. ASSUME NEW i \in 1..Len(queue) PROVE queue[i] < got
    <3>1. queue[i] \in Msgs /\ queue[i] \in Nat
      BY <1>0, ElementOf
    <3>2. Queued(queue[i])
      BY DEF Queued
    <3> QED BY <1>0, <2>1, <3>1, <3>2 DEF ReadBefore, Handed
  <2>6. Sorted'
    BY <1>0, <2>2, <2>5 DEF Sorted
  <2>7. StartedFirst'
    BY <1>0, <2>1, <2>2, <2>4 DEF StartedFirst, ReadBefore, Handed
  <2>8. ReadBefore' /\ Accounted'
    BY <1>0, <2>1, <2>3, <2>4 DEF ReadBefore, Accounted, Handed, Command
  <2> QED BY <2>6, <2>7, <2>8
<1>3. ASSUME NEW w \in Workers, Takes(w) PROVE Order'
  <2>1. running[w] = NoMsg /\ running' = [running EXCEPT ![w] = Head(queue)] /\ queue # <<>>
        /\ queue' = Tail(queue) /\ UNCHANGED <<done, kind, got, rpc>>
    BY <1>3 DEF Takes, Pool!Take
  <2>2. /\ Head(queue) \in Msgs /\ Len(queue) \in Nat \ {0} /\ Len(queue') = Len(queue) - 1
        /\ Head(queue) = queue[1] /\ \A i \in 1..Len(queue') : queue'[i] = queue[i + 1]
    BY <1>0, <2>1, TakeOne
  <2>3. \A m \in Msgs : Started(m)' <=> Started(m) \/ m = Head(queue)
    BY <1>0, <2>1, <2>2 DEF Started
  <2>4. \A m : Queued(m)' => Queued(m)
    BY <2>2 DEF Queued
  <2>5. \A m : Queued(m) => Queued(m)' \/ m = Head(queue)
    <3> SUFFICES ASSUME NEW m, NEW i \in 1..Len(queue), queue[i] = m, i # 1 PROVE Queued(m)'
      BY <2>2 DEF Queued
    <3>1. i - 1 \in 1..Len(queue') /\ queue'[i - 1] = m
      BY <2>2
    <3> QED BY <3>1 DEF Queued
  <2>6. Sorted'
    BY <1>0, <2>2 DEF Sorted
  <2>7. StartedFirst'
    <3> SUFFICES ASSUME NEW m \in Msgs, Started(m)', NEW i \in 1..Len(queue')
                 PROVE  m < queue'[i]
      BY DEF StartedFirst
    <3>1. queue'[i] = queue[i + 1] /\ i + 1 \in 1..Len(queue) /\ 1 \in 1..Len(queue) /\ 1 < i + 1
      BY <2>2
    <3>2. CASE Started(m)
      BY <3>1, <3>2 DEF StartedFirst
    <3>3. CASE m = Head(queue)
      BY <2>2, <3>1, <3>3 DEF Sorted
    <3> QED BY <2>3, <3>2, <3>3
  <2>8. ReadBefore'
    BY <1>0, <2>1, <2>2, <2>3, <2>4 DEF ReadBefore, Handed, Queued
  <2>9. Accounted'
    <3>1. \A m \in Msgs : Handed(m) => Handed(m)'
      BY <2>3, <2>5 DEF Handed
    <3>2. 1..got \subseteq Msgs
      BY BoundsAssumption DEF TypeOK, Msgs
    <3> QED BY <2>1, <3>1, <3>2 DEF Accounted, Command
  <2> QED BY <2>6, <2>7, <2>8, <2>9
<1>4. ASSUME NEW w \in Workers, Finishes(w) PROVE Order'
  <2>1. /\ running[w] # NoMsg /\ done' = done \cup {running[w]}
        /\ running' = [running EXCEPT ![w] = NoMsg] /\ UNCHANGED <<queue, kind, got, rpc>>
    BY <1>4 DEF Finishes, Pool!Finish
  <2>2. \A m \in Msgs : Started(m)' <=> Started(m)
    BY <1>0, <2>1 DEF Started
  <2>3. \A m : Queued(m)' <=> Queued(m)
    BY <2>1 DEF Queued
  <2>4. 1..got \subseteq Msgs
    BY BoundsAssumption DEF TypeOK, Msgs
  <2>5. Sorted' /\ StartedFirst'
    BY <2>1, <2>2 DEF Sorted, StartedFirst
  <2> QED BY <2>1, <2>2, <2>3, <2>4, <2>5 DEF ReadBefore, Accounted, Handed, Command
<1>5. CASE Elsewhere
  BY <1>5
     DEF Elsewhere, Sorted, StartedFirst, ReadBefore, Accounted, Handed, Queued, Started, Command
<1> QED BY <1>1, <1>2, <1>3, <1>4, <1>5, PoolSteps
-----------------------------------------------------------------------------
(* stop() passes join() when the receiving thread has returned, for good.  *)
LEMMA JoinedKept == TypeOK /\ Joined /\ [Next]_vars => Joined'
<1> SUFFICES ASSUME TypeOK, Joined, [Next]_vars PROVE Joined'
  OBVIOUS
<1> USE Names DEF Joined, AfterJoin, connVars, recvVars, poolVars, stopVars
<1>1. CASE RecvTop \/ RecvNothing \/ RecvCheck \/ RecvStore
  BY <1>1 DEF RecvTop, RecvNothing, RecvCheck, RecvStore, RecvAt, SetConnection
<1>2. ASSUME NEW k \in Kinds, RecvLine(k) PROVE Joined'
  BY <1>2 DEF RecvLine, RecvAt, SetConnection
<1>3. CASE Dispatch
  BY <1>3 DEF Dispatch, RecvAt, Pool!Submit, SetConnection
<1>4. ASSUME NEW w \in Workers, WorkerTakes(w) PROVE Joined'
  BY <1>4, TakeOne DEF WorkerTakes, Pool!Take, TypeOK
<1>5. ASSUME NEW th \in Workers \cup {Receiver}, EnterCallback(th) PROVE Joined'
  BY <1>5 DEF EnterCallback, SendMessage, SetConnection
<1>6. ASSUME NEW th \in Workers \cup {Receiver}, LeaveCallback(th) PROVE Joined'
  BY <1>6 DEF LeaveCallback, CallbackOver, InHand, Pool!Finish, StopGoes, TypeOK
<1>7. ASSUME NEW a \in StopCallers, StopCalled(a) PROVE Joined'
  BY <1>7 DEF StopCalled, StopGoes, TypeOK
<1>8. ASSUME NEW a \in StopCallers, StopSteps(a) PROVE Joined'
  <2>1. CASE StopFlag(a) \/ StopNotify(a)
    BY <2>1 DEF StopFlag, StopNotify, StopAt, StopGoes, TypeOK
  <2>2. CASE StopJoin(a) \/ StopJoinTwice(a)
    BY <2>2 DEF StopJoin, StopJoinTwice, StopAt, StopGoes, TypeOK
  <2>3. CASE StopReset(a)
    BY <2>3 DEF StopReset, StopAt, StopGoes, Pool!Close, TypeOK
  <2>4. CASE StopDrained(a)
    BY <2>4 DEF StopDrained, StopAt, StopGoes, Pool!Closed, Pool!Drained, TypeOK
  <2>5. CASE StopJoinsItself(a)
    BY <2>5 DEF StopJoinsItself
  <2>6. CASE StopCleanup(a) \/ StopDisconnect(a)
    BY <2>6 DEF StopCleanup, StopDisconnect, StopAt, StopGoes, SetConnection, TypeOK
  <2> QED BY <1>8, <2>1, <2>2, <2>3, <2>4, <2>5, <2>6 DEF StopSteps
<1>9. ASSUME NEW th \in Threads, NotifyConnection(th) PROVE Joined'
  BY <1>9 DEF NotifyConnection
<1>10. CASE WaitForConnection \/ WaitTimesOut \/ UNCHANGED vars
  BY <1>10 DEF WaitForConnection, WaitTimesOut, vars
<1> QED BY <1>1, <1>2, <1>3, <1>4, <1>5, <1>6, <1>7, <1>8, <1>9, <1>10 DEF Next, Receive, Callback

(* Nothing gets into a pool that is closed.                                *)
LEMMA EmptiedKept == TypeOK /\ Joined /\ Emptied /\ [Next]_vars => Emptied'
<1> SUFFICES ASSUME TypeOK, Joined, Emptied, [Next]_vars PROVE Emptied'
  OBVIOUS
<1> USE Names DEF Emptied, Joined, connVars, recvVars, poolVars, stopVars
<1>1. CASE RecvTop \/ RecvNothing \/ RecvCheck \/ RecvStore
  BY <1>1 DEF RecvTop, RecvNothing, RecvCheck, RecvStore, RecvAt, SetConnection
<1>2. ASSUME NEW k \in Kinds, RecvLine(k) PROVE Emptied'
  BY <1>2 DEF RecvLine, RecvAt, SetConnection
<1>3. CASE Dispatch
  BY <1>3 DEF Dispatch, RecvAt, Pool!Submit, SetConnection
<1>4. ASSUME NEW w \in Workers, WorkerTakes(w) PROVE Emptied'
  BY <1>4, TakeOne DEF WorkerTakes, Pool!Take, TypeOK
<1>5. ASSUME NEW th \in Workers \cup {Receiver}, EnterCallback(th) PROVE Emptied'
  BY <1>5 DEF EnterCallback, SendMessage, SetConnection
<1>6. ASSUME NEW th \in Workers \cup {Receiver}, LeaveCallback(th) PROVE Emptied'
  BY <1>6 DEF LeaveCallback, CallbackOver, InHand, Pool!Finish, StopGoes, TypeOK
<1>7. ASSUME NEW a \in StopCallers, StopCalled(a) PROVE Emptied'
  BY <1>7 DEF StopCalled, StopGoes, TypeOK
<1>8. ASSUME NEW a \in StopCallers, StopSteps(a) PROVE Emptied'
  <2>1. CASE StopFlag(a) \/ StopNotify(a)
    BY <2>1 DEF StopFlag, StopNotify, StopAt, StopGoes, TypeOK
  <2>2. CASE StopJoin(a) \/ StopJoinTwice(a)
    BY <2>2 DEF StopJoin, StopJoinTwice, StopAt, StopGoes, TypeOK
  <2>3. CASE StopReset(a)
    BY <2>3 DEF StopReset, StopAt, StopGoes, Pool!Close, TypeOK
  <2>4. CASE StopDrained(a)
    BY <2>4 DEF StopDrained, StopAt, StopGoes, Pool!Closed, Pool!Drained, TypeOK
  <2>5. CASE StopJoinsItself(a)
    BY <2>5 DEF StopJoinsItself
  <2>6. CASE StopCleanup(a) \/ StopDisconnect(a)
    BY <2>6 DEF StopCleanup, StopDisconnect, StopAt, StopGoes, SetConnection, TypeOK
  <2> QED BY <1>8, <2>1, <2>2, <2>3, <2>4, <2>5, <2>6 DEF StopSteps
<1>9. ASSUME NEW th \in Threads, NotifyConnection(th) PROVE Emptied'
  BY <1>9 DEF NotifyConnection
<1>10. CASE WaitForConnection \/ WaitTimesOut \/ UNCHANGED vars
  BY <1>10 DEF WaitForConnection, WaitTimesOut, vars
<1> QED BY <1>1, <1>2, <1>3, <1>4, <1>5, <1>6, <1>7, <1>8, <1>9, <1>10 DEF Next, Receive, Callback

(* processReceivedMessage() lets callbackMutex_ go with its message.       *)
LEMMA HoldingKept == TypeOK /\ Numbered /\ Holding /\ [Next]_vars => Holding'
<1> SUFFICES ASSUME TypeOK, Numbered, Holding, [Next]_vars PROVE Holding'
  OBVIOUS
<1> USE Names DEF Holding, InHand, Numbered, Recv, connVars, recvVars, poolVars, stopVars
<1>1. CASE RecvTop \/ RecvNothing \/ RecvCheck \/ RecvStore
  BY <1>1 DEF RecvTop, RecvNothing, RecvCheck, RecvStore, RecvAt, SetConnection
<1>2. ASSUME NEW k \in Kinds, RecvLine(k) PROVE Holding'
  BY <1>2 DEF RecvLine, RecvAt, SetConnection
<1>3. CASE Dispatch
  BY <1>3 DEF Dispatch, RecvAt, Pool!Submit, SetConnection
<1>4. ASSUME NEW w \in Workers, WorkerTakes(w) PROVE Holding'
  BY <1>4, TakeOne DEF WorkerTakes, Pool!Take, TypeOK
<1>5. ASSUME NEW th \in Workers \cup {Receiver}, EnterCallback(th) PROVE Holding'
  BY <1>5 DEF EnterCallback, SendMessage, SetConnection
<1>6. ASSUME NEW th \in Workers \cup {Receiver}, LeaveCallback(th) PROVE Holding'
  BY <1>6 DEF LeaveCallback, CallbackOver, InHand, Pool!Finish, StopGoes, TypeOK
<1>7. ASSUME NEW a \in StopCallers, StopCalled(a) PROVE Holding'
  BY <1>7 DEF StopCalled, StopGoes, TypeOK
<1>8. ASSUME NEW a \in StopCallers, StopSteps(a) PROVE Holding'
  <2>1. CASE StopFlag(a) \/ StopNotify(a)
    BY <2>1 DEF StopFlag, StopNotify, StopAt, StopGoes, TypeOK
  <2>2. CASE StopJoin(a) \/ StopJoinTwice(a)
    BY <2>2 DEF StopJoin, StopJoinTwice, StopAt, StopGoes, TypeOK
  <2>3. CASE StopReset(a)
    BY <2>3 DEF StopReset, StopAt, StopGoes, Pool!Close, TypeOK
  <2>4. CASE StopDrained(a)
    BY <2>4 DEF StopDrained, StopAt, StopGoes, Pool!Closed, Pool!Drained, TypeOK
  <2>5. CASE StopJoinsItself(a)
    BY <2>5 DEF StopJoinsItself
  <2>6. CASE StopCleanup(a) \/ StopDisconnect(a)
    BY <2>6 DEF StopCleanup, StopDisconnect, StopAt, StopGoes, SetConnection, TypeOK
  <2> QED BY <1>8, <2>1, <2>2, <2>3, <2>4, <2>5, <2>6 DEF StopSteps
<1>9. ASSUME NEW th \in Threads, NotifyConnection(th) PROVE Holding'
  BY <1>9 DEF NotifyConnection
<1>10. CASE WaitForConnection \/ WaitTimesOut \/ UNCHANGED vars
  BY <1>10 DEF WaitForConnection, WaitTimesOut, vars
<1> QED BY <1>1, <1>2, <1>3, <1>4, <1>5, <1>6, <1>7, <1>8, <1>9, <1>10 DEF Next, Receive, Callback

(* A worker calls stop() from the callback of a SHUTDOWN command, which    *)
(* the receiver has read.                                                  *)
LEMMA ShutdownRead ==
    ASSUME TypeOK, Numbered, Order, NEW w \in Workers, HandlesShutdown(w)
    PROVE  ~NoShutdown
<1>1. running[w] \in Msgs /\ kind[running[w]] = "shutdown"
  BY Names DEF HandlesShutdown, InHand, TypeOK
<1>2. running[w] \in 1..got
  BY <1>1, BoundsAssumption DEF Order, ReadBefore, Handed, Started, TypeOK, Msgs
<1> QED BY <1>1, <1>2 DEF NoShutdown

(* A command that was read stays what it is.                               *)
LEMMA ShutdownStays == ASSUME TypeOK, [Next]_vars, ~NoShutdown PROVE ~NoShutdown'
<1>1. PICK m \in 1..got : kind[m] = "shutdown"
  BY DEF NoShutdown
<1>2. CASE UNCHANGED <<kind, got>>
  BY <1>1, <1>2 DEF NoShutdown
<1>3. ASSUME NEW k \in Kinds, Reads(k) PROVE ~NoShutdown'
  <2>1. got \in Nat /\ got' = got + 1 /\ kind'[m] = kind[m]
    BY <1>1, <1>3, BoundsAssumption DEF Reads, RecvLine, TypeOK, Msgs
  <2> QED BY <1>1, <2>1 DEF NoShutdown
<1> QED BY <1>2, <1>3, PoolSteps DEF Submits, Takes, Finishes, Elsewhere

(* Without a SHUTDOWN command every step of stop() is the main thread's,   *)
(* which goes through it once.                                             *)
LEMMA MainOnlyKept == TypeOK /\ Numbered /\ Order /\ Joined /\ MainOnly /\ [Next]_vars => MainOnly'
<1> SUFFICES ASSUME TypeOK, Numbered, Order, Joined, MainOnly, [Next]_vars, NoShutdown'
             PROVE  MainAlone'
  BY DEF MainOnly
<1>0. NoShutdown /\ MainAlone
  BY ShutdownStays DEF MainOnly
<1> USE <1>0, Names DEF MainAlone, BeforeReset, connVars, recvVars, poolVars, stopVars
<1>1. CASE RecvTop \/ RecvNothing \/ RecvCheck \/ RecvStore
  BY <1>1 DEF RecvTop, RecvNothing, RecvCheck, RecvStore, RecvAt, SetConnection
<1>2. ASSUME NEW k \in Kinds, RecvLine(k) PROVE MainAlone'
  BY <1>2 DEF RecvLine, RecvAt, SetConnection
<1>3. CASE Dispatch
  BY <1>3 DEF Dispatch, RecvAt, Pool!Submit, SetConnection
<1>4. ASSUME NEW w \in Workers, WorkerTakes(w) PROVE MainAlone'
  BY <1>4, TakeOne DEF WorkerTakes, Pool!Take, TypeOK
<1>5. ASSUME NEW th \in Workers \cup {Receiver}, EnterCallback(th) PROVE MainAlone'
  BY <1>5 DEF EnterCallback, SendMessage, SetConnection
<1>6. ASSUME NEW th \in Workers \cup {Receiver}, LeaveCallback(th) PROVE MainAlone'
  BY <1>6 DEF LeaveCallback, CallbackOver, InHand, Pool!Finish, StopGoes, TypeOK
<1>7. ASSUME NEW a \in StopCallers, StopCalled(a) PROVE MainAlone'
  <2>1. a = Main
    BY <1>7, ShutdownRead DEF StopCalled, StopCallers
  <2> QED BY <1>7, <2>1 DEF StopCalled, StopGoes, TypeOK
<1>8. ASSUME NEW a \in StopCallers, StopSteps(a) PROVE MainAlone'
  <2>0. a = Main /\ \A b \in StopCallers \ {Main} : spc[b] = "idle"
    BY <1>8 DEF StopSteps, StopFlag, StopNotify, StopJoin, StopJoinTwice, StopReset, StopDrained,
       StopJoinsItself, StopCleanup, StopDisconnect, StopAt, StopCallers
  <2>1. CASE StopFlag(a) \/ StopNotify(a)
    BY <2>0, <2>1 DEF StopFlag, StopNotify, StopAt, StopGoes, TypeOK
  <2>2. CASE StopJoin(a) \/ StopJoinTwice(a)
    BY <2>0, <2>2 DEF StopJoin, StopJoinTwice, StopAt, StopGoes, TypeOK
  <2>3. CASE StopReset(a)
    BY <2>0, <2>3 DEF StopReset, StopAt, StopGoes, Pool!Close, TypeOK
  <2>4. CASE StopDrained(a)
    BY <2>0, <2>4 DEF StopDrained, StopAt, StopGoes, Pool!Closed, Pool!Drained, TypeOK
  <2>5. CASE StopJoinsItself(a)
    BY <2>0, <2>5 DEF StopJoinsItself
  <2>6. CASE StopCleanup(a) \/ StopDisconnect(a)
    BY <2>0, <2>6 DEF StopCleanup, StopDisconnect, StopAt, StopGoes, SetConnection, TypeOK
  <2> QED BY <1>8, <2>1, <2>2, <2>3, <2>4, <2>5, <2>6 DEF StopSteps
<1>9. ASSUME NEW th \in Threads, NotifyConnection(th) PROVE MainAlone'
  BY <1>9 DEF NotifyConnection
<1>10. CASE WaitForConnection \/ WaitTimesOut \/ UNCHANGED vars
  BY <1>10 DEF WaitForConnection, WaitTimesOut, vars
<1> QED BY <1>1, <1>2, <1>3, <1>4, <1>5, <1>6, <1>7, <1>8, <1>9, <1>10 DEF Next, Receive, Callback

(* Once the main thread has closed the pool nobody opens a pipe, and       *)
(* nobody writes CONNECTED.                                                *)
LEMMA ClosedByMainKept == TypeOK /\ Joined /\ ClosedByMain /\ [Next]_vars => ClosedByMain'
<1> SUFFICES ASSUME TypeOK, Joined, ClosedByMain, [Next]_vars PROVE ClosedByMain'
  OBVIOUS
<1> USE Names DEF ClosedByMain, Joined, AfterJoin, connVars, recvVars, poolVars, stopVars
<1>1. CASE RecvTop \/ RecvNothing \/ RecvCheck \/ RecvStore
  BY <1>1 DEF RecvTop, RecvNothing, RecvCheck, RecvStore, RecvAt, SetConnection
<1>2. ASSUME NEW k \in Kinds, RecvLine(k) PROVE ClosedByMain'
  BY <1>2 DEF RecvLine, RecvAt, SetConnection
<1>3. CASE Dispatch
  BY <1>3 DEF Dispatch, RecvAt, Pool!Submit, SetConnection
<1>4. ASSUME NEW w \in Workers, WorkerTakes(w) PROVE ClosedByMain'
  BY <1>4, TakeOne DEF WorkerTakes, Pool!Take, TypeOK
<1>5. ASSUME NEW th \in Workers \cup {Receiver}, EnterCallback(th) PROVE ClosedByMain'
  BY <1>5 DEF EnterCallback, SendMessage, SetConnection
<1>6. ASSUME NEW th \in Workers \cup {Receiver}, LeaveCallback(th) PROVE ClosedByMain'
  BY <1>6 DEF LeaveCallback, CallbackOver, InHand, Pool!Finish, StopGoes, TypeOK
<1>7. ASSUME NEW a \in StopCallers, StopCalled(a) PROVE ClosedByMain'
  BY <1>7 DEF StopCalled, StopGoes, TypeOK
<1>8. ASSUME NEW a \in StopCallers, StopSteps(a) PROVE ClosedByMain'
  <2>1. CASE StopFlag(a) \/ StopNotify(a)
    BY <2>1 DEF StopFlag, StopNotify, StopAt, StopGoes, TypeOK
  <2>2. CASE StopJoin(a) \/ StopJoinTwice(a)
    BY <2>2 DEF StopJoin, StopJoinTwice, StopAt, StopGoes, TypeOK
  <2>3. CASE StopReset(a)
    BY <2>3 DEF StopReset, StopAt, StopGoes, Pool!Close, TypeOK
  <2>4. CASE StopDrained(a)
    BY <2>4 DEF StopDrained, StopAt, StopGoes, Pool!Closed, Pool!Drained, TypeOK
  <2>5. CASE StopJoinsItself(a)
    BY <2>5 DEF StopJoinsItself
  <2>6. CASE StopCleanup(a) \/ StopDisconnect(a)
    BY <2>6 DEF StopCleanup, StopDisconnect, StopAt, StopGoes, SetConnection, TypeOK
  <2> QED BY <1>8, <2>1, <2>2, <2>3, <2>4, <2>5, <2>6 DEF StopSteps
<1>9. ASSUME NEW th \in Threads, NotifyConnection(th) PROVE ClosedByMain'
  BY <1>9 DEF NotifyConnection
<1>10. CASE WaitForConnection \/ WaitTimesOut \/ UNCHANGED vars
  BY <1>10 DEF WaitForConnection, WaitTimesOut, vars
<1> QED BY <1>1, <1>2, <1>3, <1>4, <1>5, <1>6, <1>7, <1>8, <1>9, <1>10 DEF Next, Receive, Callback

-----------------------------------------------------------------------------
(* The invariant holds when start() returns, and every step keeps it.      *)
LEMMA IInvStarts == Init => IInv
<1> SUFFICES ASSUME Init PROVE IInv
  OBVIOUS
<1>1. TypeOK /\ Numbered
  BY TypeStarts
<1>2. Order
  BY BoundsAssumption, Names DEF Init, Pool!Init, Order, Sorted, StartedFirst, ReadBefore,
     Accounted, Handed, Queued, Started
<1>3. Joined /\ Emptied /\ Holding
  BY Names DEF Init, Pool!Init, Joined, AfterJoin, Emptied, Holding
<1>4. MainOnly /\ ClosedByMain
  BY Names DEF Init, Pool!Init, MainOnly, MainAlone, BeforeReset, ClosedByMain
<1> QED BY <1>1, <1>2, <1>3, <1>4 DEF IInv

LEMMA IInvKept == IInv /\ [Next]_vars => IInv'
BY TypeKept, OrderKept, JoinedKept, EmptiedKept, HoldingKept, MainOnlyKept, ClosedByMainKept
   DEF IInv

LEMMA AlwaysIInv == Spec => []IInv
BY IInvStarts, IInvKept, PTL DEF Spec

(* Every variable keeps its type; a batch is never longer than             *)
(* MAX_MESSAGES_PER_BATCH.                                                 *)
THEOREM ProxyTyped == Spec => []TypeOK
<1>1. IInv => TypeOK
  BY DEF IInv
<1> QED BY <1>1, AlwaysIInv, PTL

(* Commands start in the order in which they were read, whatever the       *)
(* number of workers that race for callbackMutex_: a later one can be done *)
(* first only if a worker has the earlier one in its hands already.        *)
THEOREM OnlyInFlightIsOvertaken == Spec => []OvertakesOnlyInFlight
<1>1. IInv => OvertakesOnlyInFlight
  <2> SUFFICES ASSUME IInv, NEW m \in Msgs, NEW n \in 1..got, n < m, Command(n), Started(m)
               PROVE  Started(n)
    BY DEF OvertakesOnlyInFlight
  <2>1. got \in Nat /\ m \in Nat /\ n \in Nat /\ n \in Msgs
    BY BoundsAssumption DEF IInv, TypeOK, Msgs
  <2>2. m <= got
    BY DEF IInv, Order, ReadBefore, Handed
  <2>3. Handed(n)
    BY <2>1, <2>2 DEF IInv, Order, Accounted
  <2>4. ~Queued(n)
    BY <2>1 DEF IInv, Order, StartedFirst, Queued
  <2> QED BY <2>3, <2>4 DEF Handed
<1> QED BY <1>1, AlwaysIInv, PTL

(* When the pool's destructor returns, each command that was read has been *)
(* handed to its callback.                                                 *)
THEOREM NothingDropped == Spec => []StopDrains
<1>1. IInv => StopDrains
  <2> SUFFICES ASSUME IInv, phase = "closed", NEW m \in 1..got, Command(m) PROVE m \in done
    BY DEF StopDrains
  <2>1. queue = <<>> /\ \A w \in Workers : running[w] = NoMsg
    BY DEF IInv, Emptied
  <2>2. rpc = "exit"
    BY DEF IInv, Joined
  <2>3. Handed(m) /\ m # NoMsg
    BY <2>2 DEF IInv, Order, Accounted, NoMsg
  <2> QED BY <2>1, <2>3 DEF Handed, Queued, Started
<1> QED BY <1>1, AlwaysIInv, PTL

(* The receiver finds the pool open, and new to it what it submits; the    *)
(* pipes are closed when nobody uses them any more, and a proxy that is    *)
(* closed does not look connected.                                         *)
THEOREM ClosedAfterUse == Spec => []ClosedLast
<1>1. IInv => ClosedLast
  <2> SUFFICES ASSUME IInv PROVE ClosedLast
    OBVIOUS
  <2>1. ASSUME ~pipeOpen, NoShutdown
        PROVE  rpc = "exit" /\ cbOwner = Nobody /\ \A w \in Workers : running[w] = NoMsg
    <3>1. phase = "closed"
      BY <2>1 DEF IInv, MainOnly, MainAlone
    <3>2. rpc = "exit" /\ \A w \in Workers : running[w] = NoMsg
      BY <3>1 DEF IInv, Joined, Emptied
    <3>3. cbOwner = Nobody
      BY <3>2, Names DEF IInv, Holding, InHand, TypeOK
    <3> QED BY <3>2, <3>3
  <2>2. phase = "closed" /\ spc[Main] = "returned" => connState = "DISCONNECTED" /\ ~pipeOpen
    BY DEF IInv, ClosedByMain
  <2>3. rpc = "dispatch" => phase = "open"
    BY DEF IInv, Joined
  <2>4. ASSUME rpc = "dispatch" PROVE ~Pool!Accepted(got)
    <3>1. got \in Msgs
      BY <2>4, BoundsAssumption DEF IInv, TypeOK, Numbered, Recv, Msgs
    <3>2. ~Handed(got)
      BY <2>4, <3>1 DEF IInv, Order, ReadBefore
    <3> QED BY <3>2 DEF Handed, Queued, Started, Pool!Accepted
  <2> QED BY <2>1, <2>2, <2>3, <2>4 DEF ClosedLast, NoShutdown
<1> QED BY <1>1, AlwaysIInv, PTL

(* The proxy uses its pool as TaskPool allows, whoever calls stop() and    *)
(* when: nothing is submitted twice or after the pool was given up, and it *)
(* is closed once, and only when it is empty.                              *)
THEOREM ProxyUsesPool == Spec => UsesTaskPool
<1>1. Init => Pool!Init
  BY DEF Init
<1>2. IInv /\ [Next]_vars => [Pool!Next]_(Pool!vars)
  <2> SUFFICES ASSUME IInv, [Next]_vars PROVE [Pool!Next]_(Pool!vars)
    OBVIOUS
  <2>1. CASE UNCHANGED poolVars
    BY <2>1 DEF poolVars, Pool!vars
  <2>2. CASE Dispatch
    <3>1. rpc = "dispatch" /\ got \in Msgs
      BY <2>2, BoundsAssumption DEF Dispatch, RecvAt, IInv, TypeOK, Numbered, Recv, Msgs
    <3>2. UNCHANGED poolVars \/ Pool!Submit(got)
      BY <2>2 DEF Dispatch
    <3> QED BY <2>1, <3>1, <3>2 DEF Pool!Next
  <2>3. CASE Receive
    BY <2>1, <2>2, <2>3 DEF Receive, RecvTop, RecvLine, RecvNothing, RecvCheck, RecvStore
  <2>4. ASSUME NEW w \in Workers, WorkerTakes(w) PROVE [Pool!Next]_(Pool!vars)
    BY <2>4 DEF WorkerTakes, Pool!Next
  <2>5. ASSUME NEW th \in Workers \cup {Receiver}, Callback(th) PROVE [Pool!Next]_(Pool!vars)
    <3>1. UNCHANGED poolVars \/ (th \in Workers /\ Pool!Finish(th))
      BY <2>5 DEF Callback, EnterCallback, LeaveCallback
    <3> QED BY <2>1, <3>1 DEF Pool!Next
  <2>6. ASSUME NEW a \in StopCallers, StopCalled(a) \/ StopSteps(a)
        PROVE  [Pool!Next]_(Pool!vars)
    <3>1. UNCHANGED poolVars \/ Pool!Close \/ Pool!Closed
      BY <2>6 DEF StopCalled, StopSteps, StopFlag, StopNotify, StopJoin, StopJoinTwice,
                  StopReset, StopDrained, StopJoinsItself, StopCleanup, StopDisconnect
    <3> QED BY <2>1, <3>1 DEF Pool!Next
  <2>7. ASSUME NEW th \in Threads, NotifyConnection(th) PROVE [Pool!Next]_(Pool!vars)
    BY <2>1, <2>7 DEF NotifyConnection
  <2>8. CASE WaitForConnection \/ WaitTimesOut \/ UNCHANGED vars
    BY <2>1, <2>8 DEF WaitForConnection, WaitTimesOut, vars
  <2> QED BY <2>3, <2>4, <2>5, <2>6, <2>7, <2>8 DEF Next
<1> QED BY <1>1, <1>2, AlwaysIInv, PTL DEF Spec, UsesTaskPool, Pool!Spec

(* Hence what is proved of TaskPool: a message that was given to the pool  *)
(* waits, or is in one worker's hands, or has had its callback, and none   *)
(* is lost, whatever stop() does meanwhile.                                *)
THEOREM MessagesHandledOnce == Spec => []Pool!InOnePlace /\ Pool!NoneIsLost
<1>0. NoMsg \notin Msgs
  BY BoundsAssumption DEF NoMsg, Msgs
<1>1. Pool!Spec => []Pool!InOnePlace /\ Pool!NoneIsLost
  BY <1>0, Pool!EachOnce, Pool!NeverLost, PTL
<1> QED BY <1>1, ProxyUsesPool, PTL DEF UsesTaskPool
=============================================================================
