---------------------------- MODULE RemoteControl ----------------------------
(***************************************************************************)
(* tests/StateControlTester.cpp, which controls the perception system from *)
(* another process, and as much of the system as answers it, over the      *)
(* pipes of FifoComm: heartbeats with the state in their answer, commands, *)
(* and what the client makes of them.  CommProxy has the proxy's threads,  *)
(* PerceptionSystem the states.                                            *)
(***************************************************************************)
EXTENDS FifoComm

CONSTANTS States, Initial,           \* of the system
          Commanded,                 \* bound: the states the user asks for
          MaxEvents                  \* bound: commands and new clients, together

(* The states, of which the user asks for some; the limits.                *)
ASSUME RemoteAssumption ==
    /\ Initial \in States /\ Commanded \subseteq States
    /\ MAX_RETRIES \in Nat \ {0} /\ Capacity \in Nat /\ MaxEvents \in Nat

VARIABLES
    linked,         \* each proxy's connectionState_ is CONNECTED
    sysState,       \* currentState_ of the system
    answer,         \* the state a PONG is being made of
    todo,           \* commands the server's pool has
    currentState,   \* the client's idea of sysState
    isConnected,    \* of the client
    greeting,       \* the thread that asks for the state on a new connection
    events

serverVars == <<sysState, answer, todo>>
clientVars == <<currentState, isConnected, greeting, events>>
remoteVars == <<fifoVars, linked, serverVars, clientVars>>

Msg(type, state) == [type |-> type, state |-> state]
Nothing == "none"
Both == \A s \in Sides : stage[s] = "open"

RemoteInit == /\ FifoInit
              /\ linked = [s \in Sides |-> FALSE]
              /\ sysState = Initial /\ answer = Nothing /\ todo = {}
              /\ currentState = Nothing /\ isConnected = FALSE
              /\ greeting = FALSE /\ events = 0

-----------------------------------------------------------------------------
(* CommunicationProxy::sendMessage(): nothing unless CONNECTED, and a      *)
(* failure disconnects.                                                    *)
ProxySend(s, m) ==
    IF ~linked[s] THEN UNCHANGED <<fifoVars, linked>>
    ELSE SendMessage(s, m) /\ linked' = [linked EXCEPT ![s] = Sent(s)]

(* The receiving thread finds the pipes open; the client's connection      *)
(* callback believes it and has the state asked for.                       *)
ProxyConnects(s) ==
    /\ stage[s] = "open" /\ ~linked[s]
    /\ linked' = [linked EXCEPT ![s] = TRUE]
    /\ IF s = "client" THEN isConnected' = TRUE /\ greeting' = TRUE
                       ELSE UNCHANGED <<isConnected, greeting>>
    /\ UNCHANGED <<fifoVars, serverVars, currentState, events>>

(* The server's receiving thread: heartbeats are answered on the spot,     *)
(* with the state as it is then; commands go to the pool.                  *)
ServerReceives(n) ==
    /\ answer = Nothing /\ ReceiveMessage("server", n)
    /\ LET line == FirstLine("server", n)
           m == line[1][1]
       IN IF line = <<>> THEN UNCHANGED <<answer, todo>>
          ELSE IF m.type = "PING" THEN answer' = sysState /\ UNCHANGED todo
          ELSE todo' = todo \cup {m} /\ UNCHANGED answer
    /\ UNCHANGED <<linked, sysState, clientVars>>

ServerAnswers ==
    /\ answer # Nothing /\ stage["server"] = "open"
    /\ ProxySend("server", Msg("PONG", answer))
    /\ answer' = Nothing
    /\ UNCHANGED <<sysState, todo, clientVars>>

(* handleCommunicationMessage(): the state that is asked for, or a change  *)
(* of it and its report, "SYSTEM_" and the state.                          *)
ServerWorks(m) ==
    /\ m \in todo /\ todo' = todo \ {m} /\ stage["server"] = "open"
    /\ sysState' = IF m.type = "COMMAND" THEN m.state ELSE sysState
    /\ ProxySend("server", IF m.type = "COMMAND" THEN Msg("SYSTEM", Nothing)
                           ELSE Msg("CURRENT_STATE", sysState))
    /\ UNCHANGED <<answer, clientVars>>

-----------------------------------------------------------------------------
(* The client's write blocks while the pipe is full.                       *)
MaySend == stage["client"] = "open" /\ ~(linked["client"] /\ Reads("server") /\ Full("server"))

(* sendHeartbeat(), of the heartbeat thread, of run(), or of the greeting: *)
(* one that fails disconnects.                                             *)
SendHeartbeat ==
    /\ MaySend
    /\ ProxySend("client", Msg("PING", Nothing))
    /\ isConnected' = (isConnected /\ linked'["client"])
    /\ UNCHANGED <<serverVars, currentState, greeting, events>>

(* sendCommand(), of a user or the greeting: dropped unless connected.     *)
SendCommand(m) ==
    /\ MaySend
    /\ IF isConnected THEN ProxySend("client", m) /\ isConnected' = linked'["client"]
                      ELSE UNCHANGED <<fifoVars, linked, isConnected>>
    /\ UNCHANGED <<serverVars, currentState>>

UserCommands(s) ==
    /\ events < MaxEvents /\ events' = events + 1
    /\ SendCommand(Msg("COMMAND", s)) /\ UNCHANGED greeting

Greets == /\ greeting /\ greeting' = FALSE
          /\ SendCommand(Msg("GET_STATUS", Nothing)) /\ UNCHANGED events

(* checkConnection(): no answer yet, or none for long enough.              *)
CheckConnection ==
    /\ stage["client"] = "open" /\ isConnected
    /\ isConnected' = FALSE
    /\ UNCHANGED <<fifoVars, linked, serverVars, currentState, greeting,
                   events>>

(* Mutant: handleHeartbeat() leaves the state in the answer alone.         *)
HandleNoState(m) ==
    /\ isConnected' = TRUE
    /\ currentState' = IF m.type = "CURRENT_STATE" THEN m.state ELSE currentState

(* handleHeartbeat(), handleStatusReport(): any of them shows that there   *)
(* is a server; the report of a change says nothing the client looks for.  *)
Handle(m) ==
    /\ isConnected' = TRUE
    /\ currentState' = IF m.type \in {"PONG", "CURRENT_STATE"} THEN m.state ELSE currentState

(* A line that is not one throws in the receiving thread: DISCONNECTED.    *)
ClientReceives(n) ==
    /\ ReceiveMessage("client", n)
    /\ LET line == FirstLine("client", n)
       IN IF line = <<>> THEN UNCHANGED <<linked, currentState, isConnected>>
          ELSE IF Whole(line) THEN Handle(line[1][1]) /\ UNCHANGED linked
          ELSE /\ linked' = [linked EXCEPT !["client"] = FALSE] /\ isConnected' = FALSE
               /\ UNCHANGED <<currentState>>
    /\ UNCHANGED <<serverVars, greeting, events>>

-----------------------------------------------------------------------------
(* Either process ends: the server by stop(); the client by 'q', which     *)
(* leaves its heartbeat thread to std::terminate(), or by a signal.        *)
ProcessEnds(s) == Leave(s) /\ UNCHANGED <<linked, serverVars, clientVars>>

ClientStarts ==
    /\ stage["client"] = "gone" /\ events < MaxEvents
    /\ events' = events + 1
    /\ Stage("client", "start")
    /\ linked' = [linked EXCEPT !["client"] = FALSE]
    /\ currentState' = Nothing /\ isConnected' = FALSE
    /\ greeting' = FALSE
    /\ UNCHANGED <<retries, wire, partialData, torn, halfRead, serverVars>>

Connects == Opening /\ UNCHANGED <<linked, serverVars, clientVars>>
ServerRuns == \/ ServerAnswers
              \/ \E n \in Reading("server") : ServerReceives(n)
ServerPool == \E m \in todo : ServerWorks(m)
ClientRuns == \E n \in Reading("client") : ClientReceives(n)

RemoteNext == \/ Connects \/ (\E s \in Sides : ProxyConnects(s)) \/ ServerRuns \/ ServerPool \/ ClientRuns
              \/ SendHeartbeat \/ Greets \/ CheckConnection
              \/ \E s \in Commanded : UserCommands(s)
              \/ \E s \in Sides : ProcessEnds(s)
              \/ ClientStarts

RemoteSpec == RemoteInit /\ [][RemoteNext]_remoteVars

(* The threads of both processes run; the heartbeat thread never stops     *)
(* trying.  Nobody has to give a command, and nobody has to leave.         *)
RemoteFairSpec == /\ RemoteSpec
                  /\ \A s \in Sides : WF_remoteVars(ProxyConnects(s))
                  /\ WF_remoteVars(ServerRuns) /\ WF_remoteVars(ServerPool) /\ WF_remoteVars(ClientRuns)
                  /\ SF_remoteVars(SendHeartbeat) /\ WF_remoteVars(Greets)

-----------------------------------------------------------------------------
(* What a side has yet to take, as messages: the lines in its buffer and   *)
(* then in its pipe.  A process that has ended takes no more of it.  The   *)
(* client's is given up for lost when one goes, or dies, with half a line. *)
Stream(s) == partialData[s] \o wire[s]
MessagesIn(q) == [j \in 1..(Len(q) \div 2) |-> q[2 * j][1]]
Broken == halfRead \/ (stage["client"] = "killed" /\ partialData["client"] # <<>>)
Lost(s) == IF s = "client" THEN Broken ELSE stage[s] \in {"killed", "gone"}
Present == [s \in Sides |-> stage[s] = "open"]
Channels == [s \in Sides |-> IF Lost(s) THEN <<>> ELSE MessagesIn(Stream(s))]

Link == INSTANCE RemoteLink WITH chan <- Channels, present <- Present, broken <- Broken

(* However the pipes are opened, cut, filled and left: the two programs    *)
(* exchange whole messages, none twice, none out of turn, and none is lost *)
(* but with the process that had to take it or in the sending of it        *)
(* (FifoComm.cpp 252-356).                                                 *)
RefinesRemoteLink == Link!Spec

RemoteTypeOK ==
    /\ FifoTypeOK
    /\ linked \in [Sides -> BOOLEAN]
    /\ sysState \in States /\ {answer, currentState} \subseteq States \cup {Nothing}
    /\ {isConnected, greeting} \subseteq BOOLEAN
    /\ events \in 0..MaxEvents

(* As long as both processes run, the client gets to know the state: a     *)
(* change it has not heard of, or an answer that was overtaken by a change, *)
(* is made good by a heartbeat (StateControlTester.cpp 256-284, 300-338).  *)
ClientLearnsState == currentState # sysState /\ Both ~> currentState = sysState \/ ~Both
=============================================================================
