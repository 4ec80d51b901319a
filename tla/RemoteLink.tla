----------------------------- MODULE RemoteLink -----------------------------
(***************************************************************************)
(* What the system and its remote control may rely on, whatever the pipes  *)
(* between them do: each is given the other's messages whole, once, and in *)
(* the order they were sent, until one of the two ends and what it has not *)
(* taken is lost.  The exception is in the open: once a client has gone    *)
(* with half a line, the link to the clients after it is broken.           *)
(***************************************************************************)
EXTENDS Sequences

CONSTANTS States, Initial, Commanded     \* of the system; those a client may ask for

VARIABLES sysState,       \* the state of the system
          answer,         \* the state a heartbeat is answered with
          todo,           \* what the system has been asked and not done
          currentState,   \* the state of the system to the client's knowledge
          chan,           \* chan[s]: the messages that s has yet to take
          present,        \* present[s]: s is at its end of the link
          broken, torn    \* the client may be given anything; has been given it

linkVars == <<sysState, answer, todo, currentState, chan, present, broken, torn>>
systemVars == <<sysState, answer, todo>>

Sides == {"server", "client"}
Msg(type, state) == [type |-> type, state |-> state]
Nothing == "none"

Init == /\ sysState = Initial /\ answer = Nothing /\ todo = {}
        /\ currentState = Nothing
        /\ chan = [s \in Sides |-> <<>>] /\ present = [s \in Sides |-> FALSE]
        /\ ~broken /\ ~torn

-----------------------------------------------------------------------------
(* A side that is away, or goes, may lose all it has not taken; a client   *)
(* that goes may break the link.                                           *)
Loses ==
    /\ \E lost \in SUBSET {s \in Sides : ~present'[s]} :
           chan' = [s \in Sides |-> IF s \in lost THEN <<>> ELSE chan[s]]
    /\ \E gone \in SUBSET Sides : present' = [s \in Sides |-> present[s] /\ s \notin gone]
    /\ broken => broken'
    /\ broken' => broken \/ ~present'["client"]

(* A message arrives behind those sent before, or not at all.              *)
SendTo(s, m) ==
    \/ chan' = [chan EXCEPT ![s] = Append(@, m)] /\ UNCHANGED <<present, broken>>
    \/ Loses

Takes(s) == /\ present[s] /\ chan[s] # <<>>
            /\ chan' = [chan EXCEPT ![s] = Tail(@)] /\ UNCHANGED <<present, broken>>

(* The system takes a message when the last heartbeat is answered.         *)
ServerTakes ==
    /\ answer = Nothing /\ Takes("server")
    /\ LET m == Head(chan["server"])
       IN IF m.type = "PING" THEN answer' = sysState /\ UNCHANGED todo
                             ELSE todo' = todo \cup {m} /\ UNCHANGED answer
    /\ UNCHANGED <<sysState, currentState, torn>>

ServerAnswers ==
    /\ answer # Nothing /\ answer' = Nothing
    /\ SendTo("client", Msg("PONG", answer))
    /\ UNCHANGED <<sysState, todo, currentState, torn>>

ServerWorks(m) ==
    /\ m \in todo /\ todo' = todo \ {m}
    /\ sysState' = IF m.type = "COMMAND" THEN m.state ELSE sysState
    /\ SendTo("client", IF m.type = "COMMAND" THEN Msg("SYSTEM", Nothing)
                        ELSE Msg("CURRENT_STATE", sysState))
    /\ UNCHANGED <<answer, currentState, torn>>

-----------------------------------------------------------------------------
Requests == {Msg("PING", Nothing), Msg("GET_STATUS", Nothing)}
            \cup {Msg("COMMAND", s) : s \in Commanded}

ClientSends == /\ \E m \in Requests : SendTo("server", m)
               /\ UNCHANGED <<systemVars, currentState, torn>>

ClientTakes ==
    /\ Takes("client")
    /\ LET m == Head(chan["client"])
       IN currentState' = IF m.type \in {"PONG", "CURRENT_STATE"} THEN m.state
                          ELSE currentState
    /\ UNCHANGED <<systemVars, torn>>

(* Another client, which knows nothing yet.                                *)
ClientStarts == /\ ~present["client"] /\ currentState' = Nothing
                /\ UNCHANGED <<systemVars, chan, present, broken, torn>>

(* What a client makes of a broken link.                                   *)
ClientMisled == /\ broken /\ present["client"] /\ currentState' \in States \cup {Nothing}
                /\ torn => torn'
                /\ UNCHANGED <<systemVars, chan, present, broken>>

Comes(s) == /\ present' = [present EXCEPT ![s] = TRUE]
            /\ UNCHANGED <<systemVars, currentState, chan, broken, torn>>
Ends == Loses /\ UNCHANGED <<systemVars, currentState, torn>>

Next == \/ ServerTakes \/ ServerAnswers \/ \E m \in todo : ServerWorks(m)
        \/ ClientSends \/ ClientTakes \/ ClientStarts \/ ClientMisled
        \/ Ends \/ \E s \in Sides : Comes(s)

Spec == Init /\ [][Next]_linkVars
=============================================================================
