------------------------------ MODULE FifoComm ------------------------------
(***************************************************************************)
(* com/FifoComm.cpp: two named pipes between one server and one client,    *)
(* from their opening with its retries to their closing, and the lines     *)
(* that go through them.  A line is two halves, since a read takes what    *)
(* its buffer holds of the pipe; it is written whole or not at all, being  *)
(* shorter than PIPE_BUF.  A process that ends closes its ends.            *)
(***************************************************************************)
EXTENDS Naturals, Sequences

CONSTANTS MAX_RETRIES,   \* openPipesWithRetry()
          Capacity       \* halves of lines a pipe holds

Sides == {"server", "client"}
Other(s) == IF s = "server" THEN "client" ELSE "server"

VARIABLES
    stage,          \* how far each side is with its pipes; "killed": by SIGPIPE
    retries,        \* of the server
    wire,           \* what is in the pipe to each side
    partialData,    \* partialData_ of each side
    torn,           \* history: the client was given a line that is not one
    halfRead        \* history: a client went away with half a line in partialData_

fifoVars == <<stage, retries, wire, partialData, torn, halfRead>>

Stages == {"start", "in", "out", "retry", "open", "gone", "killed"}

FifoInit == /\ stage = [s \in Sides |-> "start"]
            /\ retries = 0
            /\ wire = [s \in Sides |-> <<>>] /\ partialData = [s \in Sides |-> <<>>]
            /\ torn = FALSE /\ halfRead = FALSE

(* Which end of the pipe to s is open.                                     *)
Reads(s) == stage[s] = "open" \/ (s = "server" /\ stage[s] = "out")
Writes(s) == stage[s] = "open" \/ (s = "client" /\ stage[s] = "out")
PipesExist == stage["server"] \notin {"start", "gone"}

Stage(s, x) == stage' = [stage EXCEPT ![s] = x]
Opens == UNCHANGED <<wire, partialData, torn, halfRead>>

-----------------------------------------------------------------------------
(* createPipes(), checkPipesExist().                                       *)
Create(s) ==
    /\ stage[s] = "start"
    /\ Stage(s, IF s = "server" \/ PipesExist THEN "in" ELSE "gone")
    /\ Opens /\ UNCHANGED retries

(* The first pipe is the server's inbound one; open() blocks until the     *)
(* other side has opened it, or is opening it.                             *)
OpenFirst(s) ==
    /\ stage[s] = "in"
    /\ IF stage[Other(s)] = "in" THEN stage' = [x \in Sides |-> "out"]
       ELSE (IF s = "server" THEN Writes("client") ELSE Reads("server")) /\ Stage(s, "out")
    /\ Opens /\ UNCHANGED retries

(* The second one is opened without blocking: by the client always, by the *)
(* server only if the client reads it already.  A server that failed       *)
(* closes the first one again.                                             *)
OpenSecond(s) ==
    /\ stage[s] = "out"
    /\ IF s = "client" THEN Stage(s, "open") /\ UNCHANGED retries
       ELSE IF Reads("client") THEN Stage(s, "open") /\ retries' = 0
       ELSE /\ retries' = retries + 1
            /\ Stage(s, IF retries' = MAX_RETRIES THEN "gone" ELSE "retry")
    /\ Opens

Retry == stage["server"] = "retry" /\ Stage("server", "in") /\ Opens /\ UNCHANGED retries

Opening == Retry \/ \E s \in Sides : Create(s) \/ OpenFirst(s) \/ OpenSecond(s)

-----------------------------------------------------------------------------
Full(s) == Len(wire[s]) + 2 > Capacity
Line(m) == << <<m, "head">>, <<m, "tail">> >>

(* Mutant: a full pipe takes the line.                                     *)
SendBeyondCapacity(s, m) ==
    /\ stage[s] = "open"
    /\ UNCHANGED <<retries, partialData, torn, halfRead>>
    /\ IF ~Reads(Other(s)) THEN Stage(s, "killed") /\ UNCHANGED wire
       ELSE UNCHANGED stage /\ wire' = [wire EXCEPT ![Other(s)] = @ \o Line(m)]

(* sendMessage(), of s: into a pipe nobody reads, the write ends the       *)
(* process, which ignores no signal; into a full one, the server's fails.  *)
SendMessage(s, m) ==
    /\ stage[s] = "open"
    /\ UNCHANGED <<retries, partialData, torn, halfRead>>
    /\ IF ~Reads(Other(s)) THEN Stage(s, "killed") /\ UNCHANGED wire
       ELSE /\ UNCHANGED stage
            /\ wire' = IF Full(Other(s)) THEN wire
                       ELSE [wire EXCEPT ![Other(s)] = @ \o Line(m)]
Sent(s) == Reads(Other(s)) /\ ~Full(Other(s))

Ends(data) == {i \in DOMAIN data : data[i][2] = "tail"}
FirstEnd(data) == CHOOSE i \in Ends(data) : \A j \in Ends(data) : i <= j
Whole(line) == Len(line) = 2 /\ line[1] = <<line[2][1], "head">>

(* What receiveMessage() looks at: partialData_ if it holds a line, or     *)
(* else with the next n halves of the pipe.  It gives one line at most.    *)
Reading(s) == IF Ends(partialData[s]) # {} THEN {0} ELSE 1..Len(wire[s])
Data(s, n) == partialData[s] \o SubSeq(wire[s], 1, n)
FirstLine(s, n) == LET data == Data(s, n)
                   IN IF Ends(data) = {} THEN <<>> ELSE SubSeq(data, 1, FirstEnd(data))

Receives(s, n, rest) ==
    /\ stage[s] = "open" /\ n \in Reading(s)
    /\ wire' = [wire EXCEPT ![s] = SubSeq(@, n + 1, Len(@))]
    /\ partialData' = [partialData EXCEPT ![s] = rest]
    /\ torn' = (torn \/ (FirstLine(s, n) # <<>> /\ ~Whole(FirstLine(s, n))))
    /\ UNCHANGED <<stage, retries, halfRead>>

(* Mutant: what was read after the first line is forgotten.                *)
ReceiveForgetting(s, n) ==
    Receives(s, n, IF FirstLine(s, n) = <<>> THEN Data(s, n) ELSE <<>>)

ReceiveMessage(s, n) ==
    Receives(s, n, SubSeq(Data(s, n), Len(FirstLine(s, n)) + 1, Len(Data(s, n))))

(* cleanup(), or the end of the process.  A pipe nobody has open is empty. *)
Leave(s) ==
    /\ stage[s] \notin {"start", "gone"}
    /\ Stage(s, "gone")
    /\ partialData' = [partialData EXCEPT ![s] = <<>>]
    /\ halfRead' = (halfRead \/ (s = "client" /\ partialData[s] # <<>>))
    /\ wire' = [x \in Sides |-> IF IF x = s THEN Writes(Other(s)) ELSE Reads(x)
                                THEN wire[x] ELSE <<>>]
    /\ UNCHANGED <<retries, torn>>

FifoTypeOK ==
    /\ stage \in [Sides -> Stages] /\ retries \in 0..MAX_RETRIES
    /\ \A s \in Sides : Len(wire[s]) <= Capacity
    /\ {torn, halfRead} \subseteq BOOLEAN

(* However the pipe is read, the lines come out as they were put in: a     *)
(* client may be given a line that is not one only after another client    *)
(* left with the beginning of it (FifoComm.cpp 304-356, 252-275).          *)
LinesArriveWhole == torn => halfRead

(* A peer that goes away is noticed by the write that fails, which is what *)
(* sendMessage() says of itself (FifoComm.cpp 287-296).                    *)
PeerLossIsNoticed == \A s \in Sides : stage[s] # "killed"
=============================================================================
