----------------------------- MODULE BusClient -----------------------------
(***************************************************************************)
(* A client of the bus: Bus/Client.pm on Bus/SimpleClient.pm, for a server *)
(* at a given host and port.  The main loop polls iterate(); plugins call  *)
(* send(), between two polls or in a callback while iterate() reads.       *)
(*                                                                         *)
(* phase tells apart what state does not:                                  *)
(*   "out"    outside iterate(), or reading in it while connected          *)
(*   "flush"  in the loop that sends the queue (Bus/Client.pm:121-124)     *)
(*   "drain"  reading goes on in iterate() though a callback's send failed *)
(*            and the state is NOT_CONNECTED (lines 132-156)               *)
(***************************************************************************)
EXTENDS BusNetwork

CONSTANTS
    PrivateOnly,    \* clients made with privateOnly
    MaxSends        \* bound: calls of send() in a behaviour

ASSUME ClientAssumption == MaxSends \in Nat

VARIABLES
    state, sock, sendQueue, phase,
    sends,          \* calls of send() so far; a message is known by its number
    view            \* the roster a user of the bus keeps from what it receives

clientVars == <<state, sock, sendQueue, phase, sends, view>>

NewView == [listed |-> FALSE, ids |-> {}]

ClientInit ==
    /\ state = [c \in Client |-> "NOT_CONNECTED"]
    /\ sock = [c \in Client |-> NoSocket]
    /\ sendQueue = [c \in Client |-> <<>>]
    /\ phase = [c \in Client |-> "out"]
    /\ sends = 0
    /\ view = [c \in Client |-> NewView]

\* What a user of the bus learns from a message.
Seen(v, m) ==
    CASE m.mid = "LIST_CLIENTS" -> [listed |-> TRUE, ids |-> m.ids]
      [] m.mid = "JOIN"         -> [v EXCEPT !.ids = @ \union {m.id}]
      [] m.mid = "LEAVE"        -> [v EXCEPT !.ids = @ \ {m.id}]
      [] OTHER                  -> v

---------------------------------------------------------------------------
(* Getting connected.                                                      *)

\* reconnect(): of the constructor at first, then when the time is over.
\* While the server is down it fails and changes the time only.
Reconnect(c) ==
    /\ up
    /\ state[c] = "NOT_CONNECTED" /\ phase[c] = "out"
    /\ connections < MaxSockets
    /\ Connect(sock[c], connections + 1)
    /\ sock' = [sock EXCEPT ![c] = connections + 1]
    /\ state' = [state EXCEPT ![c] = "HANDSHAKING"]
    /\ UNCHANGED <<sendQueue, phase, sends, view>>

\* The first message is taken for the server's HELLO.
Handshake(c) ==
    /\ state[c] = "HANDSHAKING"
    /\ toClient[sock[c]] # <<>>
    /\ view' = [view EXCEPT ![c] = NewView]
    /\ UNCHANGED <<phase, sends>>

AnswerHello(c) ==
    /\ Handshake(c)
    /\ LET hello == [mid |-> "HELLO", privateOnly |-> c \in PrivateOnly]
       IN  toServer' = IF sEnd[sock[c]] = "open"
                       THEN [toServer EXCEPT ![sock[c]] = Append(@, hello)]
                       ELSE toServer
    /\ toClient' = [toClient EXCEPT ![sock[c]] = Tail(@)]
    /\ state' = [state EXCEPT ![c] = "CONNECTED"]
    /\ UNCHANGED <<sock, sendQueue>>
    /\ UNCHANGED <<up, connections, cEnd, sEnd, backlog, breaks>>

\* The program ends, and with it its socket and its queue.
End(c) ==
    /\ Disconnect(sock[c])
    /\ state' = [state EXCEPT ![c] = "GONE"]
    /\ sock' = [sock EXCEPT ![c] = NoSocket]
    /\ sendQueue' = [sendQueue EXCEPT ![c] = <<>>]
    /\ view' = [view EXCEPT ![c] = NewView]

\* Sending the answer throws, and nothing catches it (lines 111-114): the
\* program ends.
AnswerFails(c) ==
    /\ Handshake(c)
    /\ TransmitFails(sock[c])
    /\ End(c)

\* handleIOException() because of a read.  What the parser still holds is
\* lost with the SimpleClient object.
Lost(c) ==
    /\ \/ state[c] = "HANDSHAKING"
       \/ state[c] = "CONNECTED" /\ sendQueue[c] = <<>>
       \/ phase[c] = "drain"
    /\ sEnd[sock[c]] # "open"
    /\ state' = [state EXCEPT ![c] = "NOT_CONNECTED"]
    /\ phase' = [phase EXCEPT ![c] = "out"]
    /\ UNCHANGED <<sock, sendQueue, sends, view>>
    /\ UNCHANGED netVars

---------------------------------------------------------------------------
(* Sending.                                                                *)

Enqueue(c, m) == sendQueue' = [sendQueue EXCEPT ![c] = Append(@, m)]

\* What a user of the bus sends: private messages go to clients it knows of.
Requests(c) ==
    {[mid |-> "LIST_CLIENTS", n |-> sends + 1]} \union
    [mid : {"TALK"}, to : view[c].ids \union {Everyone}, n : {sends + 1}]

Sends(c) ==
    /\ sends < MaxSends
    /\ phase[c] # "flush" /\ state[c] # "GONE"
    /\ sends' = sends + 1
    /\ UNCHANGED <<sock, view>>

SendDirect(c, m) ==
    /\ Sends(c)
    /\ state[c] = "CONNECTED"
    /\ Transmit(sock[c], m)
    /\ UNCHANGED <<state, sendQueue, phase>>

\* handleIOException() because of a send, in a callback or not.
SendFails(c, m) ==
    /\ Sends(c)
    /\ state[c] = "CONNECTED"
    /\ TransmitFails(sock[c])
    /\ Enqueue(c, m)
    /\ state' = [state EXCEPT ![c] = "NOT_CONNECTED"]
    /\ \/ UNCHANGED phase
       \/ sendQueue[c] = <<>> /\ phase' = [phase EXCEPT ![c] = "drain"]
    /\ UNCHANGED netVars

SendLater(c, m) ==
    /\ Sends(c)
    /\ state[c] # "CONNECTED"
    /\ Enqueue(c, m)
    /\ UNCHANGED <<state, phase>>
    /\ UNCHANGED netVars

Send(c) == \E m \in Requests(c) : SendDirect(c, m) \/ SendFails(c, m) \/ SendLater(c, m)

\* Mutant: the last message stays in the queue.
FlushingAllButOne(c) == state[c] = "CONNECTED" /\ Len(sendQueue[c]) > 1

\* The queue is flushed before anything is read; a message that cannot be
\* sent goes to its end.
Flushing(c) == state[c] = "CONNECTED" /\ sendQueue[c] # <<>>

\* Mutant: the message is sent and stays in the queue till the next round.
FlushPeeks(c) ==
    /\ Flushing(c)
    /\ Transmit(sock[c], Head(sendQueue[c]))
    /\ UNCHANGED clientVars

Flush(c) ==
    /\ Flushing(c)
    /\ Transmit(sock[c], Head(sendQueue[c]))
    /\ sendQueue' = [sendQueue EXCEPT ![c] = Tail(@)]
    /\ phase' = [phase EXCEPT ![c] = IF Tail(sendQueue[c]) = <<>> THEN "out" ELSE "flush"]
    /\ UNCHANGED <<state, sock, sends, view>>

FlushFails(c) ==
    /\ Flushing(c)
    /\ TransmitFails(sock[c])
    /\ sendQueue' = [sendQueue EXCEPT ![c] = Append(Tail(@), Head(@))]
    /\ state' = [state EXCEPT ![c] = "NOT_CONNECTED"]
    /\ phase' = [phase EXCEPT ![c] = "out"]
    /\ UNCHANGED <<sock, sends, view>>
    /\ UNCHANGED netVars

---------------------------------------------------------------------------
(* Receiving.                                                              *)

Read(c) ==
    /\ \/ state[c] = "CONNECTED" /\ sendQueue[c] = <<>>
       \/ phase[c] = "drain"
    /\ toClient[sock[c]] # <<>>
    /\ view' = [view EXCEPT ![c] = Seen(@, Head(toClient[sock[c]]))]
    /\ toClient' = [toClient EXCEPT ![sock[c]] = Tail(@)]
    /\ UNCHANGED <<state, sock, sendQueue, phase, sends>>
    /\ UNCHANGED <<up, connections, cEnd, sEnd, toServer, backlog, breaks>>

\* readNext() returned nothing; so does iterate().
Drained(c) ==
    /\ phase[c] = "drain"
    /\ phase' = [phase EXCEPT ![c] = "out"]
    /\ UNCHANGED <<state, sock, sendQueue, sends, view>>
    /\ UNCHANGED netVars

---------------------------------------------------------------------------

\* The user ends the program.  Bound: the last one does not, as there is nobody left
\* to hear of it.
Quit(c) ==
    /\ state[c] # "GONE" /\ phase[c] = "out"
    /\ \E d \in Client \ {c} : state[d] # "GONE"
    /\ End(c)
    /\ UNCHANGED <<phase, sends>>

\* One poll of iterate(), or a part of it.
Poll(c) ==
    \/ Reconnect(c) \/ AnswerHello(c) \/ AnswerFails(c) \/ Lost(c)
    \/ Flush(c) \/ FlushFails(c) \/ Read(c) \/ Drained(c)

ClientStep(c) == Poll(c) \/ Send(c) \/ Quit(c)

============================================================================
