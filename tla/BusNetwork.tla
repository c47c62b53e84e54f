---------------------------- MODULE BusNetwork ----------------------------
(***************************************************************************)
(* The connections between the bus server and its clients.  A socket       *)
(* number stands for one connection, from the client's connect() on; it is *)
(* never used again.  A connection is two queues of messages and the state *)
(* of its two ends.  What TCP does is external to the repository and is    *)
(* modelled from what the code relies on:                                  *)
(*                                                                         *)
(*   - messages of one connection arrive in order;                         *)
(*   - an end that was closed, or broke, delivers no more; its peer reads  *)
(*     an end of file or gets an error;                                    *)
(*   - a send on a connection that is no longer whole either fails         *)
(*     (IO::Socket::send croaks) or is accepted by the system and lost.    *)
(***************************************************************************)
EXTENDS Integers, Sequences

CONSTANTS
    Client,         \* programs that use Bus::Client
    MaxSockets,     \* bound: connections made in a behaviour
    NoSocket,
    MaxBreaks       \* bound: connections that break by themselves

Socket == 1..MaxSockets

Everyone == -1      \* TO, in a message that has none

ASSUME NetworkAssumption ==
    /\ MaxSockets \in Nat
    /\ MaxBreaks \in Nat
    /\ NoSocket \notin Socket

VARIABLES
    up,             \* the server process runs and listens
    connections,    \* number of connections made so far
    cEnd,           \* the client's end: "open" or "closed"
    sEnd,           \* the server's end: "open", "reset" (getpeername() fails) or "closed"
    toServer,       \* messages on their way to the server
    toClient,       \* messages on their way to the client
    backlog,        \* connections that wait for accept()
    breaks          \* connections that broke by themselves so far

netVars == <<up, connections, cEnd, sEnd, toServer, toClient, backlog, breaks>>

NetInit ==
    /\ up \in BOOLEAN
    /\ connections = 0
    /\ cEnd = [s \in Socket |-> "closed"]
    /\ sEnd = [s \in Socket |-> "closed"]
    /\ toServer = [s \in Socket |-> <<>>]
    /\ toClient = [s \in Socket |-> <<>>]
    /\ backlog = <<>>
    /\ breaks = 0

---------------------------------------------------------------------------
(* The server's side: Base::Server::Client.  A step of the server sends a
   number of messages, out[s] to each socket s.                            *)

Silence == [s \in Socket |-> <<>>]

To(R, m) == [s \in Socket |-> IF s \in R THEN <<m>> ELSE <<>>]

\* The sends that may fail, if the step sends out.
Failing(out) == SUBSET {s \in Socket : out[s] # <<>> /\ sEnd[s] # "open"}

\* Send out and close the sockets in C, those whose send failed among them
\* (Base/Server/Client.pm:96-100).  What was not read from them is lost.
Post(out, C) ==
    /\ toClient' = [s \in Socket |-> IF s \in C /\ cEnd[s] = "closed" THEN <<>>
                                     ELSE IF sEnd[s] = "open" THEN toClient[s] \o out[s]
                                     ELSE toClient[s]]
    /\ sEnd' = [s \in Socket |-> IF s \in C THEN "closed" ELSE sEnd[s]]
    /\ toServer' = [s \in Socket |-> IF s \in C THEN <<>> ELSE toServer[s]]
    /\ UNCHANGED <<up, connections, cEnd, breaks>>

---------------------------------------------------------------------------
(* The client's side: Bus::SimpleClient.                                   *)

\* The client closes a connection; data that nobody will read or answer for
\* is gone.
Unread(old) == [s \in Socket |-> IF s = old /\ sEnd[s] # "open" THEN <<>> ELSE toClient[s]]

\* connect(): the system puts the connection in the backlog.  The old one
\* is closed when its SimpleClient object goes (DESTROY).
Connect(old, new) ==
    /\ connections' = new
    /\ cEnd' = [s \in Socket |-> IF s = new THEN "open"
                                 ELSE IF s = old THEN "closed" ELSE cEnd[s]]
    /\ sEnd' = [sEnd EXCEPT ![new] = "open"]
    /\ toClient' = Unread(old)
    /\ backlog' = Append(backlog, new)
    /\ UNCHANGED <<up, toServer, breaks>>

Disconnect(old) ==
    /\ cEnd' = [s \in Socket |-> IF s = old THEN "closed" ELSE cEnd[s]]
    /\ toClient' = Unread(old)
    /\ UNCHANGED <<up, connections, sEnd, toServer, backlog, breaks>>

\* send() that reports no error.
Transmit(s, m) ==
    /\ toServer' = IF sEnd[s] = "open"
                   THEN [toServer EXCEPT ![s] = Append(@, m)]
                   ELSE toServer
    /\ UNCHANGED <<up, connections, cEnd, sEnd, toClient, backlog, breaks>>

TransmitFails(s) == sEnd[s] # "open"

---------------------------------------------------------------------------
(* What happens by itself.                                                 *)

\* A connection breaks; both sides find out.
Break(s) ==
    /\ breaks < MaxBreaks
    /\ cEnd[s] = "open" /\ sEnd[s] = "open"
    /\ sEnd' = [sEnd EXCEPT ![s] = "reset"]
    /\ breaks' = breaks + 1
    /\ UNCHANGED <<up, connections, cEnd, toServer, toClient, backlog>>

\* Data that meets an end that was closed is answered with a reset.
Reset(s) ==
    /\ cEnd[s] = "closed" /\ sEnd[s] = "open"
    /\ toClient[s] # <<>>
    /\ sEnd' = [sEnd EXCEPT ![s] = "reset"]
    /\ toClient' = [toClient EXCEPT ![s] = <<>>]
    /\ UNCHANGED <<up, connections, cEnd, toServer, backlog, breaks>>

Network == \E s \in Socket : Break(s) \/ Reset(s)

============================================================================
