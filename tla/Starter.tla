------------------------------ MODULE Starter ------------------------------
(***************************************************************************)
(* How bus clients find or launch a bus server: Bus/Server/Starter.pm, the *)
(* states of Bus/Client.pm around it, the server processes they launch     *)
(* (bus-server.pl), and Utils/Daemon.pm between them.  The clients are     *)
(* made without a host and a port.                                         *)
(*                                                                         *)
(* Servers are the numbers of the launches; a server's number stands for   *)
(* its host and port, which no later server gets again.                    *)
(***************************************************************************)
EXTENDS Integers, Daemon

CONSTANTS
    MaxAccidents    \* bound: servers that end, launches and files that fail,
                    \* time-outs while a server is starting

ASSUME StarterAssumption ==
    /\ Server \subseteq Int
    /\ MaxAccidents \in Nat

VARIABLES
    state,      \* of the Bus::Client
    starter,    \* the state its Starter is left in between two polls
    address,    \* host and port the client connects to
    accidents

clientVars == <<state, starter, address>>
vars == <<daemonVars, clientVars, accidents>>

TypeOK ==
    /\ DaemonTypeOK
    /\ state \in [Client -> {"STARTING_SERVER", "HANDSHAKING", "CONNECTED",
                             "NOT_CONNECTED"}]
    /\ starter \in [Client -> {"NOT_STARTED", "STARTING"}]
    /\ address \in [Client -> Server \union {None, Blank}]
    /\ accidents \in 0..MaxAccidents

Init ==
    /\ DaemonInit
    /\ state = [c \in Client |-> "STARTING_SERVER"]
    /\ starter = [c \in Client |-> "NOT_STARTED"]
    /\ address = [c \in Client |-> None]
    /\ accidents = 0

Accident == accidents < MaxAccidents /\ accidents' = accidents + 1

Unborn == {s \in Server : pc[s] = "unborn"}

\* Connecting to it succeeds: its socket is there.
Listening(s) == s \in Server /\ pc[s] \in {"create", "write", "publish", "serve"}

---------------------------------------------------------------------------
(* iterate() of the Starter: getInfo(), then what its answer leads to.     *)

Poll(c) ==
    /\ state[c] = "STARTING_SERVER"
    /\ AskLock(c)
    /\ UNCHANGED <<clientVars, accidents>>

InGetInfo(c) ==
    /\ GetInfoStep(c)
    /\ UNCHANGED <<clientVars, accidents>>

Answered(c, found) ==
    /\ pc[c] = "answered"
    /\ (answer[c] # None) = found
    /\ UNCHANGED <<holder, info, answer, state>>

Started(c) ==
    /\ Answered(c, TRUE)
    /\ Goto(c, "connect")
    /\ address' = [address EXCEPT ![c] = answer[c]]
    /\ UNCHANGED <<starter, accidents>>

Launch(c) ==
    /\ Answered(c, FALSE)
    /\ starter[c] = "NOT_STARTED"
    /\ \E s \in Unborn :
        /\ \A t \in Unborn : s <= t
        /\ pc' = [pc EXCEPT ![c] = "idle", ![s] = "init"]
    /\ starter' = [starter EXCEPT ![c] = "STARTING"]
    /\ UNCHANGED <<address, accidents>>

\* FAILED: the client tries again with a new Starter.
LaunchFails(c) ==
    /\ Answered(c, FALSE)
    /\ starter[c] = "NOT_STARTED"
    /\ Goto(c, "idle")
    /\ Accident
    /\ UNCHANGED <<starter, address>>

Wait(c) ==
    /\ Answered(c, FALSE)
    /\ starter[c] = "STARTING"
    /\ Goto(c, "idle")
    /\ UNCHANGED <<starter, address, accidents>>

Alive == {s \in Server : pc[s] \notin {"unborn", "refused", "abandon", "gone"}}

\* Ten seconds have passed: FAILED, and a new Starter; a mutant keeps the old
\* one.
TimeOutKeeps(c) ==
    /\ Answered(c, FALSE)
    /\ starter[c] = "STARTING"
    /\ Goto(c, "idle")
    /\ IF Alive = {} THEN UNCHANGED accidents ELSE Accident
    /\ UNCHANGED <<address, starter>>

TimeOut(c) ==
    /\ Answered(c, FALSE)
    /\ starter[c] = "STARTING"
    /\ Goto(c, "idle")
    /\ starter' = [starter EXCEPT ![c] = "NOT_STARTED"]
    /\ IF Alive = {} THEN UNCHANGED accidents ELSE Accident
    /\ UNCHANGED address

---------------------------------------------------------------------------
(* The connection.                                                         *)

\* reconnect() of a client whose Starter is STARTED.  When it fails, the
\* client is NOT_CONNECTED; it tries again every five seconds, in vain.
Connect(c) ==
    /\ Step(c, "connect", "idle")
    /\ state' = [state EXCEPT ![c] = IF Listening(address[c])
                                     THEN "HANDSHAKING" ELSE "NOT_CONNECTED"]
    /\ UNCHANGED <<holder, info, answer, starter, address, accidents>>

\* The server's HELLO arrives and is answered.
Handshake(c) ==
    /\ state[c] = "HANDSHAKING"
    /\ pc[address[c]] = "serve"
    /\ state' = [state EXCEPT ![c] = "CONNECTED"]
    /\ UNCHANGED <<daemonVars, starter, address, accidents>>

\* handleIOException(): the server of the connection is gone.
Lost(c) ==
    /\ state[c] \in {"HANDSHAKING", "CONNECTED"}
    /\ pc[c] # "gone"
    /\ ~Listening(address[c])
    /\ state' = [state EXCEPT ![c] = "STARTING_SERVER"]
    /\ starter' = [starter EXCEPT ![c] = "NOT_STARTED"]
    /\ UNCHANGED <<daemonVars, address, accidents>>

Quit(c) ==
    /\ Exit(c)
    /\ UNCHANGED <<clientVars, accidents>>

---------------------------------------------------------------------------
(* The server processes.                                                   *)

BeginInit(s) ==
    /\ InitLock(s)
    /\ UNCHANGED <<clientVars, accidents>>

InInit(s) ==
    /\ DaemonStep(s)
    /\ UNCHANGED <<clientVars, accidents>>

InfoFails(s) ==
    /\ CannotCreateInfo(s)
    /\ Accident
    /\ UNCHANGED clientVars

\* startServer() fails, a signal, an uncaught error.
Crash(s) ==
    /\ Exit(s)
    /\ Accident
    /\ UNCHANGED clientVars

---------------------------------------------------------------------------

ClientNext(c) ==
    \/ Poll(c) \/ InGetInfo(c)
    \/ Started(c) \/ Launch(c) \/ LaunchFails(c) \/ Wait(c) \/ TimeOut(c)
    \/ Connect(c) \/ Handshake(c) \/ Lost(c) \/ Quit(c)

ServerNext(s) == BeginInit(s) \/ InInit(s) \/ InfoFails(s) \/ Crash(s)

Next == (\E c \in Client : ClientNext(c)) \/ (\E s \in Server : ServerNext(s))

Spec == Init /\ [][Next]_vars

Progress(c) ==
    \/ Poll(c) \/ InGetInfo(c) \/ Started(c) \/ Launch(c) \/ Wait(c)
    \/ Connect(c) \/ Handshake(c) \/ Lost(c)

\* Processes go on, waiting for a lock ends if the lock is free again and
\* again (the system queues those who wait), and ten seconds pass.
Fairness ==
    /\ \A c \in Client : SF_vars(Progress(c)) /\ SF_vars(TimeOut(c) /\ Alive = {})
    /\ \A s \in Server : SF_vars(BeginInit(s) \/ InInit(s))

FairSpec == Spec /\ Fairness

---------------------------------------------------------------------------
(* Properties.                                                             *)

\* At most one server is past its run lock and not on its way out, though
\* every client may launch one and time out while it starts: nobody
\* connects to a second bus.
OneServer ==
    \A s, t \in Server : Listening(s) /\ Listening(t) => s = t

\* What getInfo() returns is the server that was running, or undef when none
\* was, at one moment of the call; never an address half written or of a
\* server that was gone before.
Running == IF holder.runlock \in Server /\ pc[holder.runlock] = "serve"
           THEN holder.runlock ELSE None

Learnt == [c \in Client |-> CASE pc[c] = "gone" -> None
                              [] pc[c] = "read" -> info
                              [] OTHER          -> answer[c]]

Registry == INSTANCE Singleton WITH instance <- Running, told <- Learnt

RegistrySpec == Registry!Spec

Settled(c) == state[c] = "CONNECTED" \/ pc[c] = "gone"

\* After the last failure every client gets connected, unless the server
\* ended between getInfo() and reconnect(): then the client keeps to its
\* address.
ConnectedOrStranded ==
    \A c \in Client : <>[](Settled(c) \/ state[c] = "NOT_CONNECTED")

\* "If the connection with the bus broke ... we'll attempt to reconnect (or
\* restart the bus server) on the next iteration" (Bus/Client.pm:240-242): a
\* client gets connected again after the last failure.
Connected == \A c \in Client : <>[]Settled(c)
============================================================================
