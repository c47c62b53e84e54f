-------------------------------- MODULE Bus --------------------------------
(***************************************************************************)
(* The bus: the server, its clients and the connections between them.      *)
(***************************************************************************)
EXTENDS BusServer, BusClient

vars == <<netVars, serverVars, clientVars>>

Init == NetInit /\ ServerInit /\ ClientInit

Next ==
    \/ Server /\ UNCHANGED clientVars
    \/ (\E c \in Client : ClientStep(c)) /\ UNCHANGED serverVars
    \/ Network /\ UNCHANGED <<serverVars, clientVars>>

Spec == Init /\ [][Next]_vars

(***************************************************************************)
(* The server calls iterate() for ever and the main loop of each client    *)
(* polls.  Nothing is assumed of the network, of crashes and restarts, or  *)
(* of the users of the bus.                                                *)
(***************************************************************************)
FairSpec ==
    /\ Spec
    /\ WF_vars(Iterate /\ UNCHANGED clientVars)
    /\ \A c \in Client : WF_vars(Poll(c) /\ UNCHANGED serverVars)

---------------------------------------------------------------------------
(* Types.                                                                  *)

ID == 0..MaxSockets

ServerMessage ==
    [mid : {"HELLO", "JOIN", "LEAVE"}, id : ID] \union
    [mid : {"LIST_CLIENTS"}, ids : SUBSET ID] \union
    [mid : {"TALK"}, from : ID, n : 1..MaxSends] \union
    [mid : {"DELIVERY_FAILED", "CLIENT_NOT_FOUND"}, id : ID]

UserMessage ==
    [mid : {"LIST_CLIENTS"}, n : 1..MaxSends] \union
    [mid : {"TALK"}, to : ID \union {Everyone}, n : 1..MaxSends]

ClientMessage == [mid : {"HELLO"}, privateOnly : BOOLEAN] \union UserMessage

\* How many items there are up to index i of slots.
Rank(i) == Cardinality({j \in 1..i : slots[j] # NoSocket})

\* clients is slots without the holes.
Packed ==
    /\ Len(clients) = Rank(Len(slots))
    /\ \A i \in DOMAIN slots : slots[i] # NoSocket => clients[Rank(i)] = slots[i]

\* Types, and the shape of the server's client list: its two arrays hold the
\* same sockets in the same order (ObjectList.pm:88-103), each once, with IDs
\* that differ, and the identified clients are among them.
TypeOK ==
    /\ up \in BOOLEAN
    /\ connections \in 0..MaxSockets
    /\ cEnd \in [Socket -> {"open", "closed"}]
    /\ sEnd \in [Socket -> {"open", "reset", "closed"}]
    /\ toServer \in [Socket -> Seq(ClientMessage)]
    /\ toClient \in [Socket -> Seq(ServerMessage)]
    /\ backlog \in Seq(Socket)
    /\ breaks \in 0..MaxBreaks
    /\ pc \in {"scan", "select", "serve"}
    /\ pos \in 1..MaxSockets + 1
    /\ slots \in Seq(Socket \union {NoSocket})
    /\ clients \in Seq(Socket) /\ Packed
    /\ IsInjective(clients) /\ \A s, t \in Listed : s # t => idOf[s] # idOf[t]
    /\ maxID \in 0..MaxSockets
    /\ idOf \in [Socket -> ID \union {NoID}]
    /\ privateOnly \subseteq identified /\ identified \subseteq Listed
    /\ watched \subseteq Listed /\ ready \subseteq Socket
    /\ inbox \in Seq(ClientMessage)
    /\ crashes \in 0..MaxCrashes
    /\ state \in [Client -> {"NOT_CONNECTED", "HANDSHAKING", "CONNECTED", "GONE"}]
    /\ sock \in [Client -> Socket \union {NoSocket}]
    /\ sendQueue \in [Client -> Seq(UserMessage)]
    /\ phase \in [Client -> {"out", "flush", "drain"}]
    /\ sends \in 0..MaxSends
    /\ view \in [Client -> [listed : BOOLEAN, ids : SUBSET ID]]

---------------------------------------------------------------------------
(* What the clients know of each other.                                    *)

\* What a client that knows v will know once it has read k messages of q.
Heard(v, q) ==
    LET h[k \in 0..Len(q)] == IF k = 0 THEN v ELSE Seen(h[k - 1], q[k])
    IN  h

\* Clients that hear of the others.
Listening == {c \in Client \ PrivateOnly : state[c] = "CONNECTED"}

\* The roster a client keeps from LIST_CLIENTS, JOIN and LEAVE is, once it
\* has read what is under way to it, the server's: the identified clients.
\* Nobody who joins or leaves while the list is under way is missed, and
\* nobody stays who left.  (MainServer.pm:57-64, 133-188)
Roster ==
    \A c \in Listening :
        LET mail == toClient[sock[c]]
            all  == Heard(view[c], mail)[Len(mail)]
        IN  sEnd[sock[c]] = "open" /\ all.listed =>
                all.ids = {idOf[s] : s \in identified}

\* A client hears of another one's arrival before any message from it, and
\* nothing from it after its departure; nobody arrives or departs twice.
\* DialogMaster ends a dialog at LEAVE (Bus/DialogMaster.pm:130) and relies
\* on that.
Announced ==
    \A c \in Listening : \A k \in DOMAIN toClient[sock[c]] :
        LET m == toClient[sock[c]][k]
            v == Heard(view[c], toClient[sock[c]])[k - 1]
        IN  v.listed =>
                /\ m.mid = "TALK"  => m.from \in v.ids
                /\ m.mid = "JOIN"  => m.id \notin v.ids
                /\ m.mid = "LEAVE" => m.id \in v.ids

---------------------------------------------------------------------------
(* What happens to messages.                                               *)

Numbers(q, K) == {q[i].n : i \in {j \in DOMAIN q : q[j].mid \in K}}

User == {"TALK", "LIST_CLIENTS"}

Queued(c) == Numbers(sendQueue[c], User)
Held      == Numbers(inbox, User)
Sent(s)   == Numbers(toServer[s], User)
Mailed(s) == Numbers(toClient[s], {"TALK"})

Waiting == UNION {Queued(c) : c \in Client}
Carried == Held \union UNION {Sent(s) : s \in Socket}
Mail    == UNION {Mailed(s) \X {s} : s \in Socket}

Box == INSTANCE Mailbox WITH
           Receiver <- Socket, accepted <- sends,
           queued <- Waiting, carried <- Carried, mail <- Mail

\* Each message moves on at most once from the queue to the server and from
\* there to each receiver, over lost connections, retries and restarts.
AtMostOnce == Box!Spec

\* "Once reconnected, all queued messages will be sent" (Bus/Client.pm:244):
\* no message waits for ever, if the server is up in the end.
QueuedAreSent ==
    <>[]up => \A c \in Client : \A n \in 1..MaxSends :
                  n \in Queued(c) ~> n \notin Queued(c)

---------------------------------------------------------------------------
(* What removal during iteration does.                                     *)

\* "It is safe to remove items during iteration" (Utils/ObjectList.pm:271):
\* when the server waits, it waits for every client whose connection was
\* good when the scan began.
NobodySkipped ==
    pc = "select" => \A s \in Listed : sEnd[s] = "open" => s \in watched

============================================================================
