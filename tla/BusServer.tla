----------------------------- MODULE BusServer -----------------------------
(***************************************************************************)
(* The bus server: Bus/Server/MainServer.pm on Bus/Server/AbstractServer.pm *)
(* on Base/Server.pm, run by bus-server.pl, which calls iterate(-1) for    *)
(* ever.  One call of iterate() is three loops:                            *)
(*                                                                         *)
(*   pc = "scan"    connections that are gone leave, the others are put    *)
(*                  in the bit field for select() (Base/Server.pm:164-172) *)
(*   pc = "select"  the call that waits (175-184)                          *)
(*   pc = "serve"   data and ends of file of the clients (187-201)         *)
(*                                                                         *)
(* Both loops walk over the array that _exitClient() takes an item out of: *)
(* pos is the index of the walk, and after a removal it has passed over    *)
(* the item that moved up.                                                 *)
(***************************************************************************)
EXTENDS BusNetwork, SequencesExt

CONSTANT MaxCrashes     \* bound: times the server process ends

ASSUME ServerAssumption == MaxCrashes \in Nat

VARIABLES
    pc, pos,        \* where iterate() is
    slots,          \* OL_items of the client list: sockets and holes
    clients,        \* OL_cItems, the same without the holes
    maxID,          \* BAS_maxID
    idOf,           \* the ID of a socket's client, if BAS_busClients has one
    identified,     \* sockets whose client is IDENTIFIED
    privateOnly,    \* sockets whose client wants private messages only
    watched,        \* sockets in the bit field given to select()
    ready,          \* sockets in the bit field select() returned
    inbox,          \* messages of the client at pos, received but not processed
    crashes         \* times the server process ended so far

serverVars == <<pc, pos, slots, clients, maxID, idOf, identified, privateOnly,
                watched, ready, inbox, crashes>>

NoID == -1

ServerInit ==
    /\ pc = "scan"
    /\ pos = 1
    /\ slots = <<>>
    /\ clients = <<>>
    /\ maxID = 0
    /\ idOf = [s \in Socket |-> NoID]
    /\ identified = {}
    /\ privateOnly = {}
    /\ watched = {}
    /\ ready = {}
    /\ inbox = <<>>
    /\ crashes = 0

---------------------------------------------------------------------------
(* The client list, an ObjectList.                                         *)

Listed == {clients[i] : i \in DOMAIN clients}

\* Mutant: the index of the new item is the number of items.
SizeIndex == Len(clients) + 1

\* _findEmptyIndex()
FirstHole ==
    CHOOSE i \in 1..Len(slots) + 1 :
        /\ i = Len(slots) + 1 \/ slots[i] = NoSocket
        /\ \A j \in 1..(i - 1) : slots[j] # NoSocket

\* add(): the item goes to the same index of both arrays.
Add(s) ==
    /\ slots' = IF FirstHole > Len(slots)
                THEN Append(slots, s)
                ELSE [slots EXCEPT ![FirstHole] = s]
    /\ clients' = InsertAt(clients, FirstHole, s)

\* _findItem(), in the array without the holes.
Find(s) == CHOOSE i \in DOMAIN clients :
               clients[i] = s /\ \A j \in 1..(i - 1) : clients[j] # s

\* remove(); holes at the end, which Perl cuts off, make no difference to
\* the next add().
Take(s) ==
    /\ slots' = [i \in DOMAIN slots |-> IF slots[i] = s THEN NoSocket ELSE slots[i]]
    /\ clients' = RemoveAt(clients, Find(s))

---------------------------------------------------------------------------
(* Messages to clients.                                                    *)

Hello(i)     == [mid |-> "HELLO", id |-> i]
Join(i)      == [mid |-> "JOIN", id |-> i]
Leave(i)     == [mid |-> "LEAVE", id |-> i]
Listing(I)   == [mid |-> "LIST_CLIENTS", ids |-> I]
Talk(i, n)   == [mid |-> "TALK", from |-> i, n |-> n]
Notice(k, i) == [mid |-> k, id |-> i]

\* Whom broadcast() reaches, except the client it excludes.
Audience(s) == {t \in Listed : t \in identified /\ t \notin privateOnly /\ t # s}

\* What a client's departure makes the server send; and mutants of it that
\* announce too little, and too much.
NoFarewell(s) == Silence
BlindFarewell(s) == To(Audience(s), Leave(idOf[s]))
Farewell(s) == IF s \in identified THEN BlindFarewell(s) ELSE Silence

\* _exitClient() with onClientExit().  The ID is deleted before LEAVE is
\* broadcast, so the client that leaves is not sent to; its socket closes
\* when the object goes.
Exit(s) ==
    /\ \E failed \in Failing(Farewell(s)) : Post(Farewell(s), failed \union {s})
    /\ Take(s)
    /\ identified' = identified \ {s}
    /\ privateOnly' = privateOnly \ {s}
    /\ idOf' = [idOf EXCEPT ![s] = NoID]
    /\ UNCHANGED <<maxID, backlog, crashes>>

---------------------------------------------------------------------------
(* The first loop of iterate().                                            *)

Scanning == up /\ pc = "scan"

Watch ==
    /\ Scanning /\ pos <= Len(clients)
    /\ sEnd[clients[pos]] = "open"
    /\ watched' = watched \union {clients[pos]}
    /\ pos' = pos + 1
    /\ UNCHANGED <<pc, slots, clients, maxID, idOf, identified, privateOnly, ready, inbox, crashes>>
    /\ UNCHANGED netVars

ExitDisconnected ==
    /\ Scanning /\ pos <= Len(clients)
    /\ sEnd[clients[pos]] # "open"
    /\ Exit(clients[pos])
    /\ pos' = pos + 1
    /\ UNCHANGED <<pc, watched, ready, inbox>>

ScanDone ==
    /\ Scanning /\ pos > Len(clients)
    /\ pc' = "select"
    /\ pos' = 1
    /\ UNCHANGED <<slots, clients, maxID, idOf, identified, privateOnly, watched, ready, inbox, crashes>>
    /\ UNCHANGED netVars

---------------------------------------------------------------------------
(* select() without a time-out.                                            *)

Closed == {s \in watched : sEnd[s] = "closed"}

Readable == {s \in Socket \intersect watched :
                toServer[s] # <<>> \/ cEnd[s] = "closed" \/ sEnd[s] = "reset"}

\* A descriptor was closed after it was put in the bit field: select()
\* fails, and iterate() returns.
BadDescriptor ==
    /\ up /\ pc = "select"
    /\ Closed # {}
    /\ pc' = "scan"
    /\ watched' = {}
    /\ UNCHANGED <<pos, slots, clients, maxID, idOf, identified, privateOnly, ready, inbox, crashes>>
    /\ UNCHANGED netVars

Wakes ==
    /\ up /\ pc = "select"
    /\ Closed = {}
    /\ ready' = Readable
    /\ watched' = {}
    /\ pc' = "serve"
    /\ UNCHANGED <<pos, inbox, crashes>>

Wake ==
    /\ backlog = <<>> /\ Readable # {}
    /\ Wakes
    /\ UNCHANGED <<slots, clients, maxID, idOf, identified, privateOnly>>
    /\ UNCHANGED netVars

\* _newClient() with onClientNew(): one connection is accepted, its client
\* gets an ID and is told so.
Accept ==
    /\ backlog # <<>>
    /\ Wakes
    /\ LET s   == Head(backlog)
           out == To({s}, Hello(maxID))
       IN  /\ Add(s)
           /\ idOf' = [idOf EXCEPT ![s] = maxID]
           /\ \E failed \in Failing(out) : Post(out, failed)
    /\ maxID' = maxID + 1
    /\ backlog' = Tail(backlog)
    /\ UNCHANGED <<identified, privateOnly>>

---------------------------------------------------------------------------
(* The second loop of iterate().                                           *)

AtClient == up /\ pc = "serve" /\ inbox = <<>> /\ pos <= Len(clients)

PassOver ==
    /\ AtClient
    /\ clients[pos] \notin ready
    /\ pos' = pos + 1
    /\ UNCHANGED <<pc, slots, clients, maxID, idOf, identified, privateOnly, watched, ready, inbox, crashes>>
    /\ UNCHANGED netVars

\* recv() and the parser: some of the messages have arrived in full.
Receive ==
    /\ AtClient
    /\ LET s == clients[pos]
       IN  /\ s \in ready
           /\ sEnd[s] # "closed"
           /\ \E k \in 1..Len(toServer[s]) :
                /\ inbox' = SubSeq(toServer[s], 1, k)
                /\ toServer' = [toServer EXCEPT ![s] = SubSeq(@, k + 1, Len(@))]
    /\ UNCHANGED <<pc, pos, slots, clients, maxID, idOf, identified, privateOnly, watched, ready, crashes>>
    /\ UNCHANGED <<up, connections, cEnd, sEnd, toClient, backlog, breaks>>

\* recv() returns nothing, or fails.
HangUp ==
    /\ AtClient
    /\ LET s == clients[pos]
       IN  /\ s \in ready
           /\ sEnd[s] # "open" \/ (cEnd[s] = "closed" /\ toServer[s] = <<>>)
           /\ Exit(s)
    /\ pos' = pos + 1
    /\ UNCHANGED <<pc, watched, ready, inbox>>

ServeDone ==
    /\ up /\ pc = "serve" /\ inbox = <<>> /\ pos > Len(clients)
    /\ pc' = "scan"
    /\ pos' = 1
    /\ ready' = {}
    /\ UNCHANGED <<slots, clients, maxID, idOf, identified, privateOnly, watched, inbox, crashes>>
    /\ UNCHANGED netVars

---------------------------------------------------------------------------
(* messageReceived(), for the next message of the client at pos.           *)

Sender == clients[pos]

Handles(k) ==
    /\ up /\ pc = "serve"
    /\ inbox # <<>>
    /\ Head(inbox).mid = k
    /\ inbox' = Tail(inbox)
    /\ pos' = IF Tail(inbox) = <<>> THEN pos + 1 ELSE pos
    /\ UNCHANGED <<pc, slots, clients, maxID, idOf, watched, ready, backlog, crashes>>

PostAll(out) == \E failed \in Failing(out) : Post(out, failed)

\* A second HELLO, or one whose arguments are no map, closes the connection
\* (lines 136-139, 158-162): no Bus::Client sends one.
ProcessHello ==
    /\ Handles("HELLO")
    /\ identified' = identified \union {Sender}
    /\ privateOnly' = IF Head(inbox).privateOnly
                      THEN privateOnly \union {Sender} ELSE privateOnly
    /\ PostAll(To(Audience(Sender), Join(idOf[Sender])))

\* Who is in the reply to LIST_CLIENTS; mutant: everybody who is connected.
Everybody == {idOf[s] : s \in Listed}
Roll == {idOf[s] : s \in {t \in Listed : t \in identified}}

ProcessListClients ==
    /\ Handles("LIST_CLIENTS")
    /\ PostAll(To({Sender}, Listing(Roll)))
    /\ UNCHANGED <<identified, privateOnly>>

HandlesTalk == Handles("TALK") /\ UNCHANGED <<identified, privateOnly>>

ToName == {s \in Listed : idOf[s] = Head(inbox).to}

Forwarded == Talk(idOf[Sender], Head(inbox).n)

Broadcast ==
    /\ HandlesTalk
    /\ Head(inbox).to = Everyone
    /\ PostAll(To(Audience(Sender), Forwarded))

Deliver ==
    /\ HandlesTalk
    /\ ToName # {}
    /\ Post(To(ToName, Forwarded), {})

DeliveryFails ==
    /\ HandlesTalk
    /\ LET notice == To({Sender}, Notice("DELIVERY_FAILED", Head(inbox).to))
       IN  \E r \in ToName, failed \in Failing(notice) :
                /\ sEnd[r] # "open"
                /\ Post(notice, failed \union {r})

ClientNotFound ==
    /\ HandlesTalk
    /\ Head(inbox).to # Everyone
    /\ ToName = {}
    /\ PostAll(To({Sender}, Notice("CLIENT_NOT_FOUND", Head(inbox).to)))

Process ==
    \/ ProcessHello
    \/ ProcessListClients
    \/ Broadcast
    \/ Deliver
    \/ DeliveryFails
    \/ ClientNotFound

---------------------------------------------------------------------------
(* The process ends, by a signal or an error, and is started again.        *)

Crash ==
    /\ up /\ crashes < MaxCrashes
    /\ up' = FALSE
    /\ crashes' = crashes + 1
    /\ sEnd' = [s \in Socket |-> "closed"]
    /\ toServer' = [s \in Socket |-> <<>>]
    /\ backlog' = <<>>
    /\ pc' = "scan"
    /\ pos' = 1
    /\ slots' = <<>>
    /\ clients' = <<>>
    /\ maxID' = 0
    /\ idOf' = [s \in Socket |-> NoID]
    /\ identified' = {}
    /\ privateOnly' = {}
    /\ watched' = {}
    /\ ready' = {}
    /\ inbox' = <<>>
    /\ toClient' = [s \in Socket |-> IF cEnd[s] = "closed" THEN <<>> ELSE toClient[s]]
    /\ UNCHANGED <<connections, cEnd, breaks>>

Start ==
    /\ ~up
    /\ up' = TRUE
    /\ UNCHANGED <<connections, cEnd, sEnd, toServer, toClient, backlog, breaks>>
    /\ UNCHANGED serverVars

Iterate ==
    \/ Watch \/ ExitDisconnected \/ ScanDone
    \/ BadDescriptor \/ Wake \/ Accept
    \/ PassOver \/ Receive \/ HangUp \/ ServeDone
    \/ Process

Server == Iterate \/ Crash \/ Start

============================================================================
