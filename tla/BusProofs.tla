----------------------------- MODULE BusProofs -----------------------------
(***************************************************************************)
(* Whatever breaks, a message is never in two places: Bus implements       *)
(* Mailbox, for any number of clients, connections, messages and crashes.  *)
(***************************************************************************)
EXTENDS Bus, TLAPS

List(q) == \E S : q \in Seq(S)

\* No message is twice in q.
Once(q) ==
  \A i, j \in DOMAIN q :
    q[i].mid \in User /\ q[j].mid \in User /\ q[i].n = q[j].n => i = j

-----------------------------------------------------------------------------
(* What operations on sequences do to the messages in them.                *)

LEMMA EmptyQueue ==
  List(<<>>) /\ Once(<<>>) /\ \A K : Numbers(<<>>, K) = {}
BY DEF List, Once, Numbers

LEMMA AppendShape ==
  ASSUME NEW q, List(q), NEW m
  PROVE  /\ List(Append(q, m))
         /\ DOMAIN Append(q, m) = 1 .. Len(q) + 1
         /\ DOMAIN q = 1 .. Len(q) /\ Len(q) \in Nat
         /\ \A i \in 1 .. Len(q) : Append(q, m)[i] = q[i]
         /\ Append(q, m)[Len(q) + 1] = m
<1>1. PICK S : q \in Seq(S)
  BY DEF List
<1>2. q \in Seq(S \union {m})
  BY <1>1
<1>3. Append(q, m) \in Seq(S \union {m})
  BY <1>2
<1>4. QED
  BY <1>2, <1>3 DEF List

LEMMA AppendQueue ==
  ASSUME NEW q, List(q), NEW m, NEW K
  PROVE  Numbers(Append(q, m), K) = Numbers(q, K) \union (IF m.mid \in K THEN {m.n} ELSE {})
BY AppendShape DEF Numbers

LEMMA AppendOnce ==
  ASSUME NEW q, List(q), Once(q), NEW m, m.mid \in User => m.n \notin Numbers(q, User)
  PROVE  Once(Append(q, m))
BY AppendShape DEF Once, Numbers

LEMMA TailShape ==
  ASSUME NEW q, List(q), q # <<>>
  PROVE  /\ List(Tail(q)) /\ Head(q) = q[1]
         /\ DOMAIN q = 1 .. Len(q) /\ Len(q) \in Nat \ {0}
         /\ DOMAIN Tail(q) = 1 .. Len(q) - 1
         /\ \A i \in 1 .. Len(q) - 1 : Tail(q)[i] = q[i + 1]
<1>1. PICK S : q \in Seq(S)
  BY DEF List
<1>2. Tail(q) \in Seq(S)
  BY <1>1
<1>3. QED
  BY <1>1, <1>2 DEF List

LEMMA TailQueue ==
  ASSUME NEW q, List(q), q # <<>>, NEW K
  PROVE  Numbers(q, K) = Numbers(Tail(q), K) \union (IF Head(q).mid \in K THEN {Head(q).n} ELSE {})
<1>1. \A i \in 2 .. Len(q) : i - 1 \in DOMAIN Tail(q) /\ Tail(q)[i - 1] = q[i]
  BY TailShape
<1>2. \A i \in DOMAIN Tail(q) : i + 1 \in DOMAIN q /\ Tail(q)[i] = q[i + 1]
  BY TailShape
<1>3. 1 \in DOMAIN q /\ \A i \in DOMAIN q : i = 1 \/ i \in 2 .. Len(q)
  BY TailShape
<1>4. Head(q) = q[1]
  BY TailShape
<1> DEFINE t == Tail(q)
           h == Head(q)
<1>5. ASSUME NEW n
      PROVE  n \in Numbers(q, K) <=> n \in Numbers(t, K) \/ (h.mid \in K /\ n = h.n)
  <2> HIDE DEF t, h
  <2>1. n \in Numbers(q, K) <=> \E i \in DOMAIN q : q[i].mid \in K /\ n = q[i].n
    BY DEF Numbers
  <2>2. n \in Numbers(t, K) <=> \E i \in DOMAIN t : t[i].mid \in K /\ n = t[i].n
    BY DEF Numbers
  <2>3. QED
    BY <1>1, <1>2, <1>3, <1>4, <2>1, <2>2 DEF t, h
<1>6. QED
  BY <1>5

LEMMA TailOnce ==
  ASSUME NEW q, List(q), q # <<>>, Once(q)
  PROVE  /\ Once(Tail(q))
         /\ Head(q).mid \in User => Head(q).n \notin Numbers(Tail(q), User)
BY TailShape DEF Once, Numbers

LEMMA ConcatQueue ==
  ASSUME NEW p, List(p), NEW q, List(q), NEW K
  PROVE  List(p \o q) /\ Numbers(p \o q, K) = Numbers(p, K) \union Numbers(q, K)
<1>1. PICK S : p \in Seq(S)
  BY DEF List
<1>2. PICK T : q \in Seq(T)
  BY DEF List
<1>3. p \in Seq(S \union T) /\ q \in Seq(S \union T)
  BY <1>1, <1>2
<1>4. p \o q \in Seq(S \union T)
  BY <1>3
<1>5. /\ DOMAIN (p \o q) = 1 .. Len(p) + Len(q)
      /\ \A i \in DOMAIN p : (p \o q)[i] = p[i]
      /\ \A i \in DOMAIN q : (p \o q)[i + Len(p)] = q[i]
      /\ DOMAIN p = 1 .. Len(p) /\ DOMAIN q = 1 .. Len(q)
      /\ Len(p) \in Nat /\ Len(q) \in Nat
  BY <1>3, <1>4
<1>6. \A i \in DOMAIN (p \o q) :
        \/ i \in DOMAIN p
        \/ i - Len(p) \in DOMAIN q /\ (p \o q)[i] = q[i - Len(p)]
  BY <1>5
<1>7. \A i \in DOMAIN p : i \in DOMAIN (p \o q)
  BY <1>5
<1>8. \A i \in DOMAIN q : i + Len(p) \in DOMAIN (p \o q)
  BY <1>5
<1>9. QED
  BY <1>4, <1>5, <1>6, <1>7, <1>8 DEF List, Numbers

LEMMA SplitQueue ==
  ASSUME NEW q, List(q), NEW k \in 1 .. Len(q)
  PROVE  LET a == SubSeq(q, 1, k)
             b == SubSeq(q, k + 1, Len(q))
         IN  /\ List(a) /\ List(b)
             /\ Numbers(q, User) = Numbers(a, User) \union Numbers(b, User)
             /\ Once(q) => /\ Once(a) /\ Once(b)
                           /\ Numbers(a, User) \intersect Numbers(b, User) = {}
<1> DEFINE a == SubSeq(q, 1, k)
           b == SubSeq(q, k + 1, Len(q))
<1>1. PICK S : q \in Seq(S)
  BY DEF List
<1>2. a \in Seq(S) /\ b \in Seq(S)
  BY <1>1
<1>3. /\ DOMAIN q = 1 .. Len(q) /\ Len(q) \in Nat
      /\ DOMAIN a = 1 .. k /\ DOMAIN b = 1 .. Len(q) - k
      /\ \A i \in DOMAIN a : i \in DOMAIN q /\ a[i] = q[i]
      /\ \A i \in DOMAIN b : i + k \in DOMAIN q /\ b[i] = q[i + k]
  BY <1>1
<1>4. \A i \in DOMAIN q : \/ i \in DOMAIN a /\ a[i] = q[i]
                          \/ i - k \in DOMAIN b /\ b[i - k] = q[i]
  <2> SUFFICES ASSUME NEW i \in DOMAIN q
               PROVE  \/ i \in DOMAIN a /\ a[i] = q[i]
                      \/ i - k \in DOMAIN b /\ b[i - k] = q[i]
    OBVIOUS
  <2> HIDE DEF a, b
  <2>1. CASE i <= k
    BY <2>1, <1>3
  <2>2. CASE i > k
    <3>1. i - k \in DOMAIN b /\ (i - k) + k = i
      BY <2>2, <1>3
    <3>2. QED
      BY <3>1, <1>3
  <2>3. QED
    BY <2>1, <2>2, <1>3
<1>5. \A i \in DOMAIN a, j \in DOMAIN b : i # j + k
  BY <1>3
<1> HIDE DEF a, b
<1>6. Numbers(q, User) = Numbers(a, User) \union Numbers(b, User)
  BY <1>3, <1>4 DEF Numbers
<1>7. Once(q) => Once(a)
  BY <1>3 DEF Once
<1>8. Once(q) => Once(b)
  BY <1>3 DEF Once
<1>9. Once(q) => Numbers(a, User) \intersect Numbers(b, User) = {}
  BY <1>3, <1>5 DEF Once, Numbers
<1>10. QED
  BY <1>2, <1>6, <1>7, <1>8, <1>9 DEF List, a, b

-----------------------------------------------------------------------------
(* The invariant.                                                          *)

Shape ==
  /\ sends \in Nat
  /\ DOMAIN toServer = Socket /\ DOMAIN toClient = Socket
  /\ \A s \in Socket : List(toServer[s]) /\ List(toClient[s])
  /\ DOMAIN sendQueue = Client
  /\ \A c \in Client : List(sendQueue[c])
  /\ List(inbox)
  /\ ready \subseteq Socket

\* No message is twice in one place,
OnceInv ==
  /\ Once(inbox)
  /\ \A s \in Socket : Once(toServer[s])
  /\ \A c \in Client : Once(sendQueue[c])

\* or in two places,
ApartInv ==
  /\ \A s \in Socket : Sent(s) \intersect Held = {}
  /\ \A s, t \in Socket : s # t => Sent(s) \intersect Sent(t) = {}
  /\ \A c \in Client : Queued(c) \intersect Held = {}
  /\ \A c \in Client, s \in Socket : Queued(c) \intersect Sent(s) = {}
  /\ \A c, d \in Client : c # d => Queued(c) \intersect Queued(d) = {}

\* and the next number is new.
CountInv ==
  /\ Held \subseteq 1 .. sends
  /\ \A s \in Socket : Sent(s) \subseteq 1 .. sends
  /\ \A c \in Client : Queued(c) \subseteq 1 .. sends

Inv == Shape /\ OnceInv /\ ApartInv /\ CountInv

\* A step in which nothing but the messages N moves, from the server's parser to its
\* receivers; others may get lost.
Moves(N) ==
  /\ sends' = sends /\ ready' \subseteq Socket
  /\ DOMAIN toServer' = Socket /\ DOMAIN toClient' = Socket /\ DOMAIN sendQueue' = Client
  /\ \A s \in Socket :
       /\ List(toServer'[s]) /\ Once(toServer'[s]) /\ Sent(s)' \subseteq Sent(s)
       /\ List(toClient'[s]) /\ Mailed(s)' \subseteq Mailed(s) \union N
  /\ \A c \in Client :
       List(sendQueue'[c]) /\ Once(sendQueue'[c]) /\ Queued(c)' \subseteq Queued(c)
  /\ List(inbox') /\ Once(inbox') /\ Held' \subseteq Held \ N /\ N \subseteq Held

LEMMA MovesKeep ==
  ASSUME Inv, NEW N, Moves(N)
  PROVE  Inv'
<1>1. Shape' /\ OnceInv'
  BY DEF Inv, Shape, OnceInv, Moves
<1>2. /\ Held' \subseteq Held
      /\ \A s \in Socket : Sent(s)' \subseteq Sent(s)
      /\ \A c \in Client : Queued(c)' \subseteq Queued(c)
      /\ sends' = sends
  BY DEF Moves
<1>3. ApartInv'
  <2>1. \A s \in Socket : Sent(s)' \intersect Held' = {}
    BY <1>2 DEF Inv, ApartInv
  <2>2. \A s, t \in Socket : s # t => Sent(s)' \intersect Sent(t)' = {}
    BY <1>2 DEF Inv, ApartInv
  <2>3. \A c \in Client : Queued(c)' \intersect Held' = {}
    BY <1>2 DEF Inv, ApartInv
  <2>4. \A c \in Client, s \in Socket : Queued(c)' \intersect Sent(s)' = {}
    BY <1>2 DEF Inv, ApartInv
  <2>5. \A c, d \in Client : c # d => Queued(c)' \intersect Queued(d)' = {}
    BY <1>2 DEF Inv, ApartInv
  <2>6. QED
    BY <2>1, <2>2, <2>3, <2>4, <2>5 DEF ApartInv
<1>4. CountInv'
  BY <1>2 DEF Inv, CountInv
<1>5. QED
  BY <1>1, <1>3, <1>4 DEF Inv

\* Without a message that moves on, the step is one in which things get lost,
LEMMA MovesForget ==
  ASSUME Inv, Moves({})
  PROVE  Box!Forget
<1>1. Waiting' \subseteq Waiting
  BY DEF Moves, Waiting
<1>2. Carried' \subseteq Carried
  BY DEF Moves, Carried
<1>3. Mail' \subseteq Mail
  <2>1. \A s \in Socket : Mailed(s)' \subseteq Mailed(s)
    BY DEF Moves
  <2>2. QED
    BY <2>1 DEF Mail
<1>4. QED
  BY <1>1, <1>2, <1>3 DEF Moves, Box!Forget

\* with one it is the server's.
LEMMA MovesRoute ==
  ASSUME Inv, NEW n, Moves({n}), UNCHANGED sendQueue
  PROVE  Box!Route
<1>1. n \in Carried
  BY DEF Moves, Carried
<1>2. Carried' \subseteq Carried \ {n}
  <2>1. \A s \in Socket : n \notin Sent(s)
    BY DEF Moves, Inv, ApartInv
  <2>2. QED
    BY <2>1 DEF Moves, Carried
<1>3. Mail' \subseteq Mail \union ({n} \X Socket)
  <2>1. \A s \in Socket : Mailed(s)' \subseteq Mailed(s) \union {n}
    BY DEF Moves
  <2>2. QED
    BY <2>1 DEF Mail
<1>4. UNCHANGED <<sends, Waiting>>
  BY DEF Moves, Waiting, Queued
<1>5. QED
  BY <1>1, <1>2, <1>3, <1>4 DEF Box!Route

-----------------------------------------------------------------------------
(* The steps of the server.                                                *)

LEMMA OneMessage ==
  ASSUME NEW R, NEW m, NEW s \in Socket
  PROVE  /\ List(To(R, m)[s])
         /\ Numbers(To(R, m)[s], {"TALK"}) \subseteq IF m.mid = "TALK" THEN {m.n} ELSE {}
<1>1. CASE s \in R
  <2>1. To(R, m)[s] = <<m>>
    BY <1>1 DEF To
  <2>2. List(<<m>>)
    <3>1. <<m>> \in Seq({m})
      OBVIOUS
    <3>2. QED
      BY <3>1 DEF List
  <2>3. QED
    BY <2>1, <2>2 DEF Numbers
<1>2. CASE s \notin R
  BY <1>2, EmptyQueue DEF To
<1>3. QED
  BY <1>1, <1>2

LEMMA NoMessage ==
  ASSUME NEW s \in Socket
  PROVE  List(Silence[s]) /\ Numbers(Silence[s], {"TALK"}) = {}
BY EmptyQueue DEF Silence

\* What a step of the server does to the messages besides what it sends.
Serves(N) ==
  /\ UNCHANGED <<sends, sendQueue>>
  /\ ready' \subseteq Socket
  /\ List(inbox') /\ Once(inbox') /\ Held' \subseteq Held \ N /\ N \subseteq Held

LEMMA PostMoves ==
  ASSUME Inv, NEW out, NEW C, NEW N, Serves(N), Post(out, C),
         \A s \in Socket : List(out[s]) /\ Numbers(out[s], {"TALK"}) \subseteq N
  PROVE  Moves(N)
<1>1. \A s \in Socket : List(toServer'[s]) /\ Once(toServer'[s]) /\ Sent(s)' \subseteq Sent(s)
  BY EmptyQueue DEF Inv, Shape, OnceInv, Post, Sent
<1>2. ASSUME NEW s \in Socket
      PROVE  List(toClient'[s]) /\ Mailed(s)' \subseteq Mailed(s) \union N
  <2>1. /\ List(toClient[s] \o out[s])
        /\ Numbers(toClient[s] \o out[s], {"TALK"}) \subseteq Mailed(s) \union N
    BY ConcatQueue DEF Inv, Shape, Mailed
  <2>2. toClient'[s] \in {<<>>, toClient[s] \o out[s], toClient[s]}
    BY DEF Post
  <2>3. QED
    BY <2>1, <2>2, EmptyQueue DEF Inv, Shape, Mailed
<1>3. DOMAIN toServer' = Socket /\ DOMAIN toClient' = Socket
  BY DEF Post
<1>4. \A c \in Client :
        List(sendQueue'[c]) /\ Once(sendQueue'[c]) /\ Queued(c)' \subseteq Queued(c)
  BY DEF Serves, Inv, Shape, OnceInv, Queued
<1>5. QED
  BY <1>1, <1>2, <1>3, <1>4 DEF Moves, Serves, Inv, Shape

\* Nothing sent, nothing processed.
LEMMA IdleMoves ==
  ASSUME Inv, Serves({}), UNCHANGED <<toServer, toClient>>
  PROVE  Moves({})
BY DEF Moves, Serves, Inv, Shape, OnceInv, Sent, Mailed, Queued

LEMMA SameServes ==
  ASSUME Inv, UNCHANGED <<sends, sendQueue, inbox>>, ready' \subseteq Socket
  PROVE  Serves({})
BY DEF Serves, Inv, Shape, OnceInv, Held

LEMMA ExitMoves ==
  ASSUME Inv, NEW s, Exit(s), UNCHANGED <<sends, sendQueue, inbox, ready>>
  PROVE  Moves({})
<1>1. Serves({})
  BY SameServes DEF Inv, Shape
<1>2. PICK C : Post(Farewell(s), C)
  BY DEF Exit
<1>3. ASSUME NEW t \in Socket
      PROVE  List(Farewell(s)[t]) /\ Numbers(Farewell(s)[t], {"TALK"}) \subseteq {}
  <2>1. Farewell(s) \in {Silence, To(Audience(s), Leave(idOf[s]))}
    BY DEF Farewell, BlindFarewell
  <2>2. Leave(idOf[s]).mid # "TALK"
    BY DEF Leave
  <2>3. QED
    BY <2>1, <2>2, OneMessage, NoMessage
<1>4. QED
  BY <1>1, <1>2, <1>3, PostMoves

LEMMA IterateMoves ==
  ASSUME Inv, UNCHANGED clientVars,
         \/ Watch \/ ExitDisconnected \/ ScanDone \/ BadDescriptor \/ Wake \/ Accept
         \/ PassOver \/ HangUp \/ ServeDone \/ Start
  PROVE  Moves({})
<1> USE DEF clientVars
<1>1. CASE ExitDisconnected \/ HangUp
  BY <1>1, ExitMoves DEF ExitDisconnected, HangUp
<1>2. CASE Watch \/ ScanDone \/ BadDescriptor \/ PassOver \/ ServeDone \/ Start
  <2>1. /\ UNCHANGED <<inbox, toServer, toClient>>
        /\ ready' \in {ready, {}}
    BY <1>2 DEF Watch, ScanDone, BadDescriptor, PassOver, ServeDone, Start, netVars, serverVars
  <2>2. Serves({})
    BY <2>1, SameServes DEF Inv, Shape
  <2>3. QED
    BY <2>1, <2>2, IdleMoves
<1>3. CASE Wake
  <2>1. /\ UNCHANGED <<inbox, toServer, toClient>>
        /\ ready' \subseteq Socket
    BY <1>3 DEF Wake, Wakes, Readable, netVars
  <2>2. Serves({})
    BY <2>1, SameServes
  <2>3. QED
    BY <2>1, <2>2, IdleMoves
<1>4. CASE Accept
  <2>1. UNCHANGED inbox /\ ready' \subseteq Socket
    BY <1>4 DEF Accept, Wakes, Readable
  <2>2. Serves({})
    BY <2>1, SameServes
  <2> DEFINE out == To({Head(backlog)}, Hello(maxID))
  <2>3. PICK C : Post(out, C)
    BY <1>4 DEF Accept
  <2>4. \A s \in Socket : List(out[s]) /\ Numbers(out[s], {"TALK"}) \subseteq {}
    BY OneMessage DEF Hello
  <2>5. QED
    BY <2>2, <2>3, <2>4, PostMoves
<1>5. QED
  BY <1>1, <1>2, <1>3, <1>4

LEMMA CrashMoves ==
  ASSUME Inv, UNCHANGED clientVars, Crash
  PROVE  Moves({})
<1>1. \A s \in Socket :
        /\ toServer'[s] = <<>>
        /\ toClient'[s] \in {toClient[s], <<>>}
  BY DEF Crash
<1>2. \A s \in Socket :
        /\ List(toServer'[s]) /\ Once(toServer'[s]) /\ Sent(s)' \subseteq Sent(s)
        /\ List(toClient'[s]) /\ Mailed(s)' \subseteq Mailed(s)
  BY <1>1, EmptyQueue DEF Inv, Shape, Sent, Mailed
<1>3. inbox' = <<>> /\ ready' = {} /\ DOMAIN toServer' = Socket /\ DOMAIN toClient' = Socket
  BY DEF Crash
<1>4. \A c \in Client :
        List(sendQueue'[c]) /\ Once(sendQueue'[c]) /\ Queued(c)' \subseteq Queued(c)
  BY DEF clientVars, Inv, Shape, OnceInv, Queued
<1>5. sends' = sends /\ DOMAIN sendQueue' = Client
  BY DEF clientVars, Inv, Shape
<1>6. List(inbox') /\ Once(inbox') /\ Held' \subseteq Held
  BY <1>3, EmptyQueue DEF Held
<1>7. QED
  BY <1>2, <1>3, <1>4, <1>5, <1>6 DEF Moves

LEMMA HandlesServes ==
  ASSUME Inv, UNCHANGED clientVars, NEW k, Handles(k)
  PROVE  /\ k \in User => Serves({Head(inbox).n})
         /\ k \notin User => Serves({})
<1>1. /\ List(inbox) /\ Once(inbox) /\ inbox # <<>>
      /\ inbox' = Tail(inbox) /\ Head(inbox).mid = k
  BY DEF Handles, Inv, Shape, OnceInv
<1>2. /\ List(inbox') /\ Once(inbox')
      /\ Held = Held' \union (IF k \in User THEN {Head(inbox).n} ELSE {})
      /\ k \in User => Head(inbox).n \notin Held'
  BY <1>1, TailShape, TailQueue, TailOnce DEF Held
<1>3. UNCHANGED <<sends, sendQueue>> /\ ready' \subseteq Socket
  BY DEF clientVars, Handles, Inv, Shape
<1>4. QED
  BY <1>2, <1>3 DEF Serves

\* A user's message is passed on, answered or reported.
LEMMA RequestMoves ==
  ASSUME Inv, UNCHANGED clientVars,
         \/ ProcessListClients \/ Broadcast \/ Deliver \/ DeliveryFails \/ ClientNotFound
  PROVE  Moves({Head(inbox).n})
<1> DEFINE n == Head(inbox).n
<1>1. CASE ProcessListClients
  <2> DEFINE out == To({Sender}, Listing(Roll))
  <2>1. PICK C : Post(out, C)
    BY <1>1 DEF ProcessListClients, PostAll
  <2>2. \A s \in Socket : List(out[s]) /\ Numbers(out[s], {"TALK"}) \subseteq {n}
    BY OneMessage DEF Listing
  <2>3. Serves({n})
    BY <1>1, HandlesServes DEF ProcessListClients, User
  <2>4. QED
    BY <2>1, <2>2, <2>3, PostMoves
<1>2. ASSUME HandlesTalk PROVE Serves({n})
  BY <1>2, HandlesServes DEF HandlesTalk, User
<1>3. ASSUME NEW R, NEW s \in Socket
      PROVE  List(To(R, Forwarded)[s]) /\ Numbers(To(R, Forwarded)[s], {"TALK"}) \subseteq {n}
  <2>1. Forwarded.mid = "TALK" /\ Forwarded.n = n
    BY DEF Forwarded, Talk
  <2>2. QED
    BY <2>1, OneMessage
<1>4. CASE Broadcast
  <2>1. PICK C : Post(To(Audience(Sender), Forwarded), C)
    BY <1>4 DEF Broadcast, PostAll
  <2>2. QED
    BY <1>2, <1>3, <1>4, <2>1, PostMoves DEF Broadcast
<1>5. CASE Deliver
  <2>1. Post(To(ToName, Forwarded), {})
    BY <1>5 DEF Deliver
  <2>2. QED
    BY <1>2, <1>3, <1>5, <2>1, PostMoves DEF Deliver
<1>6. ASSUME NEW k, k # "TALK", NEW i, NEW s \in Socket
      PROVE  /\ List(To({Sender}, Notice(k, i))[s])
             /\ Numbers(To({Sender}, Notice(k, i))[s], {"TALK"}) \subseteq {n}
  BY <1>6, OneMessage DEF Notice
<1>7. CASE DeliveryFails
  <2> DEFINE out == To({Sender}, Notice("DELIVERY_FAILED", Head(inbox).to))
  <2>1. PICK C : Post(out, C)
    BY <1>7 DEF DeliveryFails
  <2>2. QED
    BY <1>2, <1>6, <1>7, <2>1, PostMoves DEF DeliveryFails
<1>8. CASE ClientNotFound
  <2> DEFINE out == To({Sender}, Notice("CLIENT_NOT_FOUND", Head(inbox).to))
  <2>1. PICK C : Post(out, C)
    BY <1>8 DEF ClientNotFound, PostAll
  <2>2. QED
    BY <1>2, <1>6, <1>8, <2>1, PostMoves DEF ClientNotFound
<1>9. QED
  BY <1>1, <1>4, <1>5, <1>7, <1>8

LEMMA HelloMoves ==
  ASSUME Inv, UNCHANGED clientVars, ProcessHello
  PROVE  Moves({})
<1> DEFINE out == To(Audience(Sender), Join(idOf[Sender]))
<1>1. PICK C : Post(out, C)
  BY DEF ProcessHello, PostAll
<1>2. \A s \in Socket : List(out[s]) /\ Numbers(out[s], {"TALK"}) \subseteq {}
  BY OneMessage DEF Join
<1>3. Serves({})
  BY HandlesServes DEF ProcessHello, User
<1>4. QED
  BY <1>1, <1>2, <1>3, PostMoves

\* Messages get from a connection to the parser: they stay in the server's hands.
LEMMA ReceiveStep ==
  ASSUME Inv, UNCHANGED clientVars, Receive
  PROVE  Inv' /\ Box!Forget
<1>1. PICK s \in Socket :
        \E k \in 1 .. Len(toServer[s]) :
          /\ inbox' = SubSeq(toServer[s], 1, k)
          /\ toServer' = [toServer EXCEPT ![s] = SubSeq(@, k + 1, Len(@))]
  BY DEF Receive, AtClient, Inv, Shape
<1>2. PICK k \in 1 .. Len(toServer[s]) :
        /\ inbox' = SubSeq(toServer[s], 1, k)
        /\ toServer' = [toServer EXCEPT ![s] = SubSeq(@, k + 1, Len(@))]
  BY <1>1
<1>3. /\ toServer'[s] = SubSeq(toServer[s], k + 1, Len(toServer[s]))
      /\ \A t \in Socket \ {s} : toServer'[t] = toServer[t]
      /\ DOMAIN toServer' = Socket
  BY <1>1, <1>2 DEF Inv, Shape
<1>4. /\ List(inbox') /\ List(toServer'[s]) /\ Once(inbox') /\ Once(toServer'[s])
      /\ Sent(s) = Held' \union Sent(s)'
      /\ Held' \intersect Sent(s)' = {}
  BY <1>1, <1>2, <1>3, SplitQueue DEF Inv, Shape, OnceInv, Held, Sent
<1>5. \A t \in Socket \ {s} : Sent(t)' = Sent(t)
  BY <1>3 DEF Sent
<1>6. /\ UNCHANGED <<sends, sendQueue, toClient, ready>>
      /\ \A c \in Client : Queued(c)' = Queued(c)
  BY DEF Receive, clientVars, Queued
<1>7. Shape' /\ OnceInv'
  BY <1>3, <1>4, <1>6 DEF Inv, Shape, OnceInv
<1>8. ApartInv'
  <2>1. \A t \in Socket : Sent(t)' \intersect Held' = {}
    BY <1>1, <1>4, <1>5 DEF Inv, ApartInv
  <2>2. \A t, u \in Socket : t # u => Sent(t)' \intersect Sent(u)' = {}
    BY <1>1, <1>4, <1>5 DEF Inv, ApartInv
  <2>3. \A c \in Client, t \in Socket : Queued(c)' \intersect Sent(t)' = {}
    BY <1>1, <1>4, <1>5, <1>6 DEF Inv, ApartInv
  <2>4. \A c \in Client : Queued(c)' \intersect Held' = {}
    BY <1>1, <1>4, <1>6 DEF Inv, ApartInv
  <2>5. \A c, d \in Client : c # d => Queued(c)' \intersect Queued(d)' = {}
    BY <1>6 DEF Inv, ApartInv
  <2>6. QED
    BY <2>1, <2>2, <2>3, <2>4, <2>5 DEF ApartInv
<1>9. CountInv'
  BY <1>1, <1>4, <1>5, <1>6 DEF Inv, CountInv
<1>10. Carried' \subseteq Carried
  BY <1>1, <1>4, <1>5 DEF Carried
<1>11. UNCHANGED <<Waiting, Mail>>
  BY <1>6 DEF Waiting, Mail, Mailed
<1>12. QED
  BY <1>6, <1>7, <1>8, <1>9, <1>10, <1>11 DEF Inv, Box!Forget

LEMMA ServerStep ==
  ASSUME Inv, UNCHANGED clientVars, Server
  PROVE  Inv' /\ Box!Next
<1>1. CASE \/ Watch \/ ExitDisconnected \/ ScanDone \/ BadDescriptor \/ Wake \/ Accept
           \/ PassOver \/ HangUp \/ ServeDone \/ Start
  BY <1>1, IterateMoves, MovesKeep, MovesForget DEF Box!Next
<1>2. CASE Receive
  BY <1>2, ReceiveStep DEF Box!Next
<1>3. CASE ProcessHello
  BY <1>3, HelloMoves, MovesKeep, MovesForget DEF Box!Next
<1>4. CASE \/ ProcessListClients \/ Broadcast \/ Deliver \/ DeliveryFails \/ ClientNotFound
  BY <1>4, RequestMoves, MovesKeep, MovesRoute DEF Box!Next, clientVars
<1>5. CASE Crash
  BY <1>5, CrashMoves, MovesKeep, MovesForget DEF Box!Next
<1>6. QED
  BY <1>1, <1>2, <1>3, <1>4, <1>5 DEF Server, Iterate, Process

-----------------------------------------------------------------------------
(* The steps of a client and of the network.                               *)

LEMMA SameQueues ==
  ASSUME Inv, UNCHANGED <<serverVars, toServer, sendQueue, sends>>
  PROVE  /\ sends' = sends /\ ready' \subseteq Socket
         /\ DOMAIN toServer' = Socket /\ DOMAIN sendQueue' = Client
         /\ \A s \in Socket :
              List(toServer'[s]) /\ Once(toServer'[s]) /\ Sent(s)' \subseteq Sent(s)
         /\ \A c \in Client :
              List(sendQueue'[c]) /\ Once(sendQueue'[c]) /\ Queued(c)' \subseteq Queued(c)
         /\ List(inbox') /\ Once(inbox') /\ Held' \subseteq Held
BY DEF serverVars, Inv, Shape, OnceInv, Sent, Queued, Held

\* Messages to clients arrive or get lost.
LEMMA MailMoves ==
  ASSUME Inv, UNCHANGED <<serverVars, toServer, sendQueue, sends>>,
         DOMAIN toClient' = Socket,
         \A s \in Socket : \/ toClient'[s] \in {toClient[s], <<>>}
                           \/ toClient[s] # <<>> /\ toClient'[s] = Tail(toClient[s])
  PROVE  Moves({})
<1>1. ASSUME NEW s \in Socket
      PROVE  List(toClient'[s]) /\ Mailed(s)' \subseteq Mailed(s)
  <2>1. List(toClient[s])
    BY DEF Inv, Shape
  <2>2. CASE toClient'[s] \in {toClient[s], <<>>}
    BY <2>1, <2>2, EmptyQueue DEF Mailed
  <2>3. CASE toClient[s] # <<>> /\ toClient'[s] = Tail(toClient[s])
    BY <2>1, <2>3, TailShape, TailQueue DEF Mailed
  <2>4. QED
    BY <2>2, <2>3
<1>2. QED
  BY <1>1, SameQueues DEF Moves

LEMMA NetworkMoves ==
  ASSUME Inv, UNCHANGED <<serverVars, clientVars>>, Network
  PROVE  Moves({})
<1>1. PICK s \in Socket : Break(s) \/ Reset(s)
  BY DEF Network
<1>2. DOMAIN toClient' = Socket /\ \A t \in Socket : toClient'[t] \in {toClient[t], <<>>}
  BY <1>1 DEF Break, Reset, Inv, Shape
<1>3. UNCHANGED toServer
  BY <1>1 DEF Break, Reset
<1>4. QED
  BY <1>2, <1>3, MailMoves DEF clientVars

LEMMA ReadMoves ==
  ASSUME Inv, UNCHANGED serverVars, NEW c \in Client,
         Reconnect(c) \/ Lost(c) \/ Read(c) \/ Drained(c)
  PROVE  Moves({})
<1>1. UNCHANGED <<toServer, sendQueue, sends>>
  BY DEF Reconnect, Connect, Lost, Read, Drained, netVars
<1>2. CASE Reconnect(c) \/ Lost(c) \/ Drained(c)
  <2>1. /\ DOMAIN toClient' = Socket
        /\ \A s \in Socket : toClient'[s] \in {toClient[s], <<>>}
    BY <1>2 DEF Reconnect, Connect, Unread, Lost, Drained, netVars, Inv, Shape
  <2>2. QED
    BY <1>1, <2>1, MailMoves
<1>3. CASE Read(c)
  <2>1. /\ toClient[sock[c]] # <<>>
        /\ toClient' = [toClient EXCEPT ![sock[c]] = Tail(@)]
    BY <1>3 DEF Read
  <2>2. /\ DOMAIN toClient' = Socket
        /\ \A s \in Socket :
             \/ toClient'[s] = toClient[s]
             \/ toClient[s] # <<>> /\ toClient'[s] = Tail(toClient[s])
    BY <2>1 DEF Inv, Shape
  <2>3. QED
    BY <1>1, <2>2, MailMoves
<1>4. QED
  BY <1>2, <1>3

LEMMA AnswerHelloMoves ==
  ASSUME Inv, UNCHANGED serverVars, NEW c \in Client, AnswerHello(c)
  PROVE  Moves({})
<1> DEFINE hello == [mid |-> "HELLO", privateOnly |-> c \in PrivateOnly]
<1>1. /\ UNCHANGED <<sendQueue, sends>>
      /\ toClient[sock[c]] # <<>>
      /\ toClient' = [toClient EXCEPT ![sock[c]] = Tail(@)]
      /\ \/ toServer' = [toServer EXCEPT ![sock[c]] = Append(@, hello)]
         \/ toServer' = toServer
  BY DEF AnswerHello, Handshake
<1>2. hello.mid \notin User
  BY DEF User
<1> HIDE DEF hello
<1>3. ASSUME NEW s \in Socket
      PROVE  List(toClient'[s]) /\ Mailed(s)' \subseteq Mailed(s)
  <2>1. List(toClient[s])
    BY DEF Inv, Shape
  <2>2. \/ toClient'[s] = toClient[s]
        \/ toClient[s] # <<>> /\ toClient'[s] = Tail(toClient[s])
    BY <1>1 DEF Inv, Shape
  <2>3. QED
    BY <2>1, <2>2, TailShape, TailQueue DEF Mailed
<1>4. ASSUME NEW s \in Socket
      PROVE  List(toServer'[s]) /\ Once(toServer'[s]) /\ Sent(s)' \subseteq Sent(s)
  <2>1. List(toServer[s]) /\ Once(toServer[s])
    BY DEF Inv, Shape, OnceInv
  <2>2. toServer'[s] = toServer[s] \/ toServer'[s] = Append(toServer[s], hello)
    BY <1>1 DEF Inv, Shape
  <2>3. List(Append(toServer[s], hello))
    BY <2>1, AppendShape
  <2>4. Once(Append(toServer[s], hello))
    BY <2>1, <1>2, AppendOnce
  <2>5. Numbers(Append(toServer[s], hello), User) = Numbers(toServer[s], User)
    BY <2>1, <1>2, AppendQueue
  <2>6. QED
    BY <2>1, <2>2, <2>3, <2>4, <2>5 DEF Sent
<1>5. DOMAIN toServer' = Socket /\ DOMAIN toClient' = Socket
  BY <1>1 DEF Inv, Shape
<1>6. \A d \in Client :
        List(sendQueue'[d]) /\ Once(sendQueue'[d]) /\ Queued(d)' \subseteq Queued(d)
  BY <1>1 DEF Inv, Shape, OnceInv, Queued
<1>7. /\ List(inbox') /\ Once(inbox') /\ Held' \subseteq Held
      /\ ready' \subseteq Socket /\ sends' = sends /\ DOMAIN sendQueue' = Client
  BY <1>1 DEF serverVars, Inv, Shape, OnceInv, Held
<1>8. QED
  BY <1>3, <1>4, <1>5, <1>6, <1>7 DEF Moves

\* The queue of c is dropped, or turned round.
LEMMA QueueMoves ==
  ASSUME Inv, UNCHANGED serverVars, NEW c \in Client,
         AnswerFails(c) \/ Quit(c) \/ FlushFails(c)
  PROVE  Moves({})
<1>1. /\ UNCHANGED <<sends, toServer>> /\ DOMAIN toClient' = Socket
      /\ \A s \in Socket : toClient'[s] \in {toClient[s], <<>>}
  BY DEF AnswerFails, Handshake, Quit, End, Disconnect, Unread, FlushFails, netVars, Inv, Shape
<1>2. /\ List(sendQueue[c]) /\ Once(sendQueue[c]) /\ DOMAIN sendQueue = Client
  BY DEF Inv, Shape, OnceInv
<1> DEFINE q == sendQueue[c]
<1>3. \/ sendQueue' = [sendQueue EXCEPT ![c] = <<>>]
      \/ q # <<>> /\ sendQueue' = [sendQueue EXCEPT ![c] = Append(Tail(q), Head(q))]
  BY DEF AnswerFails, Quit, End, FlushFails, Flushing
<1>4. List(sendQueue'[c]) /\ Once(sendQueue'[c]) /\ Queued(c)' \subseteq Queued(c)
  <2>1. CASE sendQueue' = [sendQueue EXCEPT ![c] = <<>>]
    BY <1>2, <2>1, EmptyQueue DEF Queued
  <2>2. CASE q # <<>> /\ sendQueue' = [sendQueue EXCEPT ![c] = Append(Tail(q), Head(q))]
    <3>1. sendQueue'[c] = Append(Tail(q), Head(q))
      BY <1>2, <2>2
    <3> HIDE DEF q
    <3>2. List(q) /\ Once(q) /\ q # <<>> /\ Queued(c) = Numbers(q, User)
      BY <1>2, <2>2 DEF q, Queued
    <3>3. /\ List(Tail(q)) /\ Once(Tail(q))
          /\ Head(q).mid \in User => Head(q).n \notin Numbers(Tail(q), User)
      BY <3>2, TailShape, TailOnce
    <3>4. List(Append(Tail(q), Head(q)))
      BY <3>3, AppendShape
    <3>5. Once(Append(Tail(q), Head(q)))
      BY <3>3, AppendOnce
    <3>6. Numbers(Append(Tail(q), Head(q)), User) = Numbers(q, User)
      <4>1. Numbers(Append(Tail(q), Head(q)), User) =
              Numbers(Tail(q), User) \union (IF Head(q).mid \in User THEN {Head(q).n} ELSE {})
        BY <3>3, AppendQueue
      <4>2. QED
        BY <3>2, <4>1, TailQueue
    <3>7. QED
      BY <3>1, <3>2, <3>4, <3>5, <3>6 DEF Queued
  <2>3. QED
    BY <1>3, <2>1, <2>2
<1>5. \A d \in Client : d # c => sendQueue'[d] = sendQueue[d]
  BY <1>2, <1>3
<1>6. DOMAIN sendQueue' = Client
  BY <1>2, <1>3
<1>7. \A d \in Client :
        List(sendQueue'[d]) /\ Once(sendQueue'[d]) /\ Queued(d)' \subseteq Queued(d)
  BY <1>4, <1>5 DEF Inv, Shape, OnceInv, Queued
<1>8. \A s \in Socket :
        /\ List(toServer'[s]) /\ Once(toServer'[s]) /\ Sent(s)' \subseteq Sent(s)
        /\ List(toClient'[s]) /\ Mailed(s)' \subseteq Mailed(s)
  BY <1>1, EmptyQueue DEF Inv, Shape, OnceInv, Sent, Mailed
<1>9. /\ List(inbox') /\ Once(inbox') /\ Held' \subseteq Held /\ ready' \subseteq Socket
  BY DEF serverVars, Inv, Shape, OnceInv, Held
<1>10. sends' = sends /\ DOMAIN toServer' = Socket /\ DOMAIN toClient' = Socket
  BY <1>1 DEF Inv, Shape
<1>11. QED
  BY <1>6, <1>7, <1>8, <1>9, <1>10 DEF Moves

LEMMA RequestsAreNew ==
  ASSUME NEW c, NEW m \in Requests(c)
  PROVE  m.mid \in User /\ m.n = sends + 1
BY DEF Requests, User

\* A new message waits in the queue of c,
LEMMA EnqueueStep ==
  ASSUME Inv, UNCHANGED <<serverVars, toServer, toClient>>, sends' = sends + 1,
         NEW c \in Client, NEW m \in Requests(c), Enqueue(c, m)
  PROVE  Inv' /\ Box!Accept
<1>1. m.mid \in User /\ m.n = sends + 1
  BY RequestsAreNew
<1>2. /\ sendQueue'[c] = Append(sendQueue[c], m)
      /\ \A d \in Client \ {c} : sendQueue'[d] = sendQueue[d]
      /\ DOMAIN sendQueue' = Client
  BY DEF Enqueue, Inv, Shape
<1>3. sends + 1 \notin Held /\ sends + 1 \notin Queued(c)
      /\ (\A s \in Socket : sends + 1 \notin Sent(s))
      /\ (\A d \in Client : sends + 1 \notin Queued(d))
      /\ sends \in Nat /\ sends' \in Nat
  BY DEF Inv, CountInv, Shape
<1>4. List(sendQueue[c]) /\ Once(sendQueue[c])
  BY DEF Inv, Shape, OnceInv
<1>5. List(sendQueue'[c])
  BY <1>2, <1>4, AppendShape
<1>6. Once(sendQueue'[c])
  BY <1>1, <1>2, <1>3, <1>4, AppendOnce DEF Queued
<1>7. Queued(c)' = Queued(c) \union {sends + 1}
  BY <1>1, <1>2, <1>4, AppendQueue DEF Queued
<1>8. \A d \in Client \ {c} : Queued(d)' = Queued(d)
  BY <1>2 DEF Queued
<1>9. /\ Held' = Held /\ UNCHANGED <<inbox, ready>>
      /\ \A s \in Socket : Sent(s)' = Sent(s)
  BY DEF serverVars, Held, Sent
<1>10. Shape' /\ OnceInv'
  BY <1>2, <1>3, <1>5, <1>6, <1>9 DEF Inv, Shape, OnceInv
<1>11. ApartInv'
  <2>1. /\ \A s \in Socket : Sent(s)' \intersect Held' = {}
        /\ \A s, t \in Socket : s # t => Sent(s)' \intersect Sent(t)' = {}
    BY <1>9 DEF Inv, ApartInv
  <2>2. \A d \in Client : Queued(d)' \intersect Held' = {}
    BY <1>3, <1>7, <1>8, <1>9 DEF Inv, ApartInv
  <2>3. \A d \in Client, s \in Socket : Queued(d)' \intersect Sent(s)' = {}
    BY <1>3, <1>7, <1>8, <1>9 DEF Inv, ApartInv
  <2>4. \A d, e \in Client : d # e => Queued(d)' \intersect Queued(e)' = {}
    BY <1>3, <1>7, <1>8 DEF Inv, ApartInv
  <2>5. QED
    BY <2>1, <2>2, <2>3, <2>4 DEF ApartInv
<1>12. CountInv'
  <2>1. 1 .. sends \subseteq 1 .. sends' /\ sends + 1 \in 1 .. sends'
    BY <1>3
  <2>2. QED
    BY <2>1, <1>7, <1>8, <1>9 DEF Inv, CountInv
<1>13. Waiting' = Waiting \union {sends + 1}
  BY <1>7, <1>8 DEF Waiting
<1>14. UNCHANGED <<Carried, Mail>>
  BY <1>9 DEF Carried, Mail, Mailed
<1>15. QED
  BY <1>10, <1>11, <1>12, <1>13, <1>14 DEF Inv, Box!Accept, Box!New

\* or is on its way to the server, or lost at once.
LEMMA SendDirectStep ==
  ASSUME Inv, UNCHANGED serverVars, NEW c \in Client, NEW m \in Requests(c), SendDirect(c, m)
  PROVE  Inv' /\ Box!Accept
<1>1. m.mid \in User /\ m.n = sends + 1
  BY RequestsAreNew
<1>2. /\ sends' = sends + 1 /\ UNCHANGED <<sendQueue, toClient>>
      /\ \/ toServer' = [toServer EXCEPT ![sock[c]] = Append(@, m)]
         \/ UNCHANGED toServer
  BY DEF SendDirect, Sends, Transmit
<1>3. /\ sends + 1 \notin Held
      /\ \A s \in Socket : sends + 1 \notin Sent(s)
      /\ \A d \in Client : sends + 1 \notin Queued(d)
      /\ sends \in Nat /\ sends' \in Nat
      /\ 1 .. sends \subseteq 1 .. sends' /\ sends + 1 \in 1 .. sends'
  BY <1>2 DEF Inv, CountInv, Shape
<1>4. \A s \in Socket : List(toServer[s]) /\ Once(toServer[s])
  BY DEF Inv, Shape, OnceInv
<1>5. /\ Held' = Held /\ UNCHANGED <<inbox, ready>>
      /\ \A d \in Client : Queued(d)' = Queued(d)
  BY <1>2 DEF serverVars, Held, Queued
<1>6. UNCHANGED <<Waiting, Mail>>
  BY <1>2 DEF Waiting, Queued, Mail, Mailed
<1>7. CASE toServer' = [toServer EXCEPT ![sock[c]] = Append(@, m)] /\ sock[c] \in Socket
  <2>1. PICK s \in Socket : s = sock[c]
    BY <1>7
  <2>2. /\ toServer'[s] = Append(toServer[s], m)
        /\ \A t \in Socket \ {s} : toServer'[t] = toServer[t]
        /\ DOMAIN toServer' = Socket
    BY <1>7, <2>1 DEF Inv, Shape
  <2>3. List(toServer'[s])
    BY <1>4, <2>2, AppendShape
  <2>4. Once(toServer'[s])
    BY <1>1, <1>3, <1>4, <2>2, AppendOnce DEF Sent
  <2>5. Sent(s)' = Sent(s) \union {sends + 1}
    BY <1>1, <1>4, <2>2, AppendQueue DEF Sent
  <2>6. \A t \in Socket \ {s} : Sent(t)' = Sent(t)
    BY <2>2 DEF Sent
  <2>7. Shape' /\ OnceInv'
    BY <1>2, <1>3, <1>5, <2>2, <2>3, <2>4 DEF Inv, Shape, OnceInv
  <2>8. ApartInv'
    <3>1. \A t \in Socket : Sent(t)' \intersect Held' = {}
      BY <1>3, <1>5, <2>5, <2>6 DEF Inv, ApartInv
    <3>2. \A t, u \in Socket : t # u => Sent(t)' \intersect Sent(u)' = {}
      BY <1>3, <2>5, <2>6 DEF Inv, ApartInv
    <3>3. \A d \in Client, t \in Socket : Queued(d)' \intersect Sent(t)' = {}
      BY <1>3, <1>5, <2>5, <2>6 DEF Inv, ApartInv
    <3>4. /\ \A d \in Client : Queued(d)' \intersect Held' = {}
          /\ \A d, e \in Client : d # e => Queued(d)' \intersect Queued(e)' = {}
      BY <1>5 DEF Inv, ApartInv
    <3>5. QED
      BY <3>1, <3>2, <3>3, <3>4 DEF ApartInv
  <2>9. CountInv'
    BY <1>3, <1>5, <2>5, <2>6 DEF Inv, CountInv
  <2>10. Carried' = Carried \union {sends + 1}
    BY <1>5, <2>5, <2>6 DEF Carried
  <2>11. QED
    BY <1>2, <1>6, <2>7, <2>8, <2>9, <2>10 DEF Inv, Box!Accept, Box!New
<1>8. CASE \A s \in Socket : toServer'[s] = toServer[s]
  <2>1. \A s \in Socket : Sent(s)' = Sent(s)
    BY <1>8 DEF Sent
  <2>2. DOMAIN toServer' = Socket
    BY <1>2 DEF Inv, Shape
  <2>3. Shape' /\ OnceInv'
    BY <1>2, <1>3, <1>5, <1>8, <2>2 DEF Inv, Shape, OnceInv
  <2>4. ApartInv' /\ CountInv'
    BY <1>3, <1>5, <2>1 DEF Inv, ApartInv, CountInv
  <2>5. UNCHANGED Carried
    BY <1>5, <2>1 DEF Carried
  <2>6. QED
    BY <1>2, <1>6, <2>3, <2>4, <2>5 DEF Inv, Box!Accept, Box!New
<1>9. QED
  BY <1>2, <1>7, <1>8 DEF Inv, Shape

\* The first message of the queue goes to the server, or is lost.
LEMMA FlushStep ==
  ASSUME Inv, UNCHANGED serverVars, NEW c \in Client, Flush(c)
  PROVE  Inv' /\ (Box!Carry \/ Box!Forget)
<1> DEFINE m == Head(sendQueue[c])
<1>1. /\ sendQueue[c] # <<>> /\ sends' = sends /\ UNCHANGED toClient
      /\ sendQueue' = [sendQueue EXCEPT ![c] = Tail(@)]
      /\ \/ toServer' = [toServer EXCEPT ![sock[c]] = Append(@, m)]
         \/ UNCHANGED toServer
  BY DEF Flush, Flushing, Transmit
<1>2. List(sendQueue[c]) /\ Once(sendQueue[c])
  BY DEF Inv, Shape, OnceInv
<1>3. /\ sendQueue'[c] = Tail(sendQueue[c])
      /\ \A d \in Client \ {c} : sendQueue'[d] = sendQueue[d]
      /\ DOMAIN sendQueue' = Client
  BY <1>1 DEF Inv, Shape
<1> HIDE DEF m
<1>4. /\ List(sendQueue'[c]) /\ Once(sendQueue'[c])
      /\ Queued(c) = Queued(c)' \union (IF m.mid \in User THEN {m.n} ELSE {})
      /\ m.mid \in User => m.n \notin Queued(c)'
  BY <1>1, <1>2, <1>3, TailShape, TailQueue, TailOnce DEF Queued, m
<1>5. \A d \in Client \ {c} : Queued(d)' = Queued(d)
  BY <1>3 DEF Queued
<1>6. /\ Held' = Held /\ UNCHANGED <<inbox, ready>>
      /\ UNCHANGED Mail
  BY <1>1 DEF serverVars, Held, Mail, Mailed
<1>7. ASSUME m.mid \in User
      PROVE  /\ m.n \notin Held
             /\ \A s \in Socket : m.n \notin Sent(s)
             /\ \A d \in Client : m.n \notin Queued(d)'
             /\ m.n \in 1 .. sends
  BY <1>4, <1>5, <1>7 DEF Inv, ApartInv, CountInv
<1>8. \A s \in Socket : List(toServer[s]) /\ Once(toServer[s])
  BY DEF Inv, Shape, OnceInv
<1>9. CASE \A s \in Socket : toServer'[s] = toServer[s]
  <2>1. Moves({})
    <3>1. \A s \in Socket : List(toServer'[s]) /\ Once(toServer'[s]) /\ Sent(s)' \subseteq Sent(s)
      BY <1>8, <1>9 DEF Sent
    <3>2. \A s \in Socket : List(toClient'[s]) /\ Mailed(s)' \subseteq Mailed(s)
      BY <1>1 DEF Mailed, Inv, Shape
    <3>3. \A d \in Client :
            List(sendQueue'[d]) /\ Once(sendQueue'[d]) /\ Queued(d)' \subseteq Queued(d)
      BY <1>3, <1>4, <1>5 DEF Inv, Shape, OnceInv
    <3>4. DOMAIN toServer' = Socket /\ DOMAIN toClient' = Socket
      BY <1>1 DEF Inv, Shape
    <3>5. List(inbox') /\ Once(inbox') /\ ready' \subseteq Socket
      BY <1>6 DEF Inv, Shape, OnceInv
    <3>6. QED
      BY <1>1, <1>3, <1>6, <3>1, <3>2, <3>3, <3>4, <3>5 DEF Moves
  <2>2. QED
    BY <2>1, MovesKeep, MovesForget
<1>10. CASE toServer' = [toServer EXCEPT ![sock[c]] = Append(@, m)] /\ sock[c] \in Socket
  <2>1. PICK s \in Socket : s = sock[c]
    BY <1>10
  <2>2. /\ toServer'[s] = Append(toServer[s], m)
        /\ \A t \in Socket \ {s} : toServer'[t] = toServer[t]
        /\ DOMAIN toServer' = Socket
    BY <1>10, <2>1 DEF Inv, Shape
  <2>3. List(toServer'[s])
    BY <1>8, <2>2, AppendShape
  <2>4. Once(toServer'[s])
    BY <1>7, <1>8, <2>2, AppendOnce DEF Sent
  <2>5. Sent(s)' = Sent(s) \union (IF m.mid \in User THEN {m.n} ELSE {})
    BY <1>8, <2>2, AppendQueue DEF Sent
  <2>6. \A t \in Socket \ {s} : Sent(t)' = Sent(t)
    BY <2>2 DEF Sent
  <2>7. Shape' /\ OnceInv'
    BY <1>1, <1>3, <1>4, <1>6, <2>2, <2>3, <2>4 DEF Inv, Shape, OnceInv
  <2>8. ApartInv'
    <3>1. \A t \in Socket : Sent(t)' \intersect Held' = {}
      BY <1>6, <1>7, <2>5, <2>6 DEF Inv, ApartInv
    <3>2. \A t, u \in Socket : t # u => Sent(t)' \intersect Sent(u)' = {}
      BY <1>7, <2>5, <2>6 DEF Inv, ApartInv
    <3>3. \A d \in Client, t \in Socket : Queued(d)' \intersect Sent(t)' = {}
      <4>1. \A d \in Client, t \in Socket : Queued(d)' \intersect Sent(t) = {}
        BY <1>4, <1>5 DEF Inv, ApartInv
      <4>2. QED
        BY <1>7, <2>5, <2>6, <4>1
    <3>4. \A d \in Client : Queued(d)' \intersect Held' = {}
      BY <1>4, <1>5, <1>6 DEF Inv, ApartInv
    <3>5. \A d, e \in Client : d # e => Queued(d)' \intersect Queued(e)' = {}
      BY <1>4, <1>5 DEF Inv, ApartInv
    <3>6. QED
      BY <3>1, <3>2, <3>3, <3>4, <3>5 DEF ApartInv
  <2>9. CountInv'
    BY <1>1, <1>4, <1>5, <1>6, <1>7, <2>5, <2>6 DEF Inv, CountInv
  <2>10. CASE m.mid \in User
    <3>1. Waiting' = Waiting \ {m.n}
      BY <1>4, <1>5, <1>7, <2>10 DEF Waiting
    <3>2. Carried' = Carried \union {m.n}
      BY <1>6, <2>5, <2>6, <2>10 DEF Carried
    <3>3. m.n \in Waiting
      BY <1>4, <2>10 DEF Waiting
    <3>4. Box!Carry
      BY <1>1, <1>6, <3>1, <3>2, <3>3 DEF Box!Carry
    <3>5. QED
      BY <2>7, <2>8, <2>9, <3>4 DEF Inv
  <2>11. CASE m.mid \notin User
    <3>1. Waiting' = Waiting /\ Carried' = Carried
      BY <1>4, <1>5, <1>6, <2>5, <2>6, <2>11 DEF Waiting, Carried
    <3>2. Box!Forget
      BY <1>1, <1>6, <3>1 DEF Box!Forget
    <3>3. QED
      BY <2>7, <2>8, <2>9, <3>2 DEF Inv
  <2>12. QED
    BY <2>10, <2>11
<1>11. QED
  BY <1>1, <1>9, <1>10 DEF Inv, Shape, m

LEMMA ClientSteps ==
  ASSUME Inv, UNCHANGED serverVars, NEW c \in Client, ClientStep(c)
  PROVE  Inv' /\ Box!Next
<1>1. CASE Reconnect(c) \/ Lost(c) \/ Read(c) \/ Drained(c)
  BY <1>1, ReadMoves, MovesKeep, MovesForget DEF Box!Next
<1>2. CASE AnswerHello(c)
  BY <1>2, AnswerHelloMoves, MovesKeep, MovesForget DEF Box!Next
<1>3. CASE AnswerFails(c) \/ Quit(c) \/ FlushFails(c)
  BY <1>3, QueueMoves, MovesKeep, MovesForget DEF Box!Next
<1>4. CASE Flush(c)
  BY <1>4, FlushStep DEF Box!Next
<1>5. CASE Send(c)
  <2>1. PICK m \in Requests(c) : SendDirect(c, m) \/ SendFails(c, m) \/ SendLater(c, m)
    BY <1>5 DEF Send
  <2>2. CASE SendDirect(c, m)
    BY <2>2, SendDirectStep DEF Box!Next
  <2>3. CASE SendFails(c, m) \/ SendLater(c, m)
    <3>1. sends' = sends + 1 /\ UNCHANGED <<toServer, toClient>> /\ Enqueue(c, m)
      BY <2>3 DEF SendFails, SendLater, Sends, netVars
    <3>2. QED
      BY <3>1, EnqueueStep DEF Box!Next
  <2>4. QED
    BY <2>1, <2>2, <2>3
<1>6. QED
  BY <1>1, <1>2, <1>3, <1>4, <1>5 DEF ClientStep, Poll

-----------------------------------------------------------------------------
LEMMA InitInv == Init => Inv /\ Box!Init
<1> SUFFICES ASSUME Init PROVE Inv /\ Box!Init
  OBVIOUS
<1>1. /\ sends = 0 /\ inbox = <<>> /\ ready = {}
      /\ toServer = [s \in Socket |-> <<>>] /\ toClient = [s \in Socket |-> <<>>]
      /\ sendQueue = [c \in Client |-> <<>>]
  BY DEF Init, NetInit, ServerInit, ClientInit
<1>2. /\ Held = {}
      /\ \A s \in Socket : Sent(s) = {} /\ Mailed(s) = {}
      /\ \A c \in Client : Queued(c) = {}
  BY <1>1, EmptyQueue DEF Held, Sent, Mailed, Queued
<1>3. Shape /\ OnceInv
  BY <1>1, EmptyQueue DEF Shape, OnceInv
<1>4. ApartInv /\ CountInv
  BY <1>2 DEF ApartInv, CountInv
<1>5. Waiting = {} /\ Carried = {} /\ Mail = {}
  BY <1>2 DEF Waiting, Carried, Mail
<1>6. QED
  BY <1>1, <1>3, <1>4, <1>5 DEF Inv, Box!Init

LEMMA NextStep == Inv /\ [Next]_vars => Inv' /\ [Box!Next]_(Box!vars)
<1> SUFFICES ASSUME Inv, [Next]_vars PROVE Inv' /\ [Box!Next]_(Box!vars)
  OBVIOUS
<1>1. CASE Server /\ UNCHANGED clientVars
  BY <1>1, ServerStep
<1>2. CASE (\E c \in Client : ClientStep(c)) /\ UNCHANGED serverVars
  BY <1>2, ClientSteps
<1>3. CASE Network /\ UNCHANGED <<serverVars, clientVars>>
  BY <1>3, NetworkMoves, MovesKeep, MovesForget DEF Box!Next
<1>4. CASE UNCHANGED vars
  <2>1. \A s \in Socket : toClient'[s] = toClient[s]
    BY <1>4 DEF vars, netVars
  <2>2. DOMAIN toClient' = Socket
    BY <1>4 DEF vars, netVars, Inv, Shape
  <2>3. Moves({})
    BY <1>4, <2>1, <2>2, MailMoves DEF vars, netVars, clientVars
  <2>4. QED
    BY <2>3, MovesKeep, MovesForget DEF Box!Next
<1>5. QED
  BY <1>1, <1>2, <1>3, <1>4 DEF Next

\* A message is in one place at a time, its number never used again
\* (the queue and send() of Bus/Client.pm, the parser of SimpleClient.pm).
THEOREM OnePlaceHolds == Spec => []Inv
<1>1. Init => Inv
  BY InitInv
<1>2. Inv /\ [Next]_vars => Inv'
  BY NextStep
<1>3. QED
  BY <1>1, <1>2, PTL DEF Spec

\* Each message moves on at most once from the queue to the server and from there to each
\* receiver, over lost connections, retries and restarts (Bus/Client.pm:118-160, 242-262).
THEOREM AtMostOnceHolds == Spec => AtMostOnce
<1>1. Init => Box!Init
  BY InitInv
<1>2. Inv /\ [Next]_vars => [Box!Next]_(Box!vars)
  BY NextStep
<1>3. QED
  BY <1>1, <1>2, OnePlaceHolds, PTL DEF Spec, AtMostOnce, Box!Spec

============================================================================
