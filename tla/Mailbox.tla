------------------------------ MODULE Mailbox ------------------------------
(***************************************************************************)
(* What the bus promises about a message, whatever breaks: it is accepted  *)
(* once, moves only forward -- from the sender's queue to the server, from *)
(* the server to its receivers -- and may get lost on the way, but never   *)
(* is in two places, comes back, or reaches a receiver twice.              *)
(***************************************************************************)
EXTENDS Integers

CONSTANTS Receiver

VARIABLES
    accepted,       \* number of messages accepted; they are numbered
    queued,         \* messages that wait in a client's queue
    carried,        \* messages under way to the server, or in its parser
    mail            \* pairs of a message and a receiver it is under way to

vars == <<accepted, queued, carried, mail>>

Init ==
    /\ accepted = 0
    /\ queued = {}
    /\ carried = {}
    /\ mail = {}

New == accepted + 1

\* A message arrives, or things get lost.
Forget ==
    /\ accepted' = accepted
    /\ queued' \subseteq queued
    /\ carried' \subseteq carried
    /\ mail' \subseteq mail

\* A message is accepted for the queue, sent at once, or lost.
Accept ==
    /\ accepted' = New
    /\ \/ queued' = queued \union {New} /\ UNCHANGED carried
       \/ carried' = carried \union {New} /\ UNCHANGED queued
       \/ UNCHANGED <<queued, carried>>
    /\ UNCHANGED mail

Carry ==
    /\ \E n \in queued : /\ queued' = queued \ {n}
                         /\ carried' = carried \union {n}
    /\ UNCHANGED <<accepted, mail>>

\* The server sends a message on to any number of receivers, and drops the
\* connections on which that fails, with what was under way on them.
Route ==
    /\ \E n \in carried : /\ carried' \subseteq carried \ {n}
                          /\ mail' \subseteq mail \union ({n} \X Receiver)
    /\ UNCHANGED <<accepted, queued>>

Next == Forget \/ Accept \/ Carry \/ Route

Spec == Init /\ [][Next]_vars

============================================================================
