----------------------------- MODULE Singleton -----------------------------
(***************************************************************************)
(* What Utils/Daemon.pm promises: at most one instance of a program runs,  *)
(* and whoever asks learns, at one moment of its call, which one it is.    *)
(***************************************************************************)
CONSTANTS Client, Server, None

VARIABLES
    instance,   \* the instance that runs, or None
    told        \* what each client learnt when it asked last

Init ==
    /\ instance = None
    /\ told = [c \in Client |-> None]

Start(s) ==
    /\ instance = None
    /\ instance' = s
    /\ UNCHANGED told

End ==
    /\ instance' = None
    /\ UNCHANGED told

Ask(c) ==
    /\ told' = [told EXCEPT ![c] = instance]
    /\ UNCHANGED instance

\* A client that ends takes its knowledge with it.
Forget(c) ==
    /\ told' = [told EXCEPT ![c] = None]
    /\ UNCHANGED instance

Next ==
    \/ \E s \in Server : Start(s)
    \/ End
    \/ \E c \in Client : Ask(c) \/ Forget(c)

Spec == Init /\ [][Next]_<<instance, told>>
============================================================================
