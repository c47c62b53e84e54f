------------------------------ MODULE OpenTask ------------------------------
(***************************************************************************)
(* What Task.pm promises the task manager of any task: which calls and     *)
(* which changes of its mutex list its status allows.                      *)
(***************************************************************************)
CONSTANT Mutex

VARIABLES status, mutexes

Init == status = "INACTIVE" /\ mutexes \in SUBSET Mutex

\* Activation happens once; the task may set up its list.
Activate ==
    /\ status = "INACTIVE"
    /\ status' = "RUNNING"
    /\ mutexes' \in SUBSET Mutex

\* Only here the list changes and the task finishes.
Iterate ==
    /\ status = "RUNNING"
    /\ status' \in {"RUNNING", "STOPPED", "DONE"}
    /\ mutexes' \in SUBSET Mutex

Interrupt == status = "RUNNING" /\ status' = "INTERRUPTED" /\ UNCHANGED mutexes

Resume == status = "INTERRUPTED" /\ status' = "RUNNING" /\ UNCHANGED mutexes

Stop ==
    /\ status \in {"INACTIVE", "RUNNING", "INTERRUPTED"}
    /\ status' = "STOPPED"
    /\ UNCHANGED mutexes

Next == Activate \/ Iterate \/ Interrupt \/ Resume \/ Stop

Spec == Init /\ [][Next]_<<status, mutexes>>
============================================================================
