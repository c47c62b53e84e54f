--------------------------- MODULE MCTaskManager ---------------------------
(* TaskManager on small instances: three or four tasks and two mutexes.     *)
EXTENDS TaskManager, TLC

CONSTANTS a, b, c, d, m1, m2

\* Two tasks of the same priority and name, and one the user asked for.  a wants
\* both mutexes; the lists of b and c overlap it, and each other's, or not.
Priorities == a :> 1 @@ b :> 1 @@ c :> 2
NameOf     == a :> "route" @@ b :> "route" @@ c :> "sit"
Lists      == a :> {{m1, m2}} @@ b :> {{m2}, {m1}} @@ c :> {{m1}, {m2}}

\* Four priorities: b > a > c > d, where a holds both mutexes.
Ladder      == a :> 3 @@ b :> 4 @@ c :> 2 @@ d :> 1
LadderNames == [t \in {a, b, c, d} |-> "route"]
LadderLists == a :> {{m1, m2}} @@ b :> {{m2}} @@ c :> {{m1}} @@ d :> {{m1}}
=============================================================================
