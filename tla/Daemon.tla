------------------------------- MODULE Daemon -------------------------------
(***************************************************************************)
(* Utils/Daemon.pm with Utils/LockFile.pm: programs of which one instance  *)
(* may run.  Servers call init(), clients call getInfo().  Two lock files  *)
(* in the temporary directory decide: "lock" guards the other one and the  *)
(* info file, "runlock" is held by the running instance.                   *)
(*                                                                         *)
(* pc[p] is where process p is:                                            *)
(*   server  "unborn" -> "init" -> "tryRun" -> "startServer" -> "create"   *)
(*           -> "write" -> "publish" -> "serve"                            *)
(*           "tryRun" -> "refused" -> "gone"     another one runs          *)
(*           "create" -> "abandon" -> "gone"     no info file              *)
(*   client  "idle" -> "probe" -> "read" or "release" -> "leave"           *)
(*           -> "answered" -> ...                                          *)
(*   both    -> "gone"                           the process ends          *)
(***************************************************************************)
CONSTANTS
    Client, Server,
    Nobody,     \* holds a free lock
    None,       \* getInfo() returned undef; also: there is no info file
    Blank       \* an info file that is open and still empty

ASSUME DaemonAssumption ==
    /\ Client \intersect Server = {}
    /\ Nobody \notin Client \union Server
    /\ None \notin Client \union Server
    /\ Blank \notin Server \union {None}

VARIABLES
    holder,     \* [lock, runlock]: the process that holds the lock file
    info,       \* the info file: the server whose address it has
    pc,
    answer      \* what getInfo() returned to each client

daemonVars == <<holder, info, pc, answer>>

Process == Client \union Server

ServerPc == {"unborn", "init", "tryRun", "startServer", "create", "write",
             "publish", "serve", "refused", "abandon", "gone"}
ClientPc == {"idle", "probe", "read", "release", "leave", "answered",
             "connect", "gone"}

DaemonTypeOK ==
    /\ holder \in [{"lock", "runlock"} -> Process \union {Nobody}]
    /\ info \in Server \union {None, Blank}
    /\ pc \in [Process -> ServerPc \union ClientPc]
    /\ \A s \in Server : pc[s] \in ServerPc
    /\ \A c \in Client : pc[c] \in ClientPc
    /\ answer \in [Client -> Server \union {None, Blank}]

DaemonInit ==
    /\ holder = [lock |-> Nobody, runlock |-> Nobody]
    /\ info = None
    /\ pc = [p \in Process |-> IF p \in Server THEN "unborn" ELSE "idle"]
    /\ answer = [c \in Client |-> None]

---------------------------------------------------------------------------
(* Lock files.  Each call opens the file anew, so a process that holds a   *)
(* lock waits for itself if it takes it again; the system frees the locks  *)
(* of a process that ends.                                                 *)

Lock(f, p) == holder[f] = Nobody /\ holder' = [holder EXCEPT ![f] = p]

Locked(f) == holder[f] # Nobody /\ UNCHANGED holder

\* Mutant: a lock that is given up without a free lock file.
UnlockToNone(f) == holder' = [holder EXCEPT ![f] = None]

Unlock(f) == holder' = [holder EXCEPT ![f] = Nobody]

Goto(p, l) == pc' = [pc EXCEPT ![p] = l]

Step(p, from, to) == pc[p] = from /\ Goto(p, to)

---------------------------------------------------------------------------
(* init() of a server.                                                     *)

InitLock(s) ==
    /\ Step(s, "init", "tryRun")
    /\ Lock("lock", s)
    /\ UNCHANGED <<info, answer>>

\* Mutant: the result of tryLock() is not looked at.
GetRunLockUntested(s) ==
    /\ Step(s, "tryRun", "startServer")
    /\ holder' = [holder EXCEPT !.runlock = s]
    /\ UNCHANGED <<info, answer>>

GetRunLock(s) ==
    /\ Step(s, "tryRun", "startServer")
    /\ Lock("runlock", s)
    /\ UNCHANGED <<info, answer>>

AlreadyRunning(s) ==
    /\ Step(s, "tryRun", "refused")
    /\ Locked("runlock")
    /\ UNCHANGED <<info, answer>>

\* AlreadyRunning is thrown; the program prints the address and exits.
Refuse(s) ==
    /\ Step(s, "refused", "gone")
    /\ Unlock("lock")
    /\ UNCHANGED <<info, answer>>

\* $initFunc: from now on there is a socket to connect to.
StartServer(s) ==
    /\ Step(s, "startServer", "create")
    /\ UNCHANGED <<holder, info, answer>>

\* Mutant: the lock is given up before the file is written.
CreateInfoUnlocked(s) ==
    /\ Step(s, "create", "write")
    /\ info' = Blank
    /\ Unlock("lock")
    /\ UNCHANGED answer

CreateInfo(s) ==
    /\ Step(s, "create", "write")
    /\ info' = Blank
    /\ UNCHANGED <<holder, answer>>

\* The lines are written when the file is closed.
WriteInfo(s) ==
    /\ Step(s, "write", "publish")
    /\ info' = s
    /\ UNCHANGED <<holder, answer>>

Publish(s) ==
    /\ Step(s, "publish", "serve")
    /\ Unlock("lock")
    /\ UNCHANGED <<info, answer>>

CannotCreateInfo(s) ==
    /\ Step(s, "create", "abandon")
    /\ Unlock("runlock")
    /\ UNCHANGED <<info, answer>>

Abandon(s) ==
    /\ Step(s, "abandon", "gone")
    /\ Unlock("lock")
    /\ UNCHANGED <<info, answer>>

DaemonStep(s) ==
    \/ GetRunLock(s) \/ AlreadyRunning(s) \/ Refuse(s) \/ StartServer(s)
    \/ CreateInfo(s) \/ WriteInfo(s) \/ Publish(s) \/ Abandon(s)

---------------------------------------------------------------------------
(* getInfo() of a client.                                                  *)

AskLock(c) ==
    /\ Step(c, "idle", "probe")
    /\ Lock("lock", c)
    /\ UNCHANGED <<info, answer>>

\* Nothing runs if the client gets the run lock; it gives it back.
ProbeFree(c) ==
    /\ Step(c, "probe", "release")
    /\ Lock("runlock", c)
    /\ UNCHANGED <<info, answer>>

ProbeHeld(c) ==
    /\ Step(c, "probe", "read")
    /\ Locked("runlock")
    /\ UNCHANGED <<info, answer>>

ReadInfo(c) ==
    /\ Step(c, "read", "leave")
    /\ answer' = [answer EXCEPT ![c] = IF info = None THEN Blank ELSE info]
    /\ UNCHANGED <<holder, info>>

Release(c) ==
    /\ Step(c, "release", "leave")
    /\ Unlock("runlock")
    /\ answer' = [answer EXCEPT ![c] = None]
    /\ UNCHANGED info

Leave(c) ==
    /\ Step(c, "leave", "answered")
    /\ Unlock("lock")
    /\ UNCHANGED <<info, answer>>

GetInfoStep(c) ==
    ProbeFree(c) \/ ProbeHeld(c) \/ ReadInfo(c) \/ Release(c) \/ Leave(c)

---------------------------------------------------------------------------
\* A process ends, wherever it is.
Exit(p) ==
    /\ pc[p] \notin {"unborn", "gone"}
    /\ Goto(p, "gone")
    /\ holder' = [f \in DOMAIN holder |->
                    IF holder[f] = p THEN Nobody ELSE holder[f]]
    /\ UNCHANGED <<info, answer>>
============================================================================
