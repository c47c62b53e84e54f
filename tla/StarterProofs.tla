--------------------------- MODULE StarterProofs ---------------------------
(***************************************************************************)
(* Proofs about Starter, for any number of clients, servers and accidents: *)
(* the lock files let one server run at a time, and getInfo() answers as   *)
(* the abstract Singleton does.                                            *)
(***************************************************************************)
EXTENDS Starter, TLAPS

HasLock == {"tryRun", "startServer", "create", "write", "publish", "refused",
            "abandon", "probe", "read", "release", "leave"}

HasRunLock == {"startServer", "create", "write", "publish", "serve", "release"}

\* The locks are held by the processes that are between taking and freeing
\* them, and by nobody else.
LockInv == \A p \in Process : pc[p] \in HasLock <=> holder.lock = p

RunLockInv == \A p \in Process : pc[p] \in HasRunLock <=> holder.runlock = p

\* The info file names the running server.  Nobody can change it while a
\* client that saw the run lock taken is about to read it.
InfoInv ==
    /\ \A s \in Server : pc[s] \in {"publish", "serve"} => info = s
    /\ \A c \in Client : pc[c] = "read" => info \in Server

Inductive == TypeOK /\ LockInv /\ RunLockInv /\ InfoInv

-----------------------------------------------------------------------------
(* The initial state.                                                        *)

LEMMA InitInductive == Init => Inductive
<1> SUFFICES ASSUME Init PROVE Inductive
  OBVIOUS
<1> USE DEF Init, DaemonInit
<1>1. pc \in [Process -> {"unborn", "idle"}]
  OBVIOUS
<1>2. \A p \in Process : pc[p] = IF p \in Server THEN "unborn" ELSE "idle"
  OBVIOUS
<1>3. \A c \in Client : c \in Process /\ c \notin Server
  BY DaemonAssumption DEF Process
<1>4. \A s \in Server : s \in Process
  BY DEF Process
<1>5. DaemonTypeOK
  <2>1. pc \in [Process -> ServerPc \union ClientPc]
    BY <1>1 DEF ServerPc, ClientPc
  <2>2. \A s \in Server : pc[s] \in ServerPc
    BY <1>2, <1>4 DEF ServerPc
  <2>3. \A c \in Client : pc[c] \in ClientPc
    BY <1>2, <1>3 DEF ClientPc
  <2>4. /\ holder \in [{"lock", "runlock"} -> Process \union {Nobody}]
        /\ info \in Server \union {None, Blank}
        /\ answer \in [Client -> Server \union {None, Blank}]
    OBVIOUS
  <2> QED
    BY <2>1, <2>2, <2>3, <2>4 DEF DaemonTypeOK
<1>6. TypeOK
  BY <1>5, StarterAssumption DEF TypeOK
<1>7. LockInv /\ RunLockInv
  BY <1>1, DaemonAssumption DEF LockInv, RunLockInv, HasLock, HasRunLock, Process
<1>8. InfoInv
  BY <1>2, <1>3, <1>4 DEF InfoInv
<1> QED
  BY <1>6, <1>7, <1>8 DEF Inductive

-----------------------------------------------------------------------------
(* Types.                                                                    *)

\* What a step of a process does to the program counters.
LEMMA GotoType ==
    ASSUME DaemonTypeOK, NEW p \in Process, NEW l, Goto(p, l),
           p \in Server => l \in ServerPc, p \in Client => l \in ClientPc
    PROVE  /\ pc' \in [Process -> ServerPc \union ClientPc]
           /\ \A s \in Server : pc'[s] \in ServerPc
           /\ \A c \in Client : pc'[c] \in ClientPc
<1>1. p \in Server \/ p \in Client
  BY DEF Process
<1>2. l \in ServerPc \union ClientPc
  BY <1>1
<1>3. pc' = [pc EXCEPT ![p] = l] /\ pc \in [Process -> ServerPc \union ClientPc]
  BY DEF Goto, DaemonTypeOK
<1>4. \A q \in Process : pc'[q] = IF q = p THEN l ELSE pc[q]
  BY <1>3
<1>5. \A s \in Server : s \in Process
  BY DEF Process
<1>6. \A c \in Client : c \in Process
  BY DEF Process
<1> QED
  BY <1>2, <1>3, <1>4, <1>5, <1>6 DEF DaemonTypeOK

LEMMA HolderType ==
    ASSUME DaemonTypeOK, NEW p \in Process, NEW f \in {"lock", "runlock"},
           Lock(f, p) \/ Unlock(f)
    PROVE  holder' \in [{"lock", "runlock"} -> Process \union {Nobody}]
BY DEF DaemonTypeOK, Lock, Unlock

LEMMA ServerStepType ==
    ASSUME DaemonTypeOK, NEW s \in Server,
           InitLock(s) \/ DaemonStep(s) \/ CannotCreateInfo(s)
    PROVE  DaemonTypeOK'
<1>0. s \in Process /\ s \notin Client
  BY DaemonAssumption DEF Process
<1>1. \E l \in ServerPc : Goto(s, l)
  BY DEF InitLock, DaemonStep, CannotCreateInfo, GetRunLock, AlreadyRunning, Refuse,
         StartServer, CreateInfo, WriteInfo, Publish, Abandon, Step, ServerPc
<1>2. /\ pc' \in [Process -> ServerPc \union ClientPc]
      /\ \A t \in Server : pc'[t] \in ServerPc
      /\ \A c \in Client : pc'[c] \in ClientPc
  BY <1>0, <1>1, GotoType
<1>3. holder' \in [{"lock", "runlock"} -> Process \union {Nobody}]
  <2>1. \/ holder' = holder
        \/ \E f \in {"lock", "runlock"} : Lock(f, s) \/ Unlock(f)
    BY DEF InitLock, DaemonStep, CannotCreateInfo, GetRunLock, AlreadyRunning, Refuse,
           StartServer, CreateInfo, WriteInfo, Publish, Abandon, Locked
  <2> QED
    BY <1>0, <2>1, HolderType DEF DaemonTypeOK
<1>4. info' \in Server \union {None, Blank} /\ answer' = answer
  BY DEF DaemonTypeOK, InitLock, DaemonStep, CannotCreateInfo, GetRunLock,
         AlreadyRunning, Refuse, StartServer, CreateInfo, WriteInfo, Publish, Abandon
<1> QED
  BY <1>2, <1>3, <1>4 DEF DaemonTypeOK

LEMMA GetInfoType ==
    ASSUME DaemonTypeOK, NEW c \in Client, AskLock(c) \/ GetInfoStep(c)
    PROVE  DaemonTypeOK'
<1>0. c \in Process /\ c \notin Server
  BY DaemonAssumption DEF Process
<1>1. \E l \in ClientPc : Goto(c, l)
  BY DEF AskLock, GetInfoStep, ProbeFree, ProbeHeld, ReadInfo, Release, Leave, Step,
         ClientPc
<1>2. /\ pc' \in [Process -> ServerPc \union ClientPc]
      /\ \A t \in Server : pc'[t] \in ServerPc
      /\ \A d \in Client : pc'[d] \in ClientPc
  BY <1>0, <1>1, GotoType
<1>3. holder' \in [{"lock", "runlock"} -> Process \union {Nobody}]
  <2>1. \/ holder' = holder
        \/ \E f \in {"lock", "runlock"} : Lock(f, c) \/ Unlock(f)
    BY DEF AskLock, GetInfoStep, ProbeFree, ProbeHeld, ReadInfo, Release, Leave, Locked
  <2> QED
    BY <1>0, <2>1, HolderType DEF DaemonTypeOK
<1>4. info' = info /\ answer' \in [Client -> Server \union {None, Blank}]
  BY DEF DaemonTypeOK, AskLock, GetInfoStep, ProbeFree, ProbeHeld, ReadInfo, Release,
         Leave
<1> QED
  BY <1>2, <1>3, <1>4 DEF DaemonTypeOK

LEMMA ExitType ==
    ASSUME DaemonTypeOK, NEW p \in Process, Exit(p)
    PROVE  DaemonTypeOK'
<1>1. /\ pc' \in [Process -> ServerPc \union ClientPc]
      /\ \A s \in Server : pc'[s] \in ServerPc
      /\ \A c \in Client : pc'[c] \in ClientPc
  BY GotoType DEF Exit, ServerPc, ClientPc
<1>2. holder' \in [{"lock", "runlock"} -> Process \union {Nobody}]
  BY DEF Exit, DaemonTypeOK
<1> QED
  BY <1>1, <1>2 DEF Exit, DaemonTypeOK

LEMMA NextType == TypeOK /\ [Next]_vars => TypeOK'
<1> SUFFICES ASSUME TypeOK, [Next]_vars PROVE TypeOK'
  OBVIOUS
<1>0. DaemonTypeOK
  BY DEF TypeOK
<1>a. ASSUME Accident PROVE accidents' \in 0..MaxAccidents
  BY <1>a, StarterAssumption DEF Accident, TypeOK
<1>1. CASE UNCHANGED vars
  BY <1>1 DEF vars, daemonVars, clientVars, TypeOK, DaemonTypeOK
<1>2. ASSUME NEW c \in Client, ClientNext(c) PROVE TypeOK'
  <2>0. c \in Process /\ c \notin Server
    BY DaemonAssumption DEF Process
  <2>1. CASE Poll(c) \/ InGetInfo(c)
    <3>1. DaemonTypeOK'
      BY <1>0, <2>1, GetInfoType DEF Poll, InGetInfo
    <3> QED
      BY <2>1, <3>1 DEF Poll, InGetInfo, clientVars, TypeOK
  <2>2. CASE Launch(c)
    <3>1. PICK s \in Unborn : pc' = [pc EXCEPT ![c] = "idle", ![s] = "init"]
      BY <2>2 DEF Launch
    <3>2. s \in Server /\ s \in Process
      BY <3>1 DEF Unborn, Process
    <3>3. /\ pc' \in [Process -> ServerPc \union ClientPc]
          /\ \A t \in Server : pc'[t] \in ServerPc
          /\ \A d \in Client : pc'[d] \in ClientPc
      <4>1. pc \in [Process -> ServerPc \union ClientPc]
        BY DEF TypeOK, DaemonTypeOK
      <4>2. \A q \in Process :
              pc'[q] = IF q = s THEN "init" ELSE IF q = c THEN "idle" ELSE pc[q]
        BY <3>1, <3>2, <2>0, <4>1
      <4>3. "init" \in ServerPc /\ "idle" \in ClientPc
        BY DEF ServerPc, ClientPc
      <4>4. pc' \in [Process -> ServerPc \union ClientPc]
        BY <3>1, <4>1, <4>3
      <4>5. \A t \in Server : t \in Process /\ t # c
        BY <2>0 DEF Process
      <4>6. \A d \in Client : d \in Process /\ d # s
        BY <3>2, DaemonAssumption DEF Process
      <4> QED
        BY <4>2, <4>3, <4>4, <4>5, <4>6 DEF TypeOK, DaemonTypeOK
    <3>4. DaemonTypeOK'
      BY <2>2, <3>3 DEF Launch, Answered, TypeOK, DaemonTypeOK
    <3> QED
      BY <2>2, <3>4 DEF Launch, Answered, TypeOK
  <2>3. CASE Started(c) \/ LaunchFails(c) \/ Wait(c) \/ TimeOut(c) \/ Connect(c)
    <3>1. Goto(c, "connect") \/ Goto(c, "idle")
      BY <2>3 DEF Started, LaunchFails, Wait, TimeOut, Connect, Step
    <3>2. /\ pc' \in [Process -> ServerPc \union ClientPc]
          /\ \A t \in Server : pc'[t] \in ServerPc
          /\ \A d \in Client : pc'[d] \in ClientPc
      BY <1>0, <2>0, <3>1, GotoType DEF ClientPc
    <3>3. DaemonTypeOK'
      BY <2>3, <3>2, <1>0
         DEF Started, LaunchFails, Wait, TimeOut, Connect, Answered, DaemonTypeOK
    <3>4. /\ state' \in [Client -> {"STARTING_SERVER", "HANDSHAKING", "CONNECTED",
                                    "NOT_CONNECTED"}]
          /\ starter' \in [Client -> {"NOT_STARTED", "STARTING"}]
      BY <2>3 DEF Started, LaunchFails, Wait, TimeOut, Connect, Answered, TypeOK
    <3>5. address' \in [Client -> Server \union {None, Blank}]
      BY <2>3, <1>0 DEF Started, LaunchFails, Wait, TimeOut, Connect, TypeOK, DaemonTypeOK
    <3>6. accidents' = accidents \/ Accident
      BY <2>3 DEF Started, LaunchFails, Wait, TimeOut, Connect
    <3>7. accidents' \in 0..MaxAccidents
      BY <3>6, <1>a DEF TypeOK
    <3> QED
      BY <3>3, <3>4, <3>5, <3>7 DEF TypeOK
  <2>4. CASE Handshake(c) \/ Lost(c)
    <3>1. UNCHANGED <<daemonVars, address, accidents>>
      BY <2>4 DEF Handshake, Lost
    <3>2. /\ state' \in [Client -> {"STARTING_SERVER", "HANDSHAKING", "CONNECTED",
                                    "NOT_CONNECTED"}]
          /\ starter' \in [Client -> {"NOT_STARTED", "STARTING"}]
      BY <2>4 DEF Handshake, Lost, TypeOK
    <3> QED
      BY <3>1, <3>2 DEF daemonVars, TypeOK, DaemonTypeOK
  <2>5. CASE Quit(c)
    <3>1. DaemonTypeOK'
      BY <1>0, <2>0, <2>5, ExitType DEF Quit
    <3> QED
      BY <2>5, <3>1 DEF Quit, clientVars, TypeOK
  <2> QED
    BY <1>2, <2>1, <2>2, <2>3, <2>4, <2>5 DEF ClientNext
<1>3. ASSUME NEW s \in Server, ServerNext(s) PROVE TypeOK'
  <2>1. DaemonTypeOK'
    <3>1. CASE BeginInit(s) \/ InInit(s) \/ InfoFails(s)
      BY <1>0, <3>1, ServerStepType DEF BeginInit, InInit, InfoFails
    <3>2. CASE Crash(s)
      BY <1>0, <3>2, ExitType DEF Crash, Process
    <3> QED
      BY <1>3, <3>1, <3>2 DEF ServerNext
  <2>2. UNCHANGED clientVars /\ (accidents' = accidents \/ Accident)
    BY <1>3 DEF ServerNext, BeginInit, InInit, InfoFails, Crash
  <2>3. accidents' \in 0..MaxAccidents
    BY <2>2, <1>a DEF TypeOK
  <2> QED
    BY <2>1, <2>2, <2>3 DEF clientVars, TypeOK
<1> QED
  BY <1>1, <1>2, <1>3 DEF Next

-----------------------------------------------------------------------------
(* Locks.                                                                    *)

\* A process that moves within, or within the outside of, the regions and
\* leaves the locks alone keeps the invariants.
LEMMA StepKeepsLocks ==
    ASSUME TypeOK, LockInv, RunLockInv, NEW p \in Process, NEW l,
           Goto(p, l), UNCHANGED holder,
           pc[p] \in HasLock <=> l \in HasLock,
           pc[p] \in HasRunLock <=> l \in HasRunLock
    PROVE  LockInv' /\ RunLockInv'
<1>1. pc \in [Process -> ServerPc \union ClientPc]
  BY DEF TypeOK, DaemonTypeOK
<1>2. \A q \in Process : pc'[q] = IF q = p THEN l ELSE pc[q]
  BY <1>1 DEF Goto
<1> QED
  BY <1>2 DEF LockInv, RunLockInv

LEMMA LockKeepsLocks ==
    ASSUME TypeOK, LockInv, RunLockInv, NEW p \in Process, NEW l,
           Goto(p, l), Lock("lock", p), l \in HasLock,
           pc[p] \in HasRunLock <=> l \in HasRunLock
    PROVE  LockInv' /\ RunLockInv'
<1>1. pc \in [Process -> ServerPc \union ClientPc]
  BY DEF TypeOK, DaemonTypeOK
<1>2. \A q \in Process : pc'[q] = IF q = p THEN l ELSE pc[q]
  BY <1>1 DEF Goto
<1>3. holder.lock = Nobody /\ holder'.lock = p /\ holder'.runlock = holder.runlock
  BY DEF Lock, TypeOK, DaemonTypeOK
<1>4. Nobody \notin Process
  BY DaemonAssumption DEF Process
<1> QED
  BY <1>2, <1>3, <1>4 DEF LockInv, RunLockInv

LEMMA RunLockKeepsLocks ==
    ASSUME TypeOK, LockInv, RunLockInv, NEW p \in Process, NEW l,
           Goto(p, l), Lock("runlock", p), l \in HasRunLock,
           pc[p] \in HasLock <=> l \in HasLock
    PROVE  LockInv' /\ RunLockInv'
<1>1. pc \in [Process -> ServerPc \union ClientPc]
  BY DEF TypeOK, DaemonTypeOK
<1>2. \A q \in Process : pc'[q] = IF q = p THEN l ELSE pc[q]
  BY <1>1 DEF Goto
<1>3. holder.runlock = Nobody /\ holder'.runlock = p /\ holder'.lock = holder.lock
  BY DEF Lock, TypeOK, DaemonTypeOK
<1>4. Nobody \notin Process
  BY DaemonAssumption DEF Process
<1> QED
  BY <1>2, <1>3, <1>4 DEF LockInv, RunLockInv

LEMMA UnlockKeepsLocks ==
    ASSUME TypeOK, LockInv, RunLockInv, NEW p \in Process, NEW l,
           Goto(p, l), Unlock("lock"), pc[p] \in HasLock, l \notin HasLock,
           pc[p] \in HasRunLock <=> l \in HasRunLock
    PROVE  LockInv' /\ RunLockInv'
<1>1. pc \in [Process -> ServerPc \union ClientPc]
  BY DEF TypeOK, DaemonTypeOK
<1>2. \A q \in Process : pc'[q] = IF q = p THEN l ELSE pc[q]
  BY <1>1 DEF Goto
<1>3. holder.lock = p /\ holder'.lock = Nobody /\ holder'.runlock = holder.runlock
  BY DEF Unlock, LockInv, TypeOK, DaemonTypeOK
<1>4. Nobody \notin Process
  BY DaemonAssumption DEF Process
<1> QED
  BY <1>2, <1>3, <1>4 DEF LockInv, RunLockInv

LEMMA UnlockRunKeepsLocks ==
    ASSUME TypeOK, LockInv, RunLockInv, NEW p \in Process, NEW l,
           Goto(p, l), Unlock("runlock"), pc[p] \in HasRunLock, l \notin HasRunLock,
           pc[p] \in HasLock <=> l \in HasLock
    PROVE  LockInv' /\ RunLockInv'
<1>1. pc \in [Process -> ServerPc \union ClientPc]
  BY DEF TypeOK, DaemonTypeOK
<1>2. \A q \in Process : pc'[q] = IF q = p THEN l ELSE pc[q]
  BY <1>1 DEF Goto
<1>3. holder.runlock = p /\ holder'.runlock = Nobody /\ holder'.lock = holder.lock
  BY DEF Unlock, RunLockInv, TypeOK, DaemonTypeOK
<1>4. Nobody \notin Process
  BY DaemonAssumption DEF Process
<1> QED
  BY <1>2, <1>3, <1>4 DEF LockInv, RunLockInv

\* The system frees the locks of a process that ends.
LEMMA ExitKeepsLocks ==
    ASSUME TypeOK, LockInv, RunLockInv, NEW p \in Process, Exit(p)
    PROVE  LockInv' /\ RunLockInv'
<1>1. pc \in [Process -> ServerPc \union ClientPc]
  BY DEF TypeOK, DaemonTypeOK
<1>2. \A q \in Process : pc'[q] = IF q = p THEN "gone" ELSE pc[q]
  BY <1>1 DEF Exit, Goto
<1>3. /\ holder'.lock = IF holder.lock = p THEN Nobody ELSE holder.lock
      /\ holder'.runlock = IF holder.runlock = p THEN Nobody ELSE holder.runlock
  BY DEF Exit, TypeOK, DaemonTypeOK
<1>4. Nobody \notin Process /\ "gone" \notin HasLock /\ "gone" \notin HasRunLock
  BY DaemonAssumption DEF Process, HasLock, HasRunLock
<1> QED
  BY <1>2, <1>3, <1>4 DEF LockInv, RunLockInv

LEMMA NextLocks ==
    TypeOK /\ LockInv /\ RunLockInv /\ [Next]_vars => LockInv' /\ RunLockInv'
<1> SUFFICES ASSUME TypeOK, LockInv, RunLockInv, [Next]_vars
             PROVE  LockInv' /\ RunLockInv'
  OBVIOUS
<1>1. CASE UNCHANGED vars
  BY <1>1 DEF vars, daemonVars, LockInv, RunLockInv
<1>2. ASSUME NEW c \in Client, ClientNext(c) PROVE LockInv' /\ RunLockInv'
  <2>0. c \in Process /\ c \notin Server
    BY DaemonAssumption DEF Process
  <2>1. CASE Poll(c)
    BY <2>0, <2>1, LockKeepsLocks DEF Poll, AskLock, Step, HasLock, HasRunLock
  <2>2. CASE InGetInfo(c)
    <3>1. CASE ProbeFree(c)
      BY <2>0, <3>1, RunLockKeepsLocks DEF ProbeFree, Step, HasLock, HasRunLock
    <3>2. CASE ProbeHeld(c) \/ ReadInfo(c)
      BY <2>0, <3>2, StepKeepsLocks
         DEF ProbeHeld, ReadInfo, Locked, Step, HasLock, HasRunLock
    <3>3. CASE Release(c)
      BY <2>0, <3>3, UnlockRunKeepsLocks DEF Release, Step, HasLock, HasRunLock
    <3>4. CASE Leave(c)
      BY <2>0, <3>4, UnlockKeepsLocks DEF Leave, Step, HasLock, HasRunLock
    <3> QED
      BY <2>2, <3>1, <3>2, <3>3, <3>4 DEF InGetInfo, GetInfoStep
  <2>3. CASE Launch(c)
    <3>1. PICK s \in Unborn : pc' = [pc EXCEPT ![c] = "idle", ![s] = "init"]
      BY <2>3 DEF Launch
    <3>2. s \in Process /\ pc[s] = "unborn" /\ pc[c] = "answered" /\ holder' = holder
      BY <2>3, <3>1 DEF Unborn, Process, Launch, Answered
    <3>3. pc \in [Process -> ServerPc \union ClientPc]
      BY DEF TypeOK, DaemonTypeOK
    <3>4. \A q \in Process :
            pc'[q] = IF q = s THEN "init" ELSE IF q = c THEN "idle" ELSE pc[q]
      BY <2>0, <3>1, <3>2, <3>3
    <3>5. \A l \in {"unborn", "init", "answered", "idle"} :
            l \notin HasLock /\ l \notin HasRunLock
      BY DEF HasLock, HasRunLock
    <3>6. \A q \in Process : /\ pc'[q] \in HasLock <=> pc[q] \in HasLock
                             /\ pc'[q] \in HasRunLock <=> pc[q] \in HasRunLock
      BY <3>2, <3>4, <3>5
    <3> QED
      BY <3>2, <3>6 DEF LockInv, RunLockInv
  <2>4. CASE Started(c) \/ LaunchFails(c) \/ Wait(c) \/ TimeOut(c) \/ Connect(c)
    BY <2>0, <2>4, StepKeepsLocks
       DEF Started, LaunchFails, Wait, TimeOut, Connect, Answered, Step, HasLock,
           HasRunLock
  <2>5. CASE Handshake(c) \/ Lost(c)
    BY <2>5 DEF Handshake, Lost, daemonVars, LockInv, RunLockInv
  <2>6. CASE Quit(c)
    BY <2>0, <2>6, ExitKeepsLocks DEF Quit
  <2> QED
    BY <1>2, <2>1, <2>2, <2>3, <2>4, <2>5, <2>6 DEF ClientNext
<1>3. ASSUME NEW s \in Server, ServerNext(s) PROVE LockInv' /\ RunLockInv'
  <2>0. s \in Process
    BY DEF Process
  <2>1. CASE BeginInit(s)
    BY <2>0, <2>1, LockKeepsLocks DEF BeginInit, InitLock, Step, HasLock, HasRunLock
  <2>2. CASE GetRunLock(s)
    BY <2>0, <2>2, RunLockKeepsLocks DEF GetRunLock, Step, HasLock, HasRunLock
  <2>3. CASE AlreadyRunning(s) \/ StartServer(s) \/ CreateInfo(s) \/ WriteInfo(s)
    BY <2>0, <2>3, StepKeepsLocks
       DEF AlreadyRunning, Locked, StartServer, CreateInfo, WriteInfo, Step, HasLock,
           HasRunLock
  <2>4. CASE Refuse(s) \/ Publish(s) \/ Abandon(s)
    BY <2>0, <2>4, UnlockKeepsLocks
       DEF Refuse, Publish, Abandon, Step, HasLock, HasRunLock
  <2>5. CASE InfoFails(s)
    BY <2>0, <2>5, UnlockRunKeepsLocks
       DEF InfoFails, CannotCreateInfo, Step, HasLock, HasRunLock
  <2>6. CASE Crash(s)
    BY <2>0, <2>6, ExitKeepsLocks DEF Crash
  <2> QED
    BY <1>3, <2>1, <2>2, <2>3, <2>4, <2>5, <2>6 DEF ServerNext, InInit, DaemonStep
<1> QED
  BY <1>1, <1>2, <1>3 DEF Next

-----------------------------------------------------------------------------
(* The info file.                                                            *)

\* While a client reads the info file nobody else has the lock; while a
\* server runs nobody else has the run lock.
LEMMA Exclusive ==
    ASSUME Inductive, NEW p \in Process, NEW q \in Process
    PROVE  /\ pc[p] \in HasLock /\ pc[q] \in HasLock => p = q
           /\ pc[p] \in HasRunLock /\ pc[q] \in HasRunLock => p = q
BY DEF Inductive, LockInv, RunLockInv

\* What a client that reads will read is the server that runs.
LEMMA HeldIsServing ==
    ASSUME Inductive, NEW c \in Client, pc[c] = "probe", holder.runlock # Nobody
    PROVE  /\ holder.runlock \in Server
           /\ pc[holder.runlock] = "serve"
           /\ info = holder.runlock
<1>0. c \in Process
  BY DEF Process
<1>1. PICK p \in Process : holder.runlock = p
  BY DEF Inductive, TypeOK, DaemonTypeOK
<1>2. pc[p] \in HasRunLock
  BY <1>1 DEF Inductive, RunLockInv
<1>3. p # c
  BY <1>2 DEF HasRunLock
<1>4. pc[p] \notin HasLock
  BY <1>0, <1>3, Exclusive DEF HasLock
<1>5. pc[p] = "serve"
  BY <1>2, <1>4 DEF HasLock, HasRunLock
<1>6. p \in Server
  BY <1>5 DEF Process, Inductive, TypeOK, DaemonTypeOK, ClientPc
<1> QED
  BY <1>1, <1>5, <1>6 DEF Inductive, InfoInv

LEMMA NextInfo == Inductive /\ [Next]_vars => InfoInv'
<1> SUFFICES ASSUME Inductive, [Next]_vars PROVE InfoInv'
  OBVIOUS
<1>0. pc \in [Process -> ServerPc \union ClientPc] /\ InfoInv
  BY DEF Inductive, TypeOK, DaemonTypeOK
<1>c. \A c \in Client : c \in Process /\ c \notin Server
  BY DaemonAssumption DEF Process
<1>s. \A s \in Server : s \in Process
  BY DEF Process
<1>1. CASE UNCHANGED vars
  BY <1>0, <1>1 DEF vars, daemonVars, InfoInv
<1>2. ASSUME NEW c \in Client, ClientNext(c) PROVE InfoInv'
  <2>1. CASE Launch(c)
    <3>1. PICK s \in Unborn : pc' = [pc EXCEPT ![c] = "idle", ![s] = "init"]
      BY <2>1 DEF Launch
    <3>2. s \in Process /\ info' = info
      BY <2>1, <3>1 DEF Unborn, Process, Launch, Answered
    <3>3. \A q \in Process : pc'[q] \in {"publish", "serve", "read"} => pc'[q] = pc[q]
      BY <1>0, <1>c, <3>1, <3>2
    <3> QED
      BY <1>0, <1>c, <1>s, <3>2, <3>3 DEF InfoInv
  <2>2. CASE ProbeHeld(c)
    <3>1. pc[c] = "probe" /\ pc' = [pc EXCEPT ![c] = "read"] /\ info' = info
      BY <2>2 DEF ProbeHeld, Step, Goto
    <3>2. info \in Server
      BY <2>2, <3>1, HeldIsServing DEF ProbeHeld, Locked
    <3> QED
      BY <1>0, <1>c, <1>s, <3>1, <3>2 DEF InfoInv
  <2>3. CASE ~Launch(c) /\ ~ProbeHeld(c)
    <3>1. info' = info
      BY <1>2, <2>3
         DEF ClientNext, Poll, AskLock, InGetInfo, GetInfoStep, ProbeFree, ReadInfo,
             Release, Leave, Started, LaunchFails, Wait, TimeOut, Answered, Connect,
             Handshake, Lost, Quit, Exit, daemonVars
    <3>2. \/ pc' = pc
          \/ \E l \in ClientPc \ {"read"} : Goto(c, l)
      BY <1>2, <2>3
         DEF ClientNext, Poll, AskLock, InGetInfo, GetInfoStep, ProbeFree, ReadInfo,
             Release, Leave, Started, LaunchFails, Wait, TimeOut, Answered, Connect,
             Handshake, Lost, Quit, Exit, daemonVars, Step, ClientPc
    <3>3. \A q \in Process : pc'[q] = pc[q] \/ (q = c /\ pc'[q] # "read")
      BY <1>0, <1>c, <3>2 DEF Goto
    <3> QED
      BY <1>0, <1>c, <1>s, <3>1, <3>3 DEF InfoInv
  <2> QED
    BY <2>1, <2>2, <2>3
<1>3. ASSUME NEW s \in Server, ServerNext(s) PROVE InfoInv'
  <2>1. CASE CreateInfo(s) \/ WriteInfo(s)
    <3>1. pc[s] \in HasLock /\ pc[s] \in HasRunLock /\ pc[s] \notin {"publish", "serve"}
      BY <2>1 DEF CreateInfo, WriteInfo, Step, HasLock, HasRunLock
    <3>2. \A c \in Client : pc[c] # "read"
      BY <1>c, <1>s, <3>1, Exclusive DEF HasLock
    <3>3. \A t \in Server : pc[t] \in {"publish", "serve"} => FALSE
      BY <1>s, <3>1, Exclusive DEF HasRunLock
    <3>4. \/ Goto(s, "write")
          \/ Goto(s, "publish") /\ info' = s
      BY <2>1 DEF CreateInfo, WriteInfo, Step
    <3>5. \A q \in Process : q # s => pc'[q] = pc[q]
      BY <1>0, <3>4 DEF Goto
    <3>6. pc'[s] = "write" \/ (pc'[s] = "publish" /\ info' = s)
      BY <1>0, <1>s, <3>4 DEF Goto
    <3> QED
      BY <1>c, <1>s, <3>2, <3>3, <3>5, <3>6 DEF InfoInv
  <2>2. CASE Publish(s)
    <3>1. pc[s] = "publish" /\ pc' = [pc EXCEPT ![s] = "serve"] /\ info' = info
      BY <2>2 DEF Publish, Step, Goto
    <3> QED
      BY <1>0, <1>c, <1>s, <3>1 DEF InfoInv
  <2>3. CASE ~CreateInfo(s) /\ ~WriteInfo(s) /\ ~Publish(s)
    <3>1. info' = info
      BY <1>3, <2>3
         DEF ServerNext, BeginInit, InitLock, InInit, DaemonStep, GetRunLock,
             AlreadyRunning, Refuse, StartServer, Abandon, InfoFails, CannotCreateInfo,
             Crash, Exit
    <3>2. \E l \in ServerPc \ {"publish", "serve"} : Goto(s, l)
      BY <1>3, <2>3
         DEF ServerNext, BeginInit, InitLock, InInit, DaemonStep, GetRunLock,
             AlreadyRunning, Refuse, StartServer, Abandon, InfoFails, CannotCreateInfo,
             Crash, Exit, Step, ServerPc
    <3>3. \A q \in Process :
            pc'[q] = pc[q] \/ (q = s /\ pc'[q] \notin {"publish", "serve"})
      BY <1>0, <1>s, <3>2 DEF Goto
    <3> QED
      BY <1>0, <1>c, <1>s, <3>1, <3>3 DEF InfoInv
  <2> QED
    BY <2>1, <2>2, <2>3
<1> QED
  BY <1>1, <1>2, <1>3 DEF Next

LEMMA NextInductive == Inductive /\ [Next]_vars => Inductive'
BY NextType, NextLocks, NextInfo DEF Inductive

\* The lock files, the info file and the program counters agree in every
\* state (Utils/Daemon.pm, Utils/LockFile.pm).
THEOREM InductiveHolds == Spec => []Inductive
<1>1. Init => Inductive
  BY InitInductive
<1>2. Inductive /\ [Next]_vars => Inductive'
  BY NextInductive
<1> QED
  BY <1>1, <1>2, PTL DEF Spec

\* Variables have their types.
THEOREM TypeCorrect == Spec => []TypeOK
<1>1. Inductive => TypeOK
  BY DEF Inductive
<1> QED
  BY <1>1, InductiveHolds, PTL

\* At most one server listens, however many clients launch one
\* (Bus/Server/Starter.pm, Utils/Daemon.pm:40-80).
THEOREM OneServerHolds == Spec => []OneServer
<1>1. Inductive => OneServer
  <2> SUFFICES ASSUME Inductive, NEW s \in Server, NEW t \in Server,
                      Listening(s), Listening(t)
               PROVE  s = t
    BY DEF OneServer
  <2>1. s \in Process /\ t \in Process
    BY DEF Process
  <2> QED
    BY <2>1, Exclusive DEF Listening, HasRunLock
<1> QED
  BY <1>1, InductiveHolds, PTL

-----------------------------------------------------------------------------
(* Starter implements Singleton.                                             *)

LEMMA InitRegistry == Init => Registry!Init
<1> SUFFICES ASSUME Init PROVE Registry!Init
  OBVIOUS
<1>1. Running = None
  BY DaemonAssumption DEF Init, DaemonInit, Running
<1>2. \A c \in Client : pc[c] = "idle" /\ answer[c] = None
  BY DaemonAssumption DEF Init, DaemonInit, Process
<1>3. Learnt = [c \in Client |-> None]
  BY <1>2 DEF Learnt
<1> QED
  BY <1>1, <1>3 DEF Registry!Init

\* A step that leaves the set of serving servers alone does not change who
\* runs.
LEMMA RunningStays ==
    ASSUME Inductive, Inductive',
           \A s \in Server : pc[s] = "serve" <=> pc'[s] = "serve"
    PROVE  Running' = Running
<1>0. \/ \E s \in Server : pc[s] = "serve"
      \/ \A s \in Server : pc[s] # "serve"
  OBVIOUS
<1>1. ASSUME NEW s \in Server, pc[s] = "serve" PROVE Running' = Running
  <2>1. s \in Process /\ pc'[s] = "serve"
    BY <1>1 DEF Process
  <2>2. holder.runlock = s /\ holder'.runlock = s
    BY <1>1, <2>1 DEF Inductive, RunLockInv, HasRunLock
  <2> QED
    BY <1>1, <2>1, <2>2 DEF Running
<1>2. ASSUME \A s \in Server : pc[s] # "serve" PROVE Running' = Running
  <2>1. Running = None
    BY <1>2 DEF Running
  <2>2. Running' = None
    BY <1>2 DEF Running
  <2> QED
    BY <2>1, <2>2
<1> QED
  BY <1>0, <1>1, <1>2

\* What the clients know changes with their own steps only, as long as the
\* info file stays as it is while one of them is about to read it.
LEMMA LearntStays ==
    ASSUME Inductive, UNCHANGED answer,
           \A d \in Client : /\ pc'[d] = "gone" <=> pc[d] = "gone"
                             /\ pc'[d] = "read" <=> pc[d] = "read"
                             /\ pc[d] = "read" => info' = info
    PROVE  Learnt' = Learnt
<1>1. \A d \in Client :
        (CASE pc'[d] = "gone" -> None [] pc'[d] = "read" -> info'
           [] OTHER -> answer'[d])
        = (CASE pc[d] = "gone" -> None [] pc[d] = "read" -> info
             [] OTHER -> answer[d])
  OBVIOUS
<1> QED
  BY <1>1 DEF Learnt

LEMMA LearntChanges ==
    ASSUME NEW c \in Client, NEW v,
           \A d \in Client \ {c} : /\ answer'[d] = answer[d] /\ pc'[d] = pc[d]
                                   /\ pc[d] = "read" => info' = info,
           v = CASE pc'[c] = "gone" -> None [] pc'[c] = "read" -> info'
                 [] OTHER -> answer'[c]
    PROVE  Learnt' = [Learnt EXCEPT ![c] = v]
<1>1. \A d \in Client : Learnt'[d] = IF d = c THEN v ELSE Learnt[d]
  BY DEF Learnt
<1>2. Learnt' = [d \in Client |-> Learnt'[d]] /\ DOMAIN Learnt = Client
  BY DEF Learnt
<1> QED
  BY <1>1, <1>2

LEMMA ServerImplements ==
    ASSUME Inductive, Inductive', NEW s \in Server, ServerNext(s)
    PROVE  Registry!Next \/ UNCHANGED <<Running, Learnt>>
<1>0. pc \in [Process -> ServerPc \union ClientPc] /\ s \in Process
  BY DEF Inductive, TypeOK, DaemonTypeOK, Process
<1>c. \A c \in Client : c \in Process /\ c # s
  BY DaemonAssumption DEF Process
<1>1. \A q \in Process \ {s} : pc'[q] = pc[q]
  BY <1>0 DEF ServerNext, BeginInit, InitLock, InInit, DaemonStep, GetRunLock,
       AlreadyRunning, Refuse, StartServer, CreateInfo, WriteInfo, Publish, Abandon,
       InfoFails, CannotCreateInfo, Crash, Exit, Step, Goto
<1>2. UNCHANGED answer
  BY DEF ServerNext, BeginInit, InitLock, InInit, DaemonStep, GetRunLock,
       AlreadyRunning, Refuse, StartServer, CreateInfo, WriteInfo, Publish, Abandon,
       InfoFails, CannotCreateInfo, Crash, Exit
<1>3. \A d \in Client : pc[d] = "read" => info' = info
  <2>1. CASE CreateInfo(s) \/ WriteInfo(s)
    <3>1. pc[s] \in HasLock
      BY <2>1 DEF CreateInfo, WriteInfo, Step, HasLock
    <3> QED
      BY <1>0, <1>c, <3>1, Exclusive DEF HasLock
  <2>2. CASE ~CreateInfo(s) /\ ~WriteInfo(s)
    BY <2>2 DEF ServerNext, BeginInit, InitLock, InInit, DaemonStep, GetRunLock,
         AlreadyRunning, Refuse, StartServer, Publish, Abandon, InfoFails,
         CannotCreateInfo, Crash, Exit
  <2> QED
    BY <2>1, <2>2
<1>4. Learnt' = Learnt
  BY <1>1, <1>2, <1>3, <1>c, LearntStays
<1>5. CASE Publish(s)
  <2>1. pc[s] = "publish" /\ pc'[s] = "serve"
    BY <1>0, <1>5 DEF Publish, Step, Goto
  <2>2. \A t \in Server : pc[t] # "serve"
    BY <1>0, <2>1, Exclusive DEF HasRunLock, Process
  <2>3. Running = None
    BY <2>2 DEF Running
  <2>4. holder'.runlock = s
    BY <1>0, <2>1 DEF Inductive, RunLockInv, HasRunLock
  <2>5. Running' = s
    BY <2>1, <2>4 DEF Running
  <2>6. Registry!Start(s)
    BY <1>4, <2>3, <2>5 DEF Registry!Start
  <2> QED
    BY <2>6 DEF Registry!Next
<1>6. CASE Crash(s) /\ pc[s] = "serve"
  <2>1. pc'[s] = "gone"
    BY <1>0, <1>6 DEF Crash, Exit, Goto
  <2>2. \A t \in Server : pc'[t] # "serve"
    <3>1. \A t \in Server : t \in Process /\ (pc[t] = "serve" => t = s)
      BY <1>0, <1>6, Exclusive DEF HasRunLock, Process
    <3> QED
      BY <1>1, <2>1, <3>1
  <2>3. Running' = None
    BY <2>2 DEF Running
  <2>4. Registry!End
    BY <1>4, <2>3 DEF Registry!End
  <2> QED
    BY <2>4 DEF Registry!Next
<1>7. CASE ~Publish(s) /\ ~(Crash(s) /\ pc[s] = "serve")
  <2>1. pc[s] # "serve" /\ pc'[s] # "serve"
    BY <1>0, <1>7 DEF ServerNext, BeginInit, InitLock, InInit, DaemonStep, GetRunLock,
         AlreadyRunning, Refuse, StartServer, CreateInfo, WriteInfo, Abandon,
         InfoFails, CannotCreateInfo, Crash, Exit, Step, Goto
  <2>2. \A t \in Server : pc[t] = "serve" <=> pc'[t] = "serve"
    BY <1>1, <2>1 DEF Process
  <2> QED
    BY <1>4, <2>2, RunningStays
<1> QED
  BY <1>5, <1>6, <1>7

LEMMA ClientImplements ==
    ASSUME Inductive, Inductive', NEW c \in Client, ClientNext(c)
    PROVE  Registry!Next \/ UNCHANGED <<Running, Learnt>>
<1>0. pc \in [Process -> ServerPc \union ClientPc] /\ c \in Process /\ c \notin Server
  BY DaemonAssumption DEF Inductive, TypeOK, DaemonTypeOK, Process
<1>a. answer \in [Client -> Server \union {None, Blank}]
  BY DEF Inductive, TypeOK, DaemonTypeOK
<1>c. \A d \in Client : d \in Process
  BY DEF Process
<1>1. CASE Launch(c)
  <2>1. PICK s \in Unborn : pc' = [pc EXCEPT ![c] = "idle", ![s] = "init"]
    BY <1>1 DEF Launch
  <2>2. s \in Process /\ s \in Server /\ pc[s] = "unborn" /\ pc[c] = "answered"
    BY <1>1, <2>1 DEF Unborn, Process, Launch, Answered
  <2>3. \A q \in Process :
          pc'[q] = IF q = s THEN "init" ELSE IF q = c THEN "idle" ELSE pc[q]
    BY <1>0, <2>1, <2>2
  <2>4. \A t \in Server : pc[t] = "serve" <=> pc'[t] = "serve"
    BY <1>0, <2>2, <2>3 DEF Process
  <2>5. \A d \in Client : d # s
    BY <2>2, DaemonAssumption
  <2>6. Learnt' = Learnt
    BY <1>1, <1>c, <2>2, <2>3, <2>5, LearntStays DEF Launch, Answered
  <2> QED
    BY <2>4, <2>6, RunningStays
<1>2. ASSUME ~Launch(c)
      PROVE  /\ \A q \in Process \ {c} : pc'[q] = pc[q]
             /\ Running' = Running
             /\ info' = info
  <2>1. \A q \in Process \ {c} : pc'[q] = pc[q]
    BY <1>0, <1>2 DEF ClientNext, Poll, AskLock, InGetInfo, GetInfoStep, ProbeFree,
         ProbeHeld, ReadInfo, Release, Leave, Started, LaunchFails, Wait, TimeOut,
         Answered, Connect, Handshake, Lost, Quit, Exit, daemonVars, Step, Goto
  <2>2. \A t \in Server : pc[t] = "serve" <=> pc'[t] = "serve"
    BY <1>0, <2>1 DEF Process
  <2>3. info' = info
    BY <1>2 DEF ClientNext, Poll, AskLock, InGetInfo, GetInfoStep, ProbeFree,
         ProbeHeld, ReadInfo, Release, Leave, Started, LaunchFails, Wait, TimeOut,
         Answered, Connect, Handshake, Lost, Quit, Exit, daemonVars
  <2> QED
    BY <2>1, <2>2, <2>3, RunningStays
<1>3. CASE ProbeHeld(c)
  <2>1. pc[c] = "probe" /\ pc'[c] = "read" /\ holder.runlock # Nobody
        /\ answer' = answer /\ ~Launch(c)
    BY <1>0, <1>3 DEF ProbeHeld, Locked, Step, Goto, Launch, Answered
  <2>2. info = Running
    BY <2>1, HeldIsServing DEF Running
  <2>3. Learnt' = [Learnt EXCEPT ![c] = Running]
    BY <1>2, <1>c, <2>1, <2>2, LearntChanges
  <2>4. Registry!Ask(c)
    BY <1>2, <2>1, <2>3 DEF Registry!Ask
  <2> QED
    BY <2>4 DEF Registry!Next
<1>4. CASE Release(c)
  <2>1. pc[c] = "release" /\ pc'[c] = "leave" /\ answer' = [answer EXCEPT ![c] = None]
        /\ ~Launch(c)
    BY <1>0, <1>4 DEF Release, Step, Goto, Launch, Answered
  <2>2. holder.runlock = c
    BY <1>0, <2>1 DEF Inductive, RunLockInv, HasRunLock
  <2>3. Running = None
    BY <1>0, <2>2 DEF Running
  <2>4. answer'[c] = None /\ \A d \in Client \ {c} : answer'[d] = answer[d]
    BY <1>a, <2>1
  <2>5. Learnt' = [Learnt EXCEPT ![c] = Running]
    BY <1>2, <1>c, <2>1, <2>3, <2>4, LearntChanges
  <2>6. Registry!Ask(c)
    BY <1>2, <2>1, <2>5 DEF Registry!Ask
  <2> QED
    BY <2>6 DEF Registry!Next
<1>5. CASE ReadInfo(c)
  <2>1. pc[c] = "read" /\ pc'[c] = "leave" /\ ~Launch(c)
    BY <1>0, <1>5 DEF ReadInfo, Step, Goto, Launch, Answered
  <2>2. info # None
    BY <2>1, DaemonAssumption DEF Inductive, InfoInv
  <2>3. answer' = [answer EXCEPT ![c] = info]
    BY <1>5, <2>2 DEF ReadInfo
  <2>4. answer'[c] = info /\ \A d \in Client \ {c} : answer'[d] = answer[d]
    BY <1>a, <2>3
  <2>5. \A d \in Client : Learnt'[d] = Learnt[d]
    BY <1>2, <1>c, <2>1, <2>4 DEF Learnt
  <2>6. Learnt' = Learnt
    BY <2>5 DEF Learnt
  <2> QED
    BY <1>2, <2>1, <2>6
<1>6. CASE Quit(c)
  <2>1. pc'[c] = "gone" /\ answer' = answer /\ pc[c] # "gone"
    BY <1>0, <1>6 DEF Quit, Exit, Goto
  <2>2. CASE Launch(c)
    BY <1>1, <2>2
  <2>3. CASE ~Launch(c)
    <3>1. Learnt' = [Learnt EXCEPT ![c] = None]
      BY <1>2, <1>c, <2>1, <2>3, LearntChanges
    <3>2. Registry!Forget(c)
      BY <1>2, <2>3, <3>1 DEF Registry!Forget
    <3> QED
      BY <3>2 DEF Registry!Next
  <2> QED
    BY <2>2, <2>3
<1>7. CASE Poll(c) \/ ProbeFree(c) \/ Leave(c) \/ Started(c) \/ LaunchFails(c)
           \/ Wait(c) \/ TimeOut(c) \/ Connect(c) \/ Handshake(c)
           \/ Lost(c)
  <2>1. CASE Launch(c)
    BY <1>1, <2>1
  <2>2. CASE ~Launch(c)
    <3>1. /\ answer' = answer
          /\ pc'[c] = pc[c] \/ {pc[c], pc'[c]} \intersect {"gone", "read"} = {}
      BY <1>0, <1>7 DEF Poll, AskLock, ProbeFree, Leave, Started, LaunchFails, Wait,
           TimeOut, Answered, Connect, Handshake, Lost, daemonVars, Step, Goto
    <3>2. Learnt' = Learnt
      BY <1>2, <1>c, <2>2, <3>1, LearntStays
    <3> QED
      BY <1>2, <2>2, <3>2
  <2> QED
    BY <2>1, <2>2
<1>8. CASE InGetInfo(c)
  <2>1. GetInfoStep(c)
    BY <1>8 DEF InGetInfo
  <2> QED
    BY <2>1, <1>3, <1>4, <1>5, <1>7 DEF GetInfoStep
<1> QED
  BY <1>1, <1>6, <1>7, <1>8 DEF ClientNext

\* Two lock files and a file make a registry of one instance: every answer
\* of getInfo() was true at one moment of the call, whatever processes end
\* where (Utils/Daemon.pm).
THEOREM RegistryHolds == Spec => RegistrySpec
<1>1. Init => Registry!Init
  BY InitRegistry
<1>2. Inductive /\ Inductive' /\ [Next]_vars =>
        [Registry!Next]_<<Running, Learnt>>
  <2> SUFFICES ASSUME Inductive, Inductive', [Next]_vars
               PROVE  Registry!Next \/ UNCHANGED <<Running, Learnt>>
    OBVIOUS
  <2>1. CASE UNCHANGED vars
    BY <2>1 DEF vars, daemonVars, Running, Learnt
  <2>2. CASE Next
    BY <2>2, ClientImplements, ServerImplements DEF Next
  <2> QED
    BY <2>1, <2>2
<1>3. Spec => []Inductive
  BY InductiveHolds
<1> QED
  BY <1>1, <1>2, <1>3, PTL DEF Spec, RegistrySpec, Registry!Spec

=============================================================================
