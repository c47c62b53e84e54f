---------------------------- MODULE WithSubtask ----------------------------
(***************************************************************************)
(* Task/WithSubtask.pm under Task/ErrorReport.pm, Task/UseSkill.pm and     *)
(* Task/Chained.pm: four task objects, each the subtask of the one before. *)
(*                                                                         *)
(*   report -> skill -> chain -> stand                                     *)
(*                                                                         *)
(* o stands for the objects:                                               *)
(*   status, mutexes   of each task                                        *)
(*   sub               the wrappers whose ST_subtask is set                *)
(*   listens           the wrappers that hear their subtask's              *)
(*                     onMutexesChanged                                    *)
(*   saved             the wrappers' ST_oldmutexes                         *)
(* Every wrapper has autostop, autofail and manageMutexes on.              *)
(***************************************************************************)
EXTENDS Naturals

Task == {"report", "skill", "chain", "stand"}
Wrapper == {"report", "skill", "chain"}
Mutex == {"movement", "skill"}
Status == {"INACTIVE", "RUNNING", "INTERRUPTED", "STOPPED", "DONE"}

Objects == [status  : [Task -> Status],
            mutexes : [Task -> SUBSET Mutex],
            sub     : SUBSET Wrapper,
            listens : SUBSET Wrapper,
            saved   : [Wrapper -> SUBSET Mutex]]

Level == [report |-> 4, skill |-> 3, chain |-> 2, stand |-> 1]
Subtask == [report |-> "skill", skill |-> "chain", chain |-> "stand"]

\* The wrappers above t, up to w.
Between == [t \in Task |-> [w \in Task |->
    {v \in Wrapper : Level[t] < Level[v] /\ Level[v] <= Level[w]}]]

\* Whose list changes along with t's.
Followers(listens, t) ==
    {w \in Wrapper : Level[t] < Level[w] /\ Between[t][w] \subseteq listens}

\* t, its subtask, the subtask's subtask, ...: whom a call to t is passed on
\* to.
Reached(o, t) ==
    {t} \union {u \in Task : Level[u] < Level[t] /\ Between[u][t] \subseteq o.sub}

SetMutexes(o, t, M) ==
    [o EXCEPT !.mutexes = [u \in Task |->
        IF u = t \/ u \in Followers(o.listens, t) THEN M ELSE @[u]]]

SetStatus(o, T, s) ==
    [o EXCEPT !.status = [t \in Task |-> IF t \in T THEN s ELSE @[t]]]

\* setSubtask() after the subtask's activate(): from now on the wrapper's
\* list is the subtask's.
Follow(o, w) ==
    SetMutexes([o EXCEPT !.sub = @ \union {w},
                         !.listens = @ \union {w},
                         !.saved[w] = o.mutexes[w]],
               w, o.mutexes[Subtask[w]])

\* _restoreMutexes(), and the subtask is gone.  A mutant forgets to restore.
DropOnly(o, w) ==
    [o EXCEPT !.sub = @ \ {w}, !.listens = @ \ {w}]

Drop(o, w) == SetMutexes(DropOnly(o, w), w, o.saved[w])

\* iterate() of a wrapper whose subtask is DONE, with an error or without.
Complete(o, w) == SetStatus(Drop(o, w), {w}, "DONE")

\* A mutant does not pass the call on.
InterruptAlone(o, t) == SetStatus(o, {t}, "INTERRUPTED")

Interrupt(o, t) == SetStatus(o, Reached(o, t), "INTERRUPTED")

Resume(o, t) == SetStatus(o, Reached(o, t), "RUNNING")

\* stop() drops the subtasks as they are; a mutant restores the list first.
StopRestoring(o, t) ==
    [SetStatus(Drop(o, t), Reached(o, t), "STOPPED") EXCEPT !.sub = {}]

Stop(o, t) ==
    [SetStatus(o, Reached(o, t), "STOPPED") EXCEPT !.sub = @ \ Reached(o, t)]
============================================================================
