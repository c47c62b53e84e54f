---------------------------- MODULE TaskManager -----------------------------
(***************************************************************************)
(* TaskManager.pm with the status protocol of Task.pm: a cooperative       *)
(* scheduler that decides which tasks may run, given the mutexes each of   *)
(* them wants and its priority.                                            *)
(*                                                                         *)
(* iterate() is one call, but it runs code of the tasks (activate, resume, *)
(* interrupt, iterate), which calls back into the manager.  It is modelled *)
(* one loop iteration at a time; pc names the loop it is in, and is "idle" *)
(* between two calls, when commands may add and stop tasks.                *)
(*                                                                         *)
(* Assertions do not stop the model: the code continues past them when     *)
(* built without DEBUG.  They are stated as invariants instead.            *)
(***************************************************************************)
EXTENDS Integers, Sequences, FiniteSets, IndexedSet

CONSTANTS
    Task, Mutex,
    NoTask,        \* the owner of a mutex that is not in the hash
    Priority,      \* Priority[t]: never changes during a task's life
    Name,          \* Name[t]: several tasks may share one
    MutexLists,    \* MutexLists[t]: the lists t may have, each as a set
    ChangePoints,  \* where tasks change their list: see ChangePoint
    MaxChanges     \* bound: list changes by tasks that were added

ChangePoint == {"activate", "iterate", "afterStop"}

ASSUME TaskAssumption ==
    /\ NoTask \notin Task
    /\ Priority \in [Task -> Int]
    /\ MutexLists \in [Task -> SUBSET SUBSET Mutex]
    /\ DOMAIN Name = Task
    /\ ChangePoints \subseteq ChangePoint
    /\ MaxChanges \in Nat

VARIABLES
    status, mutexes,                   \* of each task: T_status, T_mutexes
    active, inactive, gray,            \* activeTasks, inactiveTasks, grayTasks
    activeMutexes, tasksByName, shouldReschedule,
    pc, i,                             \* where iterate() is; i counts from 1
    oldActive, oldInactive,            \* reschedule()'s copies
    thief, pending,                    \* the task stealing mutexes, those to take
    changes,                           \* list changes so far
    ran                                \* history: tasks run in this iterate()

objects == <<status, mutexes>>
books   == <<active, inactive, gray, activeMutexes, tasksByName>>
locals  == <<oldActive, oldInactive, thief, pending>>
vars    == <<objects, books, shouldReschedule, pc, i, locals, changes, ran>>

Status   == {"INACTIVE", "RUNNING", "INTERRUPTED", "STOPPED", "DONE"}
Finished == {"STOPPED", "DONE"}
Loop     == {"gray", "activate", "steal", "resume", "interrupt", "run"}
Names    == {Name[t] : t \in Task}
Managed  == Items(active) \cup Items(inactive)

Init ==
    /\ status = [t \in Task |-> "INACTIVE"]
    /\ mutexes = [t \in Task |-> {}]
    /\ active = EmptySet /\ inactive = EmptySet /\ gray = EmptySet
    /\ activeMutexes = [m \in Mutex |-> NoTask]
    /\ tasksByName = [n \in Names |-> 0]
    /\ shouldReschedule = FALSE
    /\ pc = "idle" /\ i = 1
    /\ oldActive = EmptySet /\ oldInactive = EmptySet
    /\ thief = NoTask /\ pending = {}
    /\ changes = 0
    /\ ran = {}

-----------------------------------------------------------------------------
(* The manager's tables.                                                    *)

Conflicts(t) == {m \in mutexes[t] : activeMutexes[m] # NoTask}

\* Mutant: a tie steals too.
HigherOrEqual(t, ms) == \A m \in ms : Priority[t] >= Priority[activeMutexes[m]]

HigherPriority(t, ms) == \A m \in ms : Priority[t] > Priority[activeMutexes[m]]

Granted(t, ms)  == [m \in Mutex |-> IF m \in ms THEN t ELSE activeMutexes[m]]
\* Mutant: a deactivated task keeps its locks.
ReleasedNone(t, ms) == activeMutexes
Released(t, ms) == [m \in Mutex |-> IF m \in ms /\ activeMutexes[m] = t
                                    THEN NoTask ELSE activeMutexes[m]]

\* Bound: a count that went negative (line 466 asserts it does not) stays at -1.
LowestCount == -1

\* Mutant: a task that waits again is not counted any more either.
DeactivateUncounted(t, st) ==
    /\ tasksByName' = [tasksByName EXCEPT ![Name[t]] =
                         IF @ > LowestCount THEN @ - 1 ELSE @]
    /\ inactive' = IF st \in Finished THEN inactive ELSE SetAdd(inactive, t)
    /\ active' = SetRemove(active, t)
    /\ gray' = SetRemove(gray, t)

\* deactivateTask, but for the locks, which the caller gives up (Released).  A
\* finished task is no longer counted; any other one waits again.
Deactivate(t, st) ==
    /\ IF st \in Finished
       THEN /\ tasksByName' = [tasksByName EXCEPT ![Name[t]] =
                                IF @ > LowestCount THEN @ - 1 ELSE @]
            /\ UNCHANGED inactive
       ELSE /\ inactive' = SetAdd(inactive, t)
            /\ UNCHANGED tasksByName
    /\ active' = SetRemove(active, t)
    /\ gray' = SetRemove(gray, t)

\* Mutants: the listener forgets the gray mark, the locks, the request.
NoGrayMark(t) ==
    activeMutexes' = Released(t, Mutex) /\ shouldReschedule' = TRUE /\ UNCHANGED gray
NoRelease(t) ==
    gray' = SetAdd(gray, t) /\ shouldReschedule' = TRUE /\ UNCHANGED activeMutexes
NoRequest(t) ==
    /\ gray' = SetAdd(gray, t) /\ activeMutexes' = Released(t, Mutex)
    /\ UNCHANGED shouldReschedule

\* The manager's listener on a task's onMutexesChanged event, while it runs: the
\* task must be scheduled anew and holds nothing until then.
OnMutexesChanged(t) ==
    /\ gray' = SetAdd(gray, t)
    /\ activeMutexes' = Released(t, Mutex)
    /\ shouldReschedule' = TRUE

\* A task sets its list to ms, maybe the one it has: a change the bound allows.
ChangeList(t, ms) ==
    /\ changes < MaxChanges
    /\ ms \in MutexLists[t]
    /\ mutexes' = [mutexes EXCEPT ![t] = ms]
    /\ changes' = changes + 1

-----------------------------------------------------------------------------
(* Between two calls of iterate().                                          *)

Add(t) ==
    /\ pc = "idle"
    /\ status[t] = "INACTIVE" /\ t \notin Managed
    /\ \E ms \in MutexLists[t] : mutexes' = [mutexes EXCEPT ![t] = ms]
    /\ inactive' = SetAdd(inactive, t)
    /\ tasksByName' = [tasksByName EXCEPT ![Name[t]] = @ + 1]
    /\ shouldReschedule' = TRUE
    /\ UNCHANGED <<status, active, gray, activeMutexes, pc, i, locals, changes, ran>>

Stoppable(t) == t \in Managed /\ status[t] \in {"INACTIVE", "RUNNING", "INTERRUPTED"}

\* Mutant: nobody listens to onStop.
NoOnStop(t) == UNCHANGED shouldReschedule

\* The listener on onStop: an active task is found by iterate() itself.
OnStop(t) == shouldReschedule' = (shouldReschedule \/ SetHas(inactive, t))

\* Somebody stops a task, and it stops at once.  (A task that only takes note of
\* the request changes nothing here: it stops later, from its iterate().)
Stop(t) ==
    /\ pc = "idle" /\ Stoppable(t)
    /\ status' = [status EXCEPT ![t] = "STOPPED"]
    /\ OnStop(t)
    /\ UNCHANGED <<mutexes, books, pc, i, locals, changes, ran>>

\* stopAll: the tasks of S stop at once, the others will later.
StopAll(S) ==
    /\ pc = "idle" /\ \A t \in S : Stoppable(t)
    /\ status' = [t \in Task |-> IF t \in S THEN "STOPPED" ELSE status[t]]
    /\ shouldReschedule' =
         (shouldReschedule \/ \E t \in Managed : status'[t] = "STOPPED")
    /\ UNCHANGED <<mutexes, books, pc, i, locals, changes, ran>>

-----------------------------------------------------------------------------
(* reschedule().                                                            *)

\* Mutants: the copies are not taken; the loop starts one too low.
BeginNoCopy ==
    /\ pc = "idle" /\ i' = 1 /\ ran' = {}
    /\ pc' = IF shouldReschedule THEN "gray" ELSE "run"
    /\ UNCHANGED <<objects, books, shouldReschedule, locals, changes>>
BeginAtZero ==
    /\ pc = "idle" /\ i' = 0 /\ ran' = {}
    /\ pc' = IF shouldReschedule THEN "gray" ELSE "run"
    /\ UNCHANGED <<objects, books, shouldReschedule, locals, changes>>

Begin ==
    /\ pc = "idle"
    /\ i' = 1 /\ ran' = {}
    /\ IF shouldReschedule
       THEN pc' = "gray" /\ oldActive' = active /\ oldInactive' = inactive
       ELSE pc' = "run" /\ UNCHANGED <<oldActive, oldInactive>>
    /\ UNCHANGED <<objects, books, shouldReschedule, thief, pending, changes>>

\* A task whose list changed gets the locks of the new list, or is suspended.
GrayStep ==
    /\ pc = "gray" /\ gray.items # <<>>
    /\ LET t == gray.items[1]
       IN \/ /\ Conflicts(t) # {}
             /\ Deactivate(t, status[t])
             /\ activeMutexes' = Released(t, mutexes[t])
          \/ /\ Conflicts(t) = {}
             /\ activeMutexes' = Granted(t, mutexes[t])
             /\ gray' = ShiftArray(gray)
             /\ UNCHANGED <<active, inactive, tasksByName>>
    /\ UNCHANGED <<objects, shouldReschedule, pc, i, locals, changes, ran>>

GrayDone ==
    /\ pc = "gray" /\ gray.items = <<>>
    /\ pc' = "activate" /\ i' = 1
    /\ UNCHANGED <<objects, books, shouldReschedule, locals, changes, ran>>

Candidate == inactive.items[i]

Considering(t) == pc = "activate" /\ i <= Len(inactive.items) /\ t = Candidate

\* Mutant: a chosen task also stays in the list of the waiting.
ChosenKept(t) == active' = SetAdd(active, t) /\ UNCHANGED inactive

\* Leaves the list: the next candidate moves to index i.
Chosen(t) ==
    /\ active' = SetAdd(active, t)
    /\ inactive' = SetRemove(inactive, t)

ThrowAway(t) ==
    /\ Considering(t) /\ status[t] = "STOPPED"
    /\ inactive' = SetRemove(inactive, t)
    /\ UNCHANGED <<objects, active, gray, activeMutexes, tasksByName,
                   shouldReschedule, pc, i, locals, changes, ran>>

ChooseFree(t) ==
    /\ Considering(t) /\ status[t] # "STOPPED"
    /\ Conflicts(t) = {}
    /\ Chosen(t)
    /\ activeMutexes' = Granted(t, mutexes[t])
    /\ UNCHANGED <<objects, gray, tasksByName,
                   shouldReschedule, pc, i, locals, changes, ran>>

ChooseSteal(t) ==
    /\ Considering(t) /\ status[t] # "STOPPED"
    /\ Conflicts(t) # {} /\ HigherPriority(t, Conflicts(t))
    /\ Chosen(t)
    /\ thief' = t /\ pending' = mutexes[t]
    /\ pc' = "steal"
    /\ UNCHANGED <<objects, gray, activeMutexes, tasksByName,
                   shouldReschedule, i, oldActive, oldInactive, changes, ran>>

\* One mutex of the stealing task (the lists are sets here: any order).  Its
\* owner loses all its locks, not only this one.
Steal(m) ==
    /\ pc = "steal" /\ m \in pending
    /\ LET owner == activeMutexes[m]
       IN \/ /\ owner = NoTask
             /\ activeMutexes' = Granted(thief, {m})
             /\ UNCHANGED <<active, inactive, gray, tasksByName>>
          \/ /\ owner # NoTask
             /\ Deactivate(owner, status[owner])
             /\ activeMutexes' = [Released(owner, mutexes[owner]) EXCEPT ![m] = thief]
    /\ pending' = pending \ {m}
    /\ IF pending = {m} THEN pc' = "activate" /\ thief' = NoTask
                        ELSE UNCHANGED <<pc, thief>>
    /\ UNCHANGED <<objects, shouldReschedule, i, oldActive, oldInactive, changes, ran>>

Pass(t) ==
    /\ Considering(t) /\ status[t] # "STOPPED"
    /\ Conflicts(t) # {} /\ ~HigherPriority(t, Conflicts(t))
    /\ i' = i + 1
    /\ UNCHANGED <<objects, books, shouldReschedule, pc, locals, changes, ran>>

ActivateDone ==
    /\ pc = "activate" /\ i > Len(inactive.items)
    /\ pc' = "resume" /\ i' = 1
    /\ UNCHANGED <<objects, books, shouldReschedule, locals, changes, ran>>

Resuming(t) == pc = "resume" /\ i <= Len(active.items) /\ t = active.items[i]

\* A newly activated task starts or goes on.  Starting may set up a subtask and
\* take over its list (WithSubtask::setSubtask, Chained::activate).
Resume(t) ==
    /\ Resuming(t) /\ ~SetHas(oldActive, t)
    /\ status' = [status EXCEPT ![t] = IF @ \in {"INACTIVE", "INTERRUPTED"}
                                       THEN "RUNNING" ELSE @]
    /\ \/ UNCHANGED <<mutexes, gray, activeMutexes, shouldReschedule, changes>>
       \/ /\ status[t] = "INACTIVE" /\ "activate" \in ChangePoints
          /\ \E ms \in MutexLists[t] : ChangeList(t, ms)
          /\ OnMutexesChanged(t)
    /\ i' = i + 1
    /\ UNCHANGED <<active, inactive, tasksByName, pc, locals, ran>>

ResumeOld(t) ==
    /\ Resuming(t) /\ SetHas(oldActive, t)
    /\ i' = i + 1
    /\ UNCHANGED <<objects, books, shouldReschedule, pc, locals, changes, ran>>

ResumeDone ==
    /\ pc = "resume" /\ i > Len(active.items)
    /\ pc' = "interrupt" /\ i' = 1
    /\ UNCHANGED <<objects, books, shouldReschedule, locals, changes, ran>>

Interrupting(t) == pc = "interrupt" /\ i <= Len(inactive.items) /\ t = inactive.items[i]

\* Mutant: a suspended task is not told.
InterruptNot(t) ==
    /\ Interrupting(t)
    /\ i' = i + 1
    /\ UNCHANGED <<objects, books, shouldReschedule, pc, locals, changes, ran>>

Interrupt(t) ==
    /\ Interrupting(t)
    /\ status' = IF SetHas(oldInactive, t) THEN status
                 ELSE [status EXCEPT ![t] = "INTERRUPTED"]
    /\ i' = i + 1
    /\ UNCHANGED <<mutexes, books, shouldReschedule, pc, locals, changes, ran>>

Rescheduled ==
    /\ pc = "interrupt" /\ i > Len(inactive.items)
    /\ shouldReschedule' = FALSE
    /\ pc' = "run" /\ i' = 1
    /\ oldActive' = EmptySet /\ oldInactive' = EmptySet
    /\ UNCHANGED <<objects, books, thief, pending, changes, ran>>

-----------------------------------------------------------------------------
(* The rest of iterate(): every active task runs once.                      *)

Running(t) == pc = "run" /\ i <= Len(active.items) /\ t = active.items[i]

\* The task is not finished yet.
RunOn(t) ==
    /\ Running(t) /\ status[t] # "STOPPED"
    /\ \/ UNCHANGED <<mutexes, gray, activeMutexes, shouldReschedule, changes>>
       \/ /\ "iterate" \in ChangePoints
          /\ \E ms \in MutexLists[t] : ChangeList(t, ms)
          /\ OnMutexesChanged(t)
    /\ i' = i + 1
    /\ ran' = ran \cup {t}
    /\ UNCHANGED <<status, active, inactive, tasksByName, pc, locals>>

\* Mutant: the index goes on although the array got shorter.
FinishSkipping(t, st, ms) ==
    /\ status' = [status EXCEPT ![t] = st]
    /\ Deactivate(t, st)
    /\ activeMutexes' = Released(t, ms)
    /\ shouldReschedule' = TRUE
    /\ i' = i + 1
    /\ UNCHANGED <<pc, locals>>

\* The manager lets go of a task that finished with status st and list ms: the
\* next task moves to index i.
Finish(t, st, ms) ==
    /\ status' = [status EXCEPT ![t] = st]
    /\ Deactivate(t, st)
    /\ activeMutexes' = Released(t, ms)
    /\ shouldReschedule' = TRUE
    /\ UNCHANGED <<pc, i, locals>>

\* The task has finished, just now or because somebody stopped it.  If it also
\* changed its list before it finished, all that is left of the change is the list
\* of a task that is gone.
RunLast(t) ==
    /\ Running(t)
    /\ IF status[t] = "STOPPED"
       THEN Finish(t, "STOPPED", mutexes[t]) /\ ran' = ran
       ELSE /\ \E st \in Finished : Finish(t, st, mutexes[t])
            /\ ran' = ran \cup {t}
    /\ UNCHANGED <<mutexes, changes>>

\* A task that manages its subtask's mutexes puts its own list back after it has
\* become STOPPED (WithSubtask::iterate): the listener leaves the locks alone.
RunLastRestoring(t) ==
    /\ Running(t) /\ status[t] # "STOPPED"
    /\ "afterStop" \in ChangePoints
    /\ \E ms \in MutexLists[t] : ChangeList(t, ms) /\ Finish(t, "STOPPED", ms)
    /\ ran' = ran \cup {t}

IterateDone ==
    /\ pc = "run" /\ i > Len(active.items)
    /\ pc' = "idle" /\ i' = 1
    /\ UNCHANGED <<objects, books, shouldReschedule, locals, changes, ran>>

-----------------------------------------------------------------------------

Commands == \/ \E t \in Task : Add(t) \/ Stop(t)
            \/ \E S \in SUBSET Managed : StopAll(S)

Reschedule ==
    \/ GrayStep \/ GrayDone
    \/ \E t \in Task : ThrowAway(t) \/ ChooseFree(t) \/ ChooseSteal(t) \/ Pass(t)
    \/ \E m \in Mutex : Steal(m)
    \/ ActivateDone
    \/ \E t \in Task : Resume(t) \/ ResumeOld(t) \/ Interrupt(t)
    \/ ResumeDone \/ Rescheduled

Run == \/ \E t \in Task : RunOn(t) \/ RunLast(t) \/ RunLastRestoring(t)
       \/ IterateDone

Iterate == Begin \/ Reschedule \/ Run

Next == Commands \/ Iterate

Spec == Init /\ [][Next]_vars

\* The main loop calls iterate() over and over, and a call runs to its end.
FairSpec == Spec /\ WF_vars(Iterate)

-----------------------------------------------------------------------------
(* Properties.                                                              *)

\* Type invariant: the sets are made of tasks and the hash's values are counts.
TypeOK ==
    /\ status \in [Task -> Status]
    /\ mutexes \in [Task -> SUBSET Mutex]
    /\ IsSet(active, Task) /\ IsSet(inactive, Task) /\ IsSet(gray, Task)
    /\ IsSet(oldActive, Task) /\ IsSet(oldInactive, Task)
    /\ activeMutexes \in [Mutex -> Task \cup {NoTask}]
    /\ tasksByName \in [Names -> Int]
    /\ shouldReschedule \in BOOLEAN
    /\ pc \in Loop \cup {"idle"} /\ i \in Nat \ {0}
    /\ thief \in Task \cup {NoTask} /\ pending \in SUBSET Mutex
    /\ changes \in Nat /\ ran \in SUBSET Task

\* The two sets of tasks stay what Set.pm promises, and no task is in both
\* (checkValidity, lines 235 and 245), even inside reschedule()'s loops.
Partition ==
    /\ Consistent(active) /\ Consistent(inactive)
    /\ Items(active) \cap Items(inactive) = {}

\* A suspended task holds no lock, whatever it and the others did to their lists
\* before (checkValidity, line 247): only a task that was let go can leak one.
WaitingHoldNothing == \A m \in Mutex : activeMutexes[m] \notin Items(inactive)

\* Task.pm's protocol, as the manager's calls see it: activate() on an INACTIVE
\* task, resume() on an INTERRUPTED one, interrupt() and iterate() on a RUNNING
\* one, so no _assertStatus fails, in whatever order the two sets changed.
CallsInStatus ==
    \A t \in Task :
        /\ (Resuming(t) /\ ~SetHas(oldActive, t)) =>
              status[t] \in {"INACTIVE", "INTERRUPTED"}
        /\ (Interrupting(t) /\ ~SetHas(oldInactive, t)) => status[t] = "RUNNING"
        /\ Running(t) => status[t] \in {"RUNNING", "STOPPED"}

\* Where iterate() runs checkValidity.
Checked == pc = "idle" \/ (pc = "run" /\ i = 1 /\ ran = {})

\* checkValidity's assertions on the statuses of the members of the two sets
\* (lines 234 and 244).
MembersStatus ==
    Checked => /\ \A t \in Items(active) : status[t] \in {"RUNNING", "STOPPED"}
               /\ \A t \in Items(inactive) :
                     status[t] \in {"INTERRUPTED", "INACTIVE", "STOPPED"}

\* checkValidity's assertions on the locks (lines 236-240 and 256-259): an active
\* task that is not gray owns all its mutexes, an owner is active.
Locks ==
    Checked =>
      /\ \A t \in Items(active) :
            SetHas(gray, t) \/ \A m \in mutexes[t] : activeMutexes[m] = t
      /\ \A m \in Mutex : activeMutexes[m] \in Items(active) \cup {NoTask}

\* What the algorithm is for (lines 123-125): active tasks do not conflict.  A task
\* whose list changed since is still to be rescheduled, and is marked so.
NoConflict ==
    Checked => \A t, u \in Items(active) \ Items(gray) :
                 t # u => mutexes[t] \cap mutexes[u] = {}

\* A change of a list is not forgotten: the next iterate() will reschedule.
MarkedAreRescheduled == (pc = "idle" /\ gray.items # <<>>) => shouldReschedule

Named(n) == {t \in Managed : Name[t] = n}

\* Every task is in the count of its name (lines 77 and 328), however often it was
\* suspended and by whatever way the others of that name left.  The count may be too
\* high: a task that is thrown away stays in it.
EveryTaskCounted ==
    Checked => \A n \in Names : Cardinality(Named(n)) <= tasksByName[n]

\* iterate() runs every active task, once, though tasks leave the array it walks
\* over: the tasks before index i have run, the ones from i on have not.
EachRunsOnce ==
    pc = "run" =>
        \A n \in 1 .. Len(active.items) : (active.items[n] \in ran) <=> (n < i)

\* A suspended task gave way to one of strictly higher priority, or its own list
\* had changed.
GiveWay ==
    \A t \in Task :
        (t \in Items(active) /\ t \in Items(inactive)') =>
            pc = "gray" \/ (pc = "steal" /\ Priority[thief] > Priority[t])

SuspendedByHigher == [][GiveWay]_vars

\* A call of iterate() returns.
IterateReturns == (pc # "idle") ~> (pc = "idle")

\* A task that was stopped, active or waiting, is let go of.
StoppedIsDropped ==
    \A t \in Task : (status[t] = "STOPPED") ~> (t \notin Managed)

\* After a reschedule, a waiting task has no lower priority than the running tasks
\* it conflicts with: "tasks with higher priority will be active compared to
\* conflicting tasks with lower priority" (lines 124-125).
NoInversion ==
    (pc = "run" /\ ran = {} /\ ~shouldReschedule /\ i = 1) =>
        \A t \in Items(inactive), u \in Items(active) :
            mutexes[t] \cap mutexes[u] # {} => Priority[t] <= Priority[u]

-----------------------------------------------------------------------------
(* An inductive invariant, whatever the tasks do: parts of it are the        *)
(* invariants above, the rest is what they rest on.                          *)

Rescheduling == {"gray", "activate", "steal", "resume", "interrupt"}

Ran(t)   == status[t] \in {"RUNNING", "STOPPED"}
Waits(t) == status[t] \in {"INTERRUPTED", "INACTIVE", "STOPPED"}

\* Between the copies and the calls that tell the tasks: a task has the status its
\* old place gives it.
NewlyActive(t) ==
    IF SetHas(oldActive, t) THEN Ran(t)
    ELSE SetHas(oldInactive, t) /\ status[t] \in {"INACTIVE", "INTERRUPTED"}
NewlyInactive(t) ==
    IF SetHas(oldInactive, t) THEN Waits(t)
    ELSE SetHas(oldActive, t) /\ status[t] = "RUNNING"

StatusInv ==
    /\ pc \in Rescheduling =>
          \A t \in Task : ~(SetHas(oldActive, t) /\ SetHas(oldInactive, t))
    /\ \A n \in 1 .. Len(active.items) :
          IF pc \in {"gray", "activate", "steal"} \/ (pc = "resume" /\ n >= i)
          THEN NewlyActive(active.items[n]) ELSE Ran(active.items[n])
    /\ \A n \in 1 .. Len(inactive.items) :
          IF pc \in Rescheduling \ {"interrupt"} \/ (pc = "interrupt" /\ n >= i)
          THEN NewlyInactive(inactive.items[n]) ELSE Waits(inactive.items[n])

\* The owner of a mutex is active and wants it, or is gone (a leaked lock).
OwnerInv ==
    \A m \in Mutex :
        LET t == activeMutexes[m]
        IN  \/ t = NoTask
            \/ t \in Items(active) /\ m \in mutexes[t]
            \/ t \notin Managed /\ status[t] \in Finished

\* A task marked gray is active and holds nothing.
GrayActive ==
    \A t \in Items(gray) : /\ t \in Items(active)
                           /\ \A m \in Mutex : activeMutexes[m] # t

\* The state in which the first loop of reschedule() does not end: the first gray
\* task conflicts, was deactivated, and cannot be removed.
Stuck ==
    /\ gray.items # <<>>
    /\ LET t == gray.items[1]
       IN  /\ ~SetHas(gray, t)
           /\ Conflicts(t) # {}
           /\ \A m \in Mutex : activeMutexes[m] # t
           /\ t \notin Items(active)
           /\ status[t] \in Finished \/ t \in Items(inactive)

GrayInv ==
    /\ pc # "gray" => IndexedBy(gray, 0) /\ GrayActive
    /\ pc = "gray" => Stuck \/ (IndexedBy(gray, HeadShift(gray)) /\ GrayActive)
    /\ pc \in {"activate", "steal"} => gray.items = <<>>

StealInv ==
    pc = "steal" =>
        /\ thief \in Items(active)
        /\ pending \subseteq mutexes[thief]
        /\ \A m \in pending : LET t == activeMutexes[m]
                              IN t = NoTask \/ (t # thief /\ Priority[thief] > Priority[t])

\* An active task owns what it wants, but for the changed ones, marked in the hash,
\* and the one still taking its mutexes.
HoldInv ==
    /\ \A t \in Items(active) :
          \/ SetHas(gray, t)
          \/ pc = "steal" /\ t = thief
          \/ \A m \in mutexes[t] : activeMutexes[m] = t
    /\ pc = "steal" => \A m \in mutexes[thief] \ pending : activeMutexes[m] = thief

NoneRan == pc \in Rescheduling => ran = {}

Inductive ==
    /\ Partition /\ OwnerInv /\ GrayInv /\ StealInv /\ StatusInv
    /\ HoldInv /\ NoneRan /\ EachRunsOnce

\* Without a task that changes its list after it stopped no lock is leaked.
OwnersActive == \A m \in Mutex : activeMutexes[m] \in Items(active) \cup {NoTask}

\* The counts inside reschedule(): only a loop that hangs runs away with one.
Counts ==
    \A n \in Names : IsFiniteSet(Named(n)) /\ Cardinality(Named(n)) <= tasksByName[n]
CountInv == Counts \/ (pc = "gray" /\ Stuck)

\* Up to the first change of a list the gray set is exact: nothing is marked, or one
\* active task, which is still to be rescheduled or has the locks of its new list.
\* (Its mark stays in the hash: a second change of the same task is not noted.)
OneChange ==
    changes <= 1 =>
        \/ gray.items = <<>> /\ DOMAIN gray.keys = {}
        \/ \E t \in Items(active) :
              /\ changes = 1 /\ DOMAIN gray.keys = {t} /\ gray.keys[t] = 0
              /\ pc = "steal" => thief # t
              /\ \/ gray.items = <<t>>
                 \/ gray.items = <<>> /\ \A m \in mutexes[t] : activeMutexes[m] = t

\* Without a task that changes its list as it starts, no mark outlives the reschedule
\* it asks for.
RequestInv ==
    /\ pc \in {"resume", "interrupt"} => gray.items = <<>>
    /\ pc \in {"idle", "run"} /\ gray.items # <<>> => shouldReschedule
=============================================================================
